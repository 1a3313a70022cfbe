----------------------------- MODULE Cli_proofs -----------------------------
(***************************************************************************)
(* Theorems about Cli, for any compiled languages, any cap and any         *)
(* invocation: what is printed, what the exit status says, and that it is  *)
(* the server's verdict.                                                   *)
(*                                                                         *)
(* One invariant, Phase, says what has been printed at every place of the  *)
(* program, and what is still to come.  While nothing has gone wrong, that *)
(* is the rest of two lists: the verbose log, then the report (OnCourse).  *)
(* After a failure one complaint is due, has been printed, or is lost      *)
(* (Failed).                                                               *)
(***************************************************************************)
EXTENDS Cli, SharedLemmas

LangSet == ToSet(Compiled)

(* Arguments, text, mode and languages are in order. *)
Passes(i) == resolve_check_inputs(i) = "ok"

(* What vv check --verbose says before the scan, and in all. *)
Opening(i) == IF i.verbose THEN <<<<"input">>>> ELSE <<>>

Tally(i) == per_lang(result(i)) \o IF result(i).truncated THEN <<<<"cut">>>> ELSE <<>>

Log(i) == IF i.command = "check" /\ i.verbose THEN <<<<"input">>>> \o Tally(i) ELSE <<>>

Begins(s, t) == Len(s) <= Len(t) /\ \A k \in 1 .. Len(s) : s[k] = t[k]

(* The line at place n of the log and the report after it. *)
LineAt(i, n) == IF n <= Len(Log(i)) THEN Err(Log(i)[n])
                                    ELSE Out(Report(i)[n - Len(Log(i))])

OnCourse ==
  /\ Begins(err, Log(inv)) /\ Begins(out, Report(inv))
  /\ out # <<>> => Len(err) = Len(Log(inv))
  /\ Len(err) + Len(out) + Len(todo) = Len(Log(inv)) + Len(Report(inv))
  /\ \A k \in 1 .. Len(todo) : todo[k] = LineAt(inv, Len(err) + Len(out) + k)

Admitted(i) == i.command = "check" /\ ~Refused(i) /\ Source(i) # "none"

(* i may come to its end without an error, with the status k.              *)
Finished(i, k) ==
  /\ i.command = "check" => /\ Admitted(i) /\ Obtained(i) /\ Passes(i)
                            /\ i.text # "huge"
                            /\ k = "Hits" <=> has_hits(result(i))
  /\ i.command # "check" => k = "Success"

(* w is the complaint that goes with the status k.                         *)
Due(i, k, w) ==
  \/ /\ k = "Usage" /\ i.command = "check" /\ ~Refused(i)
     /\ Source(i) = "none" /\ w = "no_input"
  \/ k = "Usage" /\ Admitted(i) /\ ~Passes(i) /\ w = resolve_check_inputs(i)
  \/ k = "TooLarge" /\ Admitted(i) /\ Passes(i) /\ i.text = "huge" /\ w = "too_large"
  \/ k = "Io" /\ i.command = "check" /\ ~Obtained(i) /\ w = "not_read"
  \/ k = "Io" /\ ~(i.command = "check" /\ ~Obtained(i)) /\ w = "not_written"
  \/ k = "Panic" /\ w = "internal_error"

Fine == {"Success", "Hits"}

Failed ==
  /\ kind \in {"Usage", "TooLarge"} => out = <<>>
  /\ out # <<>> => /\ Begins(out, Report(inv)) /\ Len(out) < Len(Report(inv))
                   /\ inv.command = "check" => Passes(inv)
  /\ \/ kind = "Usage" /\ Refused(inv) /\ todo = <<>> /\ Complaints = {}
     \/ \E w : /\ Due(inv, kind, w)
               /\ \/ todo = <<Err(<<"complaint", w>>)>> /\ Complaints = {}
                  \/ todo = <<>> /\ Complaints = {w}
                  \/ todo = <<>> /\ exit = 101 /\ Complaints = {}

Phase ==
  /\ pc \in {"parse", "read", "resolve"} => todo = <<>> /\ out = <<>> /\ err = <<>>
  /\ pc \in {"parse", "read", "resolve", "scan"} => kind = "Success"
  /\ pc = "read" => inv.command = "check" /\ ~Refused(inv)
  /\ pc \in {"resolve", "scan"} => Admitted(inv) /\ Obtained(inv)
  /\ pc = "scan" => /\ Passes(inv) /\ out = <<>>
                    /\ \/ todo = <<>> /\ err = Opening(inv)
                       \/ todo = <<Err(<<"input">>)>> /\ err = <<>> /\ inv.verbose
  /\ pc \in {"exit", "ended"} /\ kind \in Fine => Finished(inv, kind) /\ OnCourse
  /\ pc \in {"exit", "ended"} /\ kind \notin Fine => Failed
  /\ pc = "ended" =>
       /\ todo = <<>>
       /\ exit = code(kind) \/ (exit = 101 /\ kind = "Panic" /\ Complaints = {})
-------------------------------------------------------------------------------
(* The first of the tests that finds something, if one does.               *)
LEMMA FirstOfFinds ==
  ASSUME NEW order, DOMAIN order \subseteq Nat, NEW f
  PROVE  \/ /\ FirstOf(order, f) = "ok" /\ \A j \in DOMAIN order : order[j] \notin f
         \/ \E i \in DOMAIN order :
              /\ order[i] \in f /\ FirstOf(order, f) = order[i]
              /\ \A j \in DOMAIN order : j < i => order[j] \notin f
<1> DEFINE found == {j \in DOMAIN order : order[j] \in f}
<1>1. CASE found = {}
  BY <1>1, NoneOf
<1>2. CASE found # {}
  <2>1. PICK i \in found : \A j \in found : i <= j
    <3>1. found \subseteq Nat
      OBVIOUS
    <3> HIDE DEF found
    <3>2. QED
      BY <1>2, <3>1, LeastElement
  <2>2. \A j \in DOMAIN order : j < i => order[j] \notin f
    <3> SUFFICES ASSUME NEW j \in DOMAIN order, j < i, order[j] \in f PROVE FALSE
      OBVIOUS
    <3>1. j \in found /\ i \in Nat /\ j \in Nat
      OBVIOUS
    <3>2. i <= j
      BY <2>1, <3>1
    <3> HIDE DEF found
    <3>3. QED
      BY <3>1, <3>2
  <2>3. FirstOf(order, f) = order[i]
    BY <2>2, FirstOfIs
  <2>4. QED
    BY <2>2, <2>3
<1>3. QED
  BY <1>1, <1>2

(* An invocation that passes has none of the faults.                       *)
LEMMA PassesWithoutFault ==
  ASSUME NEW i, Passes(i)
  PROVE  FaultsOf(i) = {}
<1>1. /\ DOMAIN CliTests = 1 .. 6
      /\ CliTests[1] = "bad_request" /\ CliTests[2] = "empty_text"
      /\ CliTests[3] = "invalid_mode" /\ CliTests[4] = "empty_langs"
      /\ CliTests[5] = "unknown_language" /\ CliTests[6] = "too_large"
  BY DEF CliTests
<1>2. FirstOf(CliTests, FaultsOf(i)) = "ok"
  BY DEF Passes, resolve_check_inputs
<1>3. \A j \in 1 .. 6 : CliTests[j] # "ok"
  BY <1>1
<1>4. \A j \in 1 .. 6 : CliTests[j] \notin FaultsOf(i)
  BY <1>1, <1>2, <1>3, FirstOfFinds
<1>5. /\ 1 \in 1 .. 6 /\ 2 \in 1 .. 6 /\ 3 \in 1 .. 6 /\ 4 \in 1 .. 6 /\ 5 \in 1 .. 6
  OBVIOUS
<1>6. /\ "bad_request" \notin FaultsOf(i) /\ "empty_text" \notin FaultsOf(i)
      /\ "invalid_mode" \notin FaultsOf(i) /\ "empty_langs" \notin FaultsOf(i)
      /\ "unknown_language" \notin FaultsOf(i)
  BY <1>1, <1>4, <1>5
<1>7. FaultsOf(i) \subseteq {"bad_request", "empty_text", "invalid_mode", "empty_langs",
                            "unknown_language"}
  BY DEF FaultsOf
<1>8. QED
  BY <1>6, <1>7

(* The languages of an invocation: all, or the list of the flags or of the *)
(* JSON with its codes lowered, if they are compiled.                      *)
LEMMA ListIs ==
  ASSUME NEW i \in Invocations
  PROVE  /\ i.langs # {} => LangsOf(i) \in Seq(Codes)
         /\ \A s \in i.langs : (s = <<>>) <=> (LangsOf(i) = <<>>)
         /\ \/ scan_langs(i) = {} /\ i.langs # {}
            \/ \E list \in Seq(LangSet) : /\ scan_langs(i) = {list}
                                          /\ list = <<>> => i.langs = {<<>>}
<1>1. /\ i.langs \subseteq Seq(Codes) /\ \A s, t \in i.langs : s = t
      /\ Trimmed \in [Codes -> Codes] /\ Lowered \in [Codes -> Codes]
      /\ Compiled \in Seq(Codes) /\ Compiled # <<>>
  BY CliAssumption DEF InvocationType
<1>2. Compiled \in Seq(LangSet)
  BY <1>1 DEF LangSet, ToSet
<1>3. CASE i.langs = {}
  BY <1>1, <1>2, <1>3 DEF scan_langs
<1>4. CASE i.langs # {}
  <2> DEFINE s == CHOOSE s \in i.langs : TRUE
             l == LangsOf(i)
  <2>1. s \in i.langs /\ i.langs = {s} /\ s \in Seq(Codes)
    BY <1>1, <1>4
  <2>2. l = IF Json(i) THEN s ELSE [k \in DOMAIN s |-> Trimmed[s[k]]]
    BY DEF LangsOf
  <2> HIDE DEF s, l
  <2>3. DOMAIN s = 1 .. Len(s) /\ Len(s) \in Nat /\ \A k \in DOMAIN s : s[k] \in Codes
    BY <2>1
  <2>4. l \in Seq(Codes) /\ Len(l) = Len(s) /\ ((l = <<>>) <=> (s = <<>>))
    <3>1. CASE Json(i)
      BY <2>1, <2>2, <3>1
    <3>2. CASE ~Json(i)
      <4>1. l = [k \in 1 .. Len(s) |-> Trimmed[s[k]]]
        BY <2>2, <2>3, <3>2
      <4>2. \A k \in 1 .. Len(s) : Trimmed[s[k]] \in Codes
        BY <1>1, <2>3
      <4>3. l \in Seq(Codes) /\ Len(l) = Len(s)
        BY <2>3, <4>1, <4>2
      <4>4. QED
        BY <2>1, <4>3
    <3>3. QED
      BY <3>1, <3>2
  <2> DEFINE low == [k \in DOMAIN l |-> Lowered[l[k]]]
  <2>5. scan_langs(i) = IF ToSet(low) \subseteq LangSet THEN {low} ELSE {}
    BY <1>4, Zenon DEF scan_langs, validate_langs, l, LangSet
  <2>6. /\ low \in Seq(ToSet(low)) /\ Len(low) = Len(l)
    <3>1. low = [k \in 1 .. Len(l) |-> Lowered[l[k]]] /\ Len(l) \in Nat
      BY <2>4
    <3>2. \A k \in 1 .. Len(l) : low[k] \in ToSet(low)
      BY <3>1 DEF ToSet
    <3> HIDE DEF low
    <3>3. QED
      BY <3>1, <3>2
  <2> HIDE DEF low
  <2>7. low = <<>> => i.langs = {<<>>}
    BY <2>1, <2>4, <2>6
  <2>8. ToSet(low) \subseteq LangSet => low \in Seq(LangSet)
    BY <2>6
  <2>9. QED
    BY <1>4, <2>1, <2>4, <2>5, <2>7, <2>8 DEF l
<1>5. QED
  BY <1>3, <1>4

-------------------------------------------------------------------------------
(* The matches of the k-th entry of the list.                              *)
Entry(i, list) == [k \in DOMAIN list |-> [n \in 1 .. i.hits[list[k]] |-> list[k]]]

(* Full is the entries' matches, one entry after the other.                *)
LEMMA FullIsFlat ==
  ASSUME NEW i \in Invocations, NEW list \in Seq(LangSet)
  PROVE  /\ AreSeqs(Entry(i, list), Len(list), LangSet)
         /\ Full(i, list) = Flat(Entry(i, list), Len(list))
         /\ \A k \in 1 .. Len(list) : Len(Entry(i, list)[k]) = i.hits[list[k]]
         /\ \A k \in 1 .. Len(list) : i.hits[list[k]] \in Nat
         /\ \A k \in 1 .. Len(list) : \A n \in 1 .. Len(Entry(i, list)[k]) :
              Entry(i, list)[k][n] = list[k]
<1>1. i.hits \in [LangSet -> Nat]
  BY CliAssumption DEF InvocationType, LangSet
<1>2. DOMAIN list = 1 .. Len(list) /\ \A k \in 1 .. Len(list) : list[k] \in LangSet
  OBVIOUS
<1>3. \A k \in 1 .. Len(list) : i.hits[list[k]] \in Nat
  BY <1>1, <1>2
<1> DEFINE g == Entry(i, list)
<1>4. g = [k \in 1 .. Len(list) |-> [n \in 1 .. i.hits[list[k]] |-> list[k]]]
  BY <1>2 DEF Entry
<1>5. ASSUME NEW k \in 1 .. Len(list)
      PROVE  /\ g[k] \in Seq(LangSet) /\ Len(g[k]) = i.hits[list[k]]
             /\ \A n \in 1 .. Len(g[k]) : g[k][n] = list[k]
  <2>1. PICK m \in Nat, l \in LangSet : m = i.hits[list[k]] /\ l = list[k]
    BY <1>2, <1>3
  <2>2. g[k] = [n \in 1 .. m |-> l]
    BY <1>4, <2>1
  <2> HIDE DEF g
  <2>3. QED
    BY <2>1, <2>2
<1>6. Full(i, list) = Flat(g, Len(list))
  <2>1. [k \in 1 .. Len(list) |-> g[k]] = g
    BY <1>4
  <2>2. Full(i, list) = FlattenSeq(g)
    BY DEF Full, Entry
  <2> HIDE DEF g
  <2>3. QED
    BY <2>1, <2>2, Zenon DEF Flat
<1> HIDE DEF g
<1>7. QED
  BY <1>3, <1>5, <1>6 DEF AreSeqs, g

(* ... and of the first p entries, the first part of it.                   *)
LEMMA FullOfFirst ==
  ASSUME NEW i \in Invocations, NEW list \in Seq(LangSet), NEW p \in 0 .. Len(list)
  PROVE  Full(i, SubSeq(list, 1, p)) = Flat(Entry(i, list), p)
<1> DEFINE s == SubSeq(list, 1, p)
<1>1. s \in Seq(LangSet) /\ Len(s) = p /\ \A k \in 1 .. p : s[k] = list[k]
  <2>1. SubSeq(list, 0 + 1, 0 + p) = s
    OBVIOUS
  <2>2. 0 + p <= Len(list)
    OBVIOUS
  <2>3. QED
    BY SubSeqIs, <2>1, <2>2
<1> HIDE DEF s
<1>2. Full(i, s) = Flat(Entry(i, s), p)
  BY <1>1, FullIsFlat
<1>3. \A k \in 1 .. p : Entry(i, s)[k] = Entry(i, list)[k]
  <2>1. DOMAIN s = 1 .. p /\ \A k \in 1 .. p : k \in DOMAIN list
    BY <1>1
  <2>2. QED
    BY <1>1, <2>1, Zenon DEF Entry
<1>4. Flat(Entry(i, s), p) = Flat(Entry(i, list), p)
  BY <1>3, FlatLocal
<1>5. QED
  BY <1>2, <1>4 DEF s

(* What the scan of an invocation that passes returns.                     *)
LEMMA ResultIs ==
  ASSUME NEW i \in Invocations, Passes(i)
  PROVE  /\ result(i).mode_used \in Seq(LangSet)
         /\ result(i).matches \in Seq(LangSet)
         /\ result(i).truncated \in BOOLEAN
         /\ \A n \in 1 .. Len(result(i).matches) :
              \E k \in 1 .. Len(result(i).mode_used) :
                 SameAt(result(i).matches, n, result(i).mode_used, k)
         /\ has_hits(result(i)) <=> Matched(i)
<1>1. PICK list \in Seq(LangSet) : scan_langs(i) = {list} /\ list # <<>>
  <2>1. "unknown_language" \notin FaultsOf(i) /\ "empty_langs" \notin FaultsOf(i)
    BY PassesWithoutFault
  <2>2. "bad_request" \notin FaultsOf(i)
    BY PassesWithoutFault
  <2>3. scan_langs(i) # {} /\ i.langs # {<<>>}
    BY <2>1, <2>2 DEF FaultsOf
  <2>4. QED
    BY <2>3, ListIs
<1> DEFINE n    == Len(list)
           g    == Entry(i, list)
           full == Full(i, list)
           entered == {k \in 1 .. n : k = 1 \/ Len(Full(i, SubSeq(list, 1, k - 1))) <= MAX_MATCHES}
           last == Max(entered)
           shown == Min({Len(full), MAX_MATCHES})
<1>2. n \in Nat /\ n # 0 /\ DOMAIN list = 1 .. n
  BY <1>1
<1>3. result(i) = [mode_used |-> SubSeq(list, 1, last),
                   matches   |-> SubSeq(full, 1, shown),
                   truncated |-> Len(full) > MAX_MATCHES]
  <2>1. (CHOOSE s \in scan_langs(i) : TRUE) = list
    BY <1>1
  <2>2. QED
    BY <1>2, <2>1 DEF result
<1>4. AreSeqs(g, n, LangSet) /\ full = Flat(g, n) /\ full \in Seq(LangSet)
  BY FullIsFlat, FlatType
<1>5. Len(full) \in Nat /\ MAX_MATCHES \in Nat /\ MAX_MATCHES # 0
  BY <1>4, CliAssumption, LenProperties
<1> HIDE DEF full
<1>6. shown \in 0 .. Len(full) /\ shown <= MAX_MATCHES
      /\ (shown = Len(full) \/ shown = MAX_MATCHES)
  <2> DEFINE S == {Len(full), MAX_MATCHES}
  <2>1. \E x \in S : \A y \in S : x <= y
    BY <1>5
  <2>2. shown \in S /\ \A y \in S : shown <= y
    <3> HIDE DEF S
    <3>1. QED
      BY <2>1 DEF Min, S
  <2>3. PICK y \in Nat : y = shown
    BY <1>5, <2>2
  <2>4. y \in S /\ y <= Len(full) /\ y <= MAX_MATCHES
    BY <2>2, <2>3
  <2> HIDE DEF shown
  <2>5. QED
    BY <1>5, <2>3, <2>4
<1>7. last \in entered /\ \A k \in entered : k <= last
  <2>1. entered \in SUBSET (1 .. n) /\ 1 \in entered
    BY <1>2
  <2>2. entered # {}
    BY <2>1
  <2> HIDE DEF entered
  <2>3. QED
    BY <1>2, <2>1, <2>2, MaxIs
<1>8. last \in 1 .. n
  BY <1>7
<1> HIDE DEF shown, last
<1>9. /\ result(i).mode_used = SubSeq(list, 1, last)
      /\ result(i).matches = SubSeq(full, 1, shown)
      /\ result(i).truncated = (Len(full) > MAX_MATCHES)
  <2>1. PICK a, b, c : /\ a = SubSeq(list, 1, last) /\ b = SubSeq(full, 1, shown)
                       /\ c = (Len(full) > MAX_MATCHES)
    OBVIOUS
  <2>2. result(i) = [mode_used |-> a, matches |-> b, truncated |-> c]
    BY <1>3, <2>1
  <2>3. result(i).mode_used = a /\ result(i).matches = b /\ result(i).truncated = c
    BY <2>2
  <2>4. QED
    BY <2>1, <2>3
<1>10. /\ SubSeq(list, 1, last) \in Seq(LangSet) /\ Len(SubSeq(list, 1, last)) = last
       /\ \A k \in 1 .. last : SubSeq(list, 1, last)[k] = list[k]
  <2>1. 0 + last <= n /\ last \in Nat /\ 0 + last = last /\ 0 + 1 = 1
    BY <1>2, <1>8
  <2>2. /\ SubSeq(list, 0 + 1, 0 + last) \in Seq(LangSet)
        /\ Len(SubSeq(list, 0 + 1, 0 + last)) = last
        /\ \A k \in 1 .. last : SubSeq(list, 0 + 1, 0 + last)[k] = list[0 + k]
    BY <2>1, SubSeqIs
  <2>3. QED
    BY <2>1, <2>2
<1>11. /\ SubSeq(full, 1, shown) \in Seq(LangSet) /\ Len(SubSeq(full, 1, shown)) = shown
       /\ \A k \in 1 .. shown : SubSeq(full, 1, shown)[k] = full[k]
  <2>1. 0 + shown <= Len(full) /\ shown \in Nat /\ 0 + shown = shown /\ 0 + 1 = 1
    BY <1>5, <1>6
  <2>2. /\ SubSeq(full, 0 + 1, 0 + shown) \in Seq(LangSet)
        /\ Len(SubSeq(full, 0 + 1, 0 + shown)) = shown
        /\ \A k \in 1 .. shown : SubSeq(full, 0 + 1, 0 + shown)[k] = full[0 + k]
    BY <1>4, <2>1, SubSeqIs
  <2>3. QED
    BY <2>1, <2>2
<1>12. ASSUME NEW m \in 1 .. shown
       PROVE  \E k \in 1 .. last : SameAt(SubSeq(full, 1, shown), m, SubSeq(list, 1, last), k)
  <2>1. m \in 1 .. Len(Flat(g, n))
    BY <1>4, <1>5, <1>6
  <2>2. PICK k \in 1 .. n : /\ Len(Flat(g, k - 1)) < m
                            /\ \E j \in 1 .. Len(g[k]) : SameAt(Flat(g, n), m, g[k], j)
    BY <1>2, <1>4, <2>1, FlatElement
  <2>3. k \in entered
    <3>1. PICK p \in 0 .. n : p = k - 1
      OBVIOUS
    <3>2. Full(i, SubSeq(list, 1, p)) = Flat(g, p)
      BY FullOfFirst
    <3>3. Len(Flat(g, p)) < m /\ m <= MAX_MATCHES /\ m \in Nat
      BY <1>5, <1>6, <2>2, <3>1
    <3>4. Len(Flat(g, p)) \in Nat
      BY <1>2, <1>4, FlatGrows
    <3>5. Len(Full(i, SubSeq(list, 1, p))) <= MAX_MATCHES
      BY <1>5, <3>2, <3>3, <3>4
    <3>6. QED
      BY <3>1, <3>5
  <2>4. k \in 1 .. last
    BY <1>2, <1>7, <1>8, <2>3
  <2>5. full[m] = list[k]
    BY <1>4, <2>2, FullIsFlat DEF SameAt
  <2>6. SameAt(SubSeq(full, 1, shown), m, SubSeq(list, 1, last), k)
    BY <1>10, <1>11, <2>4, <2>5 DEF SameAt
  <2>7. QED
    BY <2>4, <2>6
<1>13. has_hits(result(i)) <=> Len(full) # 0
  <2>1. (SubSeq(full, 1, shown) # <<>>) <=> shown # 0
    <3>1. PICK x \in Seq(LangSet) : x = SubSeq(full, 1, shown) /\ Len(x) = shown
      BY <1>11
    <3>2. (x = <<>>) <=> Len(x) = 0
      OBVIOUS
    <3>3. QED
      BY <3>1, <3>2
  <2>2. has_hits(result(i)) <=> (shown # 0 \/ Len(full) > MAX_MATCHES)
    BY <1>9, <2>1 DEF has_hits
  <2>3. QED
    BY <1>5, <1>6, <2>2
<1>14. Matched(i) <=> \E k \in 1 .. n : i.hits[list[k]] > 0
  BY <1>1, <1>2 DEF Matched
<1>15. (\E k \in 1 .. n : i.hits[list[k]] > 0) => Len(full) # 0
  <2> SUFFICES ASSUME NEW k \in 1 .. n, i.hits[list[k]] > 0 PROVE Len(full) # 0
    OBVIOUS
  <2>1. 1 \in 1 .. Len(g[k])
    BY FullIsFlat
  <2>2. PICK p \in 0 .. n : k = p + 1
    <3>1. k - 1 \in 0 .. n /\ k = (k - 1) + 1
      BY <1>2
    <3>2. QED
      BY <3>1
  <2>3. Len(Flat(g, p)) \in Nat
    BY <1>2, <1>4, FlatGrows
  <2>4. PICK x \in Nat : x = Len(Flat(g, p)) + 1
    BY <2>3
  <2>5. x \in 1 .. Len(Flat(g, n))
    BY <1>2, <1>4, <2>1, <2>2, <2>4, FlatHas
  <2>6. QED
    BY <1>4, <1>5, <2>5
<1>16. Len(full) # 0 => \E k \in 1 .. n : i.hits[list[k]] > 0
  <2> SUFFICES ASSUME Len(full) # 0 PROVE \E k \in 1 .. n : i.hits[list[k]] > 0
    OBVIOUS
  <2>1. 1 \in 1 .. Len(Flat(g, n))
    BY <1>4, <1>5
  <2>2. PICK k \in 1 .. n : \E j \in 1 .. Len(g[k]) : SameAt(Flat(g, n), 1, g[k], j)
    BY <1>2, <1>4, <2>1, FlatElement
  <2>3. /\ Len(g[k]) = i.hits[list[k]] /\ i.hits[list[k]] \in Nat
    BY FullIsFlat
  <2>4. QED
    BY <2>2, <2>3
<1>17. QED
  BY <1>9, <1>10, <1>11, <1>12, <1>13, <1>14, <1>15, <1>16

-------------------------------------------------------------------------------
Words == {"no_input", "bad_request", "empty_text", "invalid_mode", "empty_langs",
          "unknown_language", "too_large", "not_read", "not_written", "internal_error"}

(* The lines that i may print. *)
Printed(i) == ToSet(Report(i)) \cup ToSet(Log(i)) \cup {<<"input">>}
              \cup {<<"complaint", w>> : w \in Words}

Lines(i) == [to : {"stdout", "stderr"}, line : Printed(i)]

(* A sequence is one of its elements.                                      *)
LEMMA SeqOfItself ==
  ASSUME NEW S, NEW s \in Seq(S), NEW T, ToSet(s) \subseteq T
  PROVE  s \in Seq(T)
BY DEF ToSet

(* The verbose log of a check that passes, after its first line: a tally   *)
(* for each language of mode_used, and a line if the list is cut.          *)
LEMMA TallyIs ==
  ASSUME NEW i \in Invocations, Passes(i)
  PROVE  /\ Tally(i) \in Seq(ToSet(Tally(i)))
         /\ Len(Tally(i)) >= Len(result(i).mode_used)
         /\ \A n \in 1 .. Len(result(i).mode_used) : Tally(i)[n] = per_lang(result(i))[n]
         /\ \A n \in 1 .. Len(Tally(i)) :
              n > Len(result(i).mode_used) => Tally(i)[n] = <<"cut">>
         /\ \A n \in 1 .. Len(Tally(i)) : Tally(i)[n][1] \in {"tally", "cut"}
<1> DEFINE r == result(i)
           a == per_lang(r)
           b == IF r.truncated THEN <<<<"cut">>>> ELSE <<>>
           S == ToSet(a) \cup {<<"cut">>}
<1>1. r.mode_used \in Seq(LangSet) /\ r.truncated \in BOOLEAN
  BY ResultIs
<1>2. DOMAIN r.mode_used = 1 .. Len(r.mode_used) /\ Len(r.mode_used) \in Nat
  BY <1>1
<1>3. /\ a = [k \in 1 .. Len(r.mode_used) |-> a[k]]
      /\ \A k \in 1 .. Len(r.mode_used) : a[k][1] = "tally"
  BY <1>2 DEF per_lang
<1>4. a \in Seq(S) /\ Len(a) = Len(r.mode_used)
  <2>1. \A k \in 1 .. Len(r.mode_used) : a[k] \in S
    BY <1>3, Zenon DEF ToSet
  <2> HIDE DEF a, S
  <2>2. QED
    BY <1>2, <1>3, <2>1
<1>5. b \in Seq(S) /\ \A k \in 1 .. Len(b) : b[k] = <<"cut">>
  <2>1. <<"cut">> \in S
    OBVIOUS
  <2> HIDE DEF S
  <2>2. QED
    BY <1>1, <2>1
<1>6. IsConcat(Tally(i), a, b)
  BY Zenon DEF IsConcat, Tally
<1> HIDE DEF a, b, S
<1>7. /\ Tally(i) \in Seq(S)
      /\ Len(a) \in Nat /\ Len(b) \in Nat /\ Len(Tally(i)) = Len(a) + Len(b)
      /\ \A k \in 1 .. Len(a) : Tally(i)[k] = a[k]
      /\ \A k \in 1 .. Len(b) : Tally(i)[Len(a) + k] = b[k]
  <2>1. a \in Seq(S) /\ b \in Seq(S)
    BY <1>4, <1>5
  <2>2. QED
    BY <2>1, <1>6, ConcatIs
<1>8. \A n \in 1 .. Len(Tally(i)) : n > Len(a) => Tally(i)[n] = <<"cut">>
  <2> SUFFICES ASSUME NEW n \in 1 .. Len(Tally(i)), n > Len(a)
               PROVE  Tally(i)[n] = <<"cut">>
    OBVIOUS
  <2>1. PICK k \in 1 .. Len(b) : n = Len(a) + k
    <3>1. n - Len(a) \in 1 .. Len(b) /\ n = Len(a) + (n - Len(a))
      BY <1>7
    <3>2. QED
      BY <3>1
  <2>2. QED
    BY <1>5, <1>7, <2>1
<1>9. \A n \in 1 .. Len(Tally(i)) : Tally(i)[n][1] \in {"tally", "cut"}
  <2> SUFFICES ASSUME NEW n \in 1 .. Len(Tally(i))
               PROVE  Tally(i)[n][1] \in {"tally", "cut"}
    OBVIOUS
  <2>1. CASE n > Len(a)
    <3>1. Tally(i)[n] = <<"cut">>
      BY <1>8, <2>1
    <3>2. QED
      BY <3>1
  <2>2. CASE ~(n > Len(a))
    <3>1. n \in 1 .. Len(a) /\ n \in 1 .. Len(r.mode_used)
      BY <1>4, <1>7, <2>2
    <3>2. Tally(i)[n] = a[n] /\ a[n][1] = "tally"
      BY <1>3, <1>7, <3>1
    <3>3. QED
      BY <3>2
  <2>3. QED
    BY <2>1, <2>2
<1>10. Tally(i) \in Seq(ToSet(Tally(i)))
  BY <1>7, SeqOfItself
<1>11. QED
  BY <1>4, <1>7, <1>8, <1>9, <1>10 DEF a

(* The report of a check that passes is a list of lines.                   *)
LEMMA CheckReportIs ==
  ASSUME NEW i \in Invocations, Passes(i)
  PROVE  CheckReport(i) \in Seq(ToSet(CheckReport(i)))
<1> DEFINE r == result(i)
           a == [k \in DOMAIN r.matches |-> <<"match", r.matches[k]>>]
           b == IF r.truncated THEN <<<<"truncated">>>> ELSE <<>>
           S == ToSet(a) \cup {<<"truncated">>}
           w == <<"response", ToSet(r.mode_used), r.matches, r.truncated>>
<1>1. r.matches \in Seq(LangSet) /\ r.truncated \in BOOLEAN
  BY ResultIs
<1>2. CASE i.plain
  <2>1. DOMAIN r.matches = 1 .. Len(r.matches) /\ Len(r.matches) \in Nat
    BY <1>1
  <2>2. a = [k \in 1 .. Len(r.matches) |-> a[k]]
    BY <2>1
  <2>3. a \in Seq(S)
    <3>1. \A k \in 1 .. Len(r.matches) : a[k] \in S
      BY <2>2, Zenon DEF ToSet
    <3> HIDE DEF a, S
    <3>2. QED
      BY <2>1, <2>2, <3>1
  <2>4. b \in Seq(S)
    <3>1. <<"truncated">> \in S
      OBVIOUS
    <3> HIDE DEF S
    <3>2. QED
      BY <1>1, <3>1
  <2>5. IsConcat(CheckReport(i), a, b)
    BY <1>2, Zenon DEF CheckReport, write_check_plain, IsConcat
  <2> HIDE DEF a, b, S
  <2>6. CheckReport(i) \in Seq(S)
    BY <2>3, <2>4, <2>5, ConcatIs
  <2>7. QED
    BY <2>6, SeqOfItself
<1>3. CASE ~i.plain
  <2>1. CheckReport(i) = <<w>>
    BY <1>3, Zenon DEF CheckReport
  <2> HIDE DEF w
  <2>2. <<w>> \in Seq({w})
    OBVIOUS
  <2>3. CheckReport(i) \in Seq({w})
    BY <2>1, <2>2, Zenon
  <2>4. QED
    BY <2>3, SeqOfItself
<1>4. QED
  BY <1>2, <1>3

(* The two lists of an invocation that may come to its end; the log has no *)
(* complaint.                                                              *)
LEMMA ListsOf ==
  ASSUME NEW i \in Invocations, i.command = "check" => Passes(i)
  PROVE  /\ Report(i) \in Seq(Printed(i)) /\ Log(i) \in Seq(Printed(i))
         /\ \A n \in 1 .. Len(Log(i)) : Log(i)[n][1] # "complaint"
         /\ i.command = "check" /\ i.verbose =>
              /\ Len(Log(i)) = 1 + Len(Tally(i))
              /\ Log(i)[1] = <<"input">>
              /\ \A n \in 1 .. Len(Tally(i)) : Log(i)[1 + n] = Tally(i)[n]
<1>1. Report(i) \in Seq(ToSet(Report(i)))
  <2>1. CASE i.command = "check"
    BY <2>1, CheckReportIs DEF Report
  <2>2. CASE i.command = "version"
    <3>1. Report(i) = <<<<"version">>>>
      BY <2>2 DEF Report
    <3>2. Report(i) \in Seq({<<"version">>})
      BY <3>1
    <3>3. QED
      BY <3>2, SeqOfItself
  <2>3. CASE i.command = "languages"
    <3> DEFINE x == [k \in DOMAIN Compiled |-> <<"code", Compiled[k]>>]
               w == <<"codes", Compiled>>
    <3>1. DOMAIN Compiled = 1 .. Len(Compiled) /\ Len(Compiled) \in Nat
      BY CliAssumption
    <3>2. x \in Seq(ToSet(x))
      <4>1. \A k \in 1 .. Len(Compiled) : x[k] \in ToSet(x)
        BY <3>1 DEF ToSet
      <4>2. x = [k \in 1 .. Len(Compiled) |-> x[k]]
        BY <3>1
      <4> HIDE DEF x
      <4>3. QED
        BY <3>1, <4>1, <4>2
    <3>3. <<w>> \in Seq(ToSet(<<w>>))
      <4> HIDE DEF w
      <4>1. QED
        BY DEF ToSet
    <3>4. Report(i) = IF i.plain THEN x ELSE <<w>>
      BY <2>3 DEF Report
    <3> HIDE DEF x, w
    <3>5. QED
      BY <3>2, <3>3, <3>4
  <2>4. CASE i.command \notin {"check", "version", "languages"}
    <3>1. Report(i) = <<>>
      BY <2>4 DEF Report
    <3>2. QED
      BY <3>1
  <2>5. QED
    BY <2>1, <2>2, <2>3, <2>4
<1>2. Report(i) \in Seq(Printed(i))
  BY <1>1, SeqOfItself DEF Printed
<1>3. CASE i.command = "check" /\ i.verbose
  <2>1. IsConcat(Log(i), <<<<"input">>>>, Tally(i))
    BY <1>3, Zenon DEF Log, IsConcat
  <2>2. /\ Tally(i) \in Seq(ToSet(Tally(i)))
        /\ \A n \in 1 .. Len(Tally(i)) : Tally(i)[n][1] \in {"tally", "cut"}
    BY <1>3, TallyIs
  <2> DEFINE S == ToSet(Tally(i)) \cup {<<"input">>}
             one == <<<<"input">>>>
  <2>3. one \in Seq(S) /\ Tally(i) \in Seq(S) /\ Len(one) = 1 /\ one[1] = <<"input">>
    <3>1. <<"input">> \in S /\ ToSet(Tally(i)) \subseteq S
      OBVIOUS
    <3> HIDE DEF S
    <3>2. QED
      BY <2>2, <3>1
  <2> HIDE DEF S, one
  <2>4. /\ Log(i) \in Seq(S)
        /\ Len(one) \in Nat /\ Len(Tally(i)) \in Nat
        /\ Len(Log(i)) = Len(one) + Len(Tally(i))
        /\ \A n \in 1 .. Len(one) : Log(i)[n] = one[n]
        /\ \A n \in 1 .. Len(Tally(i)) : Log(i)[Len(one) + n] = Tally(i)[n]
    <3>1. IsConcat(Log(i), one, Tally(i))
      BY <2>1, Zenon DEF one
    <3>2. one \in Seq(S) /\ Tally(i) \in Seq(S)
      BY <2>3
    <3>3. QED
      BY <3>1, <3>2, ConcatIs
  <2>5. /\ Len(Log(i)) = 1 + Len(Tally(i))
        /\ Log(i)[1] = <<"input">>
        /\ \A n \in 1 .. Len(Tally(i)) : Log(i)[1 + n] = Tally(i)[n]
    BY <2>3, <2>4
  <2>6. \A n \in 1 .. Len(Log(i)) : Log(i)[n][1] # "complaint"
    <3> SUFFICES ASSUME NEW n \in 1 .. Len(Log(i)) PROVE Log(i)[n][1] # "complaint"
      OBVIOUS
    <3>1. CASE n = 1
      BY <2>5, <3>1
    <3>2. CASE n # 1
      <4>1. PICK m \in 1 .. Len(Tally(i)) : n = 1 + m
        <5>1. n - 1 \in 1 .. Len(Tally(i)) /\ n = 1 + (n - 1)
          BY <2>4, <2>5, <3>2
        <5>2. QED
          BY <5>1
      <4>2. QED
        BY <2>2, <2>5, <4>1
    <3>3. QED
      BY <3>1, <3>2
  <2>7. Log(i) \in Seq(Printed(i))
    BY <2>4, SeqOfItself DEF Printed
  <2>8. QED
    BY <1>2, <2>5, <2>6, <2>7
<1>4. CASE ~(i.command = "check" /\ i.verbose)
  <2>1. Log(i) = <<>>
    BY <1>4 DEF Log
  <2>2. QED
    BY <1>2, <1>4, <2>1
<1>5. QED
  BY <1>3, <1>4

-------------------------------------------------------------------------------
Typed == /\ TypeOK
         /\ todo \in Seq(Lines(inv))
         /\ out \in Seq(Printed(inv)) /\ err \in Seq(Printed(inv))

(* Before the arguments are parsed nothing is printed.                     *)
LEMMA InitPhase == Init => Typed /\ Phase
<1> SUFFICES ASSUME Init PROVE Typed /\ Phase
  OBVIOUS
<1>1. todo = <<>> /\ out = <<>> /\ err = <<>>
  BY DEF Init
<1>2. todo \in Seq(Lines(inv)) /\ out \in Seq(Printed(inv)) /\ err \in Seq(Printed(inv))
  BY <1>1
<1>3. QED
  BY <1>1, <1>2 DEF Init, Typed, TypeOK, Phase

(* Every complaint is one of the words.                                    *)
LEMMA DueWord ==
  ASSUME NEW i, NEW k, NEW w, Due(i, k, w)
  PROVE  w \in Words /\ k \in {"Usage", "TooLarge", "Io", "Panic"}
<1>1. ~Passes(i) => resolve_check_inputs(i) \in Words
  <2> SUFFICES ASSUME ~Passes(i) PROVE FirstOf(CliTests, FaultsOf(i)) \in Words
    BY DEF resolve_check_inputs
  <2>1. FirstOf(CliTests, FaultsOf(i)) # "ok"
    BY DEF Passes, resolve_check_inputs
  <2>2. DOMAIN CliTests = 1 .. 6 /\ \A n \in 1 .. 6 : CliTests[n] \in Words
    BY DEF CliTests, Words
  <2>3. QED
    BY <2>1, <2>2, FirstOfFinds
<1>2. QED
  BY <1>1 DEF Due, Words

ComplaintsIn(e) == {e[k][2] : k \in {n \in DOMAIN e : e[n][1] = "complaint"}}

(* No complaint among what comes before one.                               *)
LEMMA NoComplaint ==
  ASSUME NEW e, \A n \in DOMAIN e : e[n][1] # "complaint"
  PROVE  ComplaintsIn(e) = {}
BY DEF ComplaintsIn

(* A list of one line.                                                     *)
LEMMA OneLine ==
  ASSUME NEW S, NEW x \in S
  PROVE  <<x>> \in Seq(S) /\ Len(<<x>>) = 1 /\ <<x>>[1] = x /\ Tail(<<x>>) = <<>>
         /\ Head(<<x>>) = x /\ <<x>> # <<>>
OBVIOUS

(* A step that complains leaves its complaint due, and nothing printed.    *)
LEMMA ComplainStep ==
  ASSUME Typed, Phase, NEW from \in {"read", "resolve", "scan"}, NEW k, NEW w,
         Complain(from, k, w), Due(inv, k, w), k # "Panic"
  PROVE  Typed' /\ Phase'
<1>1. /\ pc = from /\ todo = <<>> /\ pc' = "exit" /\ kind' = k
      /\ todo' = <<Err(<<"complaint", w>>)>>
      /\ inv' = inv /\ out' = out /\ err' = err /\ exit' = exit
  BY DEF Complain, Step
<1>2. w \in Words /\ k \in {"Usage", "TooLarge", "Io"}
  BY DueWord
<1>3. Err(<<"complaint", w>>) \in Lines(inv) /\ Err(<<"complaint", w>>).to = "stderr"
  BY <1>2 DEF Err, Lines, Printed
<1>4. todo' \in Seq(Lines(inv)) /\ Len(todo') = 1 /\ todo'[1].to = "stderr"
  BY <1>1, <1>3, OneLine
<1>5. out = <<>> /\ \A n \in DOMAIN err : err[n][1] # "complaint"
  BY <1>1 DEF Phase, Opening
<1>6. Complaints = {}
  BY <1>5, NoComplaint DEF Complaints, ComplaintsIn
<1>7. Complaints' = {}
  BY <1>1, <1>6 DEF Complaints
<1>8. Typed'
  <2>1. \A n \in DOMAIN todo' : todo'[n].to \in {"stdout", "stderr"}
    BY <1>4 DEF Lines
  <2>2. Lines(inv)' = Lines(inv) /\ Printed(inv)' = Printed(inv)
    BY <1>1 DEF Lines, Printed, Report, Log
  <2>3. QED
    BY <1>1, <1>2, <1>4, <2>1, <2>2 DEF Typed, TypeOK
<1>9. Failed'
  <2>1. Due(inv, kind, w)'
    BY <1>1
  <2>2. QED
    BY <1>1, <1>5, <1>7, <2>1 DEF Failed
<1>10. QED
  BY <1>1, <1>2, <1>8, <1>9 DEF Phase, Fine

(* Before anything has been printed, the report is what is printed next.   *)
LEMMA ReportAhead ==
  ASSUME Typed, Phase, NEW lines, pc = "parse", inv.command # "check",
         Step("parse", "exit", "Success", lines),
         lines = [n \in 1 .. Len(Report(inv)) |-> Out(Report(inv)[n])]
  PROVE  Typed' /\ Phase'
<1>1. /\ todo = <<>> /\ pc' = "exit" /\ kind' = "Success" /\ todo' = lines
      /\ inv' = inv /\ out' = out /\ err' = err /\ exit' = exit
  BY DEF Step
<1>2. out = <<>> /\ err = <<>>
  BY DEF Phase
<1>3. Report(inv) \in Seq(Printed(inv)) /\ Len(Report(inv)) \in Nat /\ inv \in Invocations
  BY ListsOf DEF Typed, TypeOK
<1>4. Log(inv) = <<>>
  BY DEF Log
<1>5. \A n \in 1 .. Len(Report(inv)) : /\ lines[n] = Out(Report(inv)[n])
                                       /\ lines[n] \in Lines(inv)
                                       /\ lines[n].to = "stdout"
  BY <1>3 DEF Out, Lines
<1>6. lines \in Seq(Lines(inv)) /\ Len(lines) = Len(Report(inv))
  BY <1>3, <1>5
<1>7. Typed'
  <2>1. \A n \in DOMAIN todo' : todo'[n].to \in {"stdout", "stderr"}
    BY <1>1, <1>3, <1>5, <1>6
  <2>2. Lines(inv)' = Lines(inv) /\ Printed(inv)' = Printed(inv)
    BY <1>1 DEF Lines, Printed, Report, Log
  <2>3. QED
    BY <1>1, <1>6, <2>1, <2>2 DEF Typed, TypeOK
<1>8. OnCourse'
  <2>1. Log(inv)' = <<>> /\ Report(inv)' = Report(inv)
    BY <1>1, <1>4
  <2>2. \A n \in 1 .. Len(todo') : LineAt(inv, 0 + 0 + n)' = Out(Report(inv)[n])
    <3> SUFFICES ASSUME NEW n \in 1 .. Len(todo')
                 PROVE  LineAt(inv, 0 + 0 + n)' = Out(Report(inv)[n])
      OBVIOUS
    <3>1. n \in Nat /\ ~(n <= 0) /\ n - 0 = n /\ 0 + 0 + n = n
      BY <1>1, <1>3, <1>6
    <3>2. LineAt(inv, n) = Out(Report(inv)[n])
      BY <1>4, <3>1 DEF LineAt
    <3>3. LineAt(inv, n)' = LineAt(inv, n)
      BY <1>1
    <3>4. QED
      BY <3>1, <3>2, <3>3
  <2>3. Len(out') = 0 /\ Len(err') = 0 /\ out' = <<>> /\ err' = <<>>
    BY <1>1, <1>2
  <2>4. Begins(err, Log(inv))' /\ Begins(out, Report(inv))'
    BY <1>3, <2>1, <2>3 DEF Begins
  <2>5. QED
    BY <1>1, <1>3, <1>5, <1>6, <2>1, <2>2, <2>3, <2>4 DEF OnCourse
<1>9. Finished(inv, kind)'
  BY <1>1 DEF Finished
<1>10. QED
  BY <1>1, <1>7, <1>8, <1>9 DEF Phase, Fine

(* Parsing, and the two commands that check nothing: usage errors print    *)
(* nothing, and the reports of languages and version are all ahead.        *)
LEMMA StartStep ==
  ASSUME Typed, Phase, TryParse \/ run_languages \/ run_version
  PROVE  Typed' /\ Phase'
<1> USE DEF Step
<1>1. /\ pc = "parse" /\ todo = <<>> /\ out = <<>> /\ err = <<>> /\ kind = "Success"
      /\ inv' = inv /\ out' = out /\ err' = err /\ exit' = exit /\ inv \in Invocations
  BY DEF TryParse, run_languages, run_version, Phase, Typed, TypeOK
<1>2. Lines(inv)' = Lines(inv) /\ Printed(inv)' = Printed(inv)
  BY <1>1 DEF Lines, Printed, Report, Log
<1>3. CASE Refused(inv) /\ Step("parse", "exit", "Usage", <<>>)
  <2>1. Complaints' = {}
    BY <1>1 DEF Complaints
  <2>2. todo' \in Seq(Lines(inv))
    BY <1>3
  <2>3. Refused(inv)' /\ Failed'
    BY <1>1, <1>3, <2>1 DEF Failed
  <2>4. QED
    BY <1>1, <1>2, <1>3, <2>2, <2>3 DEF Typed, TypeOK, Phase, Fine
<1>4. CASE inv.command = "help" /\ Step("parse", "exit", "Success", <<>>)
  <2>1. Report(inv) = <<>>
    BY <1>4 DEF Report
  <2>2. <<>> = [n \in 1 .. Len(Report(inv)) |-> Out(Report(inv)[n])]
    BY <2>1
  <2>3. QED
    BY <1>1, <1>4, <2>2, ReportAhead
<1>5. CASE /\ ~Refused(inv) /\ inv.command = "check" /\ Step("parse", "read", kind, <<>>)
  <2>1. todo' \in Seq(Lines(inv))
    BY <1>5
  <2>2. ~Refused(inv)' /\ inv'.command = "check"
    BY <1>1, <1>5
  <2>3. QED
    BY <1>1, <1>2, <1>5, <2>1, <2>2 DEF Typed, TypeOK, Phase, Fine
<1>6. CASE run_languages
  <2>1. Len(Compiled) \in Nat /\ DOMAIN Compiled = 1 .. Len(Compiled)
    BY CliAssumption
  <2>2. Report(inv) = IF inv.plain THEN [k \in DOMAIN Compiled |-> <<"code", Compiled[k]>>]
                                   ELSE <<<<"codes", Compiled>>>>
    BY <1>6 DEF run_languages, Report
  <2>3. (IF inv.plain THEN [k \in DOMAIN Compiled |-> Out(<<"code", Compiled[k]>>)]
                      ELSE <<Out(<<"codes", Compiled>>)>>)
          = [n \in 1 .. Len(Report(inv)) |-> Out(Report(inv)[n])]
    <3>1. CASE inv.plain
      <4>1. Report(inv) = [k \in 1 .. Len(Compiled) |-> <<"code", Compiled[k]>>]
        BY <2>1, <2>2, <3>1
      <4>2. Len(Report(inv)) = Len(Compiled)
        BY <2>1, <4>1
      <4>3. QED
        BY <2>1, <3>1, <4>1, <4>2
    <3>2. CASE ~inv.plain
      <4> DEFINE w == <<"codes", Compiled>>
      <4>1. Report(inv) = <<w>>
        BY <2>2, <3>2
      <4> HIDE DEF w
      <4>2. <<Out(w)>> = [n \in 1 .. Len(Report(inv)) |-> Out(Report(inv)[n])]
        BY <4>1
      <4>3. QED
        BY <3>2, <4>2 DEF w
    <3>3. QED
      BY <3>1, <3>2
  <2>4. QED
    BY <1>1, <1>6, <2>3, ReportAhead DEF run_languages
<1>7. CASE run_version
  <2>1. Report(inv) = <<<<"version">>>>
    BY <1>7 DEF run_version, Report
  <2>2. <<Out(<<"version">>)>> = [n \in 1 .. Len(Report(inv)) |-> Out(Report(inv)[n])]
    BY <2>1
  <2>3. QED
    BY <1>1, <1>7, <2>2, ReportAhead DEF run_version
<1>8. QED
  BY <1>3, <1>4, <1>5, <1>6, <1>7 DEF TryParse

(* Reading the text: no source, one that cannot be read, or the text.      *)
LEMMA ReadStep ==
  ASSUME Typed, Phase, NoSource \/ ReadOwn \/ ReadStdin
  PROVE  Typed' /\ Phase'
<1>1. pc = "read" /\ inv.command = "check" /\ ~Refused(inv) /\ kind = "Success" /\ todo = <<>>
  BY DEF NoSource, ReadOwn, ReadStdin, read_source, Step, Complain, Phase
<1>2. CASE NoSource
  BY <1>1, <1>2, ComplainStep DEF NoSource, Due
<1>3. CASE ReadOwn \/ ReadStdin
  <2>1. Source(inv) # "none"
    BY <1>3 DEF ReadOwn, ReadStdin
  <2>2. CASE ~Obtained(inv)
    BY <1>1, <1>3, <2>2, ComplainStep DEF ReadOwn, ReadStdin, read_source, Due
  <2>3. CASE Obtained(inv)
    <3>1. /\ pc' = "resolve" /\ kind' = "Success" /\ todo' = <<>>
          /\ inv' = inv /\ out' = out /\ err' = err /\ exit' = exit
      BY <1>1, <1>3, <2>3 DEF ReadOwn, ReadStdin, read_source, Step
    <3>2. Lines(inv)' = Lines(inv) /\ Printed(inv)' = Printed(inv)
      BY <3>1 DEF Lines, Printed, Report, Log
    <3>3. todo' \in Seq(Lines(inv))
      BY <3>1
    <3>4. Admitted(inv)' /\ Obtained(inv)'
      BY <1>1, <2>1, <2>3, <3>1 DEF Admitted
    <3>5. QED
      BY <1>1, <3>1, <3>2, <3>3, <3>4 DEF Typed, TypeOK, Phase, Fine
  <2>4. QED
    BY <2>2, <2>3
<1>4. QED
  BY <1>2, <1>3

(* The tests of the inputs: the first that fails is the one complaint.     *)
LEMMA ResolveStep ==
  ASSUME Typed, Phase, Resolve
  PROVE  Typed' /\ Phase'
<1>1. /\ pc = "resolve" /\ todo = <<>> /\ kind = "Success" /\ out = <<>> /\ err = <<>>
      /\ Admitted(inv) /\ Obtained(inv)
  BY DEF Resolve, Step, Complain, Phase
<1>2. CASE ~Passes(inv)
  BY <1>1, <1>2, ComplainStep DEF Resolve, Due, Passes
<1>3. CASE Passes(inv)
  <2>1. /\ pc' = "scan" /\ kind' = "Success"
        /\ todo' = IF inv.verbose THEN <<Err(<<"input">>)>> ELSE <<>>
        /\ inv' = inv /\ out' = out /\ err' = err /\ exit' = exit
    BY <1>1, <1>3 DEF Resolve, Step, Passes
  <2>2. Lines(inv)' = Lines(inv) /\ Printed(inv)' = Printed(inv)
    BY <2>1 DEF Lines, Printed, Report, Log
  <2>3. Err(<<"input">>) \in Lines(inv)
    BY DEF Err, Lines, Printed
  <2>4. todo' \in Seq(Lines(inv)) /\ \A n \in DOMAIN todo' : todo'[n].to \in {"stdout", "stderr"}
    <3>1. CASE inv.verbose
      BY <2>1, <2>3, <3>1, OneLine DEF Lines
    <3>2. CASE ~inv.verbose
      BY <2>1, <3>2
    <3>3. QED
      BY <3>1, <3>2
  <2>5. Admitted(inv)' /\ Obtained(inv)' /\ Passes(inv)' /\ inv'.verbose = inv.verbose
    BY <1>1, <1>3, <2>1
  <2>6. inv.verbose \in BOOLEAN
    BY CliAssumption DEF Typed, TypeOK, InvocationType
  <2>7. Typed'
    BY <1>1, <2>1, <2>2, <2>4 DEF Typed, TypeOK
  <2>8. (todo' = <<>> /\ err' = Opening(inv)') \/
        (todo' = <<Err(<<"input">>)>> /\ err' = <<>> /\ inv'.verbose)
    BY <1>1, <2>1, <2>6 DEF Opening
  <2>9. QED
    BY <1>1, <2>1, <2>5, <2>7, <2>8 DEF Phase, Fine
<1>4. QED
  BY <1>2, <1>3

(* The scan leaves the rest of the log, and the report, to be printed.     *)
LEMMA ScanStep ==
  ASSUME Typed, Phase, Scan
  PROVE  Typed' /\ Phase'
<1>1. /\ pc = "scan" /\ todo = <<>> /\ kind = "Success" /\ out = <<>> /\ err = Opening(inv)
      /\ Admitted(inv) /\ Obtained(inv) /\ Passes(inv) /\ inv \in Invocations
  <2>1. pc = "scan" /\ todo = <<>>
    BY DEF Scan, Step, Complain
  <2>2. todo # <<Err(<<"input">>)>>
    BY <2>1
  <2>3. QED
    BY <2>1, <2>2 DEF Phase, Typed, TypeOK
<1>2. CASE inv.text = "huge"
  BY <1>1, <1>2, ComplainStep DEF Scan, Due
<1>3. CASE inv.text # "huge"
  <2> DEFINE r == result(inv)
             x == IF inv.verbose THEN [k \in DOMAIN Tally(inv) |-> Err(Tally(inv)[k])] ELSE <<>>
             y == [k \in DOMAIN Report(inv) |-> Out(Report(inv)[k])]
             S == Lines(inv)
             e == Len(err)
  <2>a. inv.command = "check" /\ inv.verbose \in BOOLEAN
    BY <1>1, CliAssumption DEF Admitted, InvocationType
  <2>1. /\ pc' = "exit" /\ kind' = IF has_hits(r) THEN "Hits" ELSE "Success"
        /\ IsConcat(todo', x, y)
        /\ inv' = inv /\ out' = out /\ err' = err /\ exit' = exit
    <3>1. CheckReport(inv) = Report(inv)
      BY <2>a DEF Report
    <3>2. QED
      BY <1>3, <3>1, Zenon DEF Scan, Step, Each, Tally, IsConcat
  <2>2. /\ Report(inv) \in Seq(Printed(inv)) /\ Log(inv) \in Seq(Printed(inv))
        /\ inv.verbose => /\ Len(Log(inv)) = 1 + Len(Tally(inv))
                          /\ Log(inv)[1] = <<"input">>
                          /\ \A n \in 1 .. Len(Tally(inv)) : Log(inv)[1 + n] = Tally(inv)[n]
    BY <1>1, <2>a, ListsOf
  <2>3. Tally(inv) \in Seq(ToSet(Tally(inv)))
    BY <1>1, TallyIs
  <2>4. /\ Len(Log(inv)) \in Nat /\ e \in Nat /\ Len(Report(inv)) \in Nat
        /\ x \in Seq(S) /\ Len(Log(inv)) = e + Len(x)
        /\ \A k \in 1 .. Len(x) : x[k] = Err(Log(inv)[e + k])
        /\ Begins(err, Log(inv))
    <3>1. CASE inv.verbose
      <4>1. /\ Len(Tally(inv)) \in Nat /\ DOMAIN Tally(inv) = 1 .. Len(Tally(inv))
            /\ Len(Log(inv)) \in Nat /\ Len(Report(inv)) \in Nat
        BY <2>2, <2>3
      <4>2. e = 1 /\ err[1] = <<"input">>
        BY <1>1, <3>1 DEF Opening
      <4>3. \A k \in 1 .. Len(Tally(inv)) : 1 + k \in 1 .. Len(Log(inv))
        BY <2>2, <3>1, <4>1
      <4>4. \A k \in 1 .. Len(Tally(inv)) : Tally(inv)[k] \in Printed(inv)
        BY <2>2, <3>1, <4>3
      <4>5. x = [k \in 1 .. Len(Tally(inv)) |-> Err(Tally(inv)[k])]
        BY <3>1, <4>1
      <4>6. \A k \in 1 .. Len(Tally(inv)) : Err(Tally(inv)[k]) \in S
        BY <4>4 DEF Err, Lines
      <4>7. x \in Seq(S) /\ Len(x) = Len(Tally(inv))
        <5> HIDE DEF x, S
        <5>1. QED
          BY <4>1, <4>5, <4>6
      <4>8. \A k \in 1 .. Len(x) : x[k] = Err(Log(inv)[e + k])
        BY <2>2, <3>1, <4>2, <4>5, <4>7
      <4>9. Begins(err, Log(inv))
        BY <2>2, <3>1, <4>1, <4>2 DEF Begins
      <4>10. QED
        BY <2>2, <3>1, <4>1, <4>2, <4>7, <4>8, <4>9
    <3>2. CASE ~inv.verbose
      <4>1. Log(inv) = <<>> /\ x = <<>> /\ err = <<>>
        BY <1>1, <3>2 DEF Log, Opening
      <4>2. Len(Log(inv)) = 0 /\ e = 0 /\ Len(x) = 0 /\ x \in Seq(S)
        BY <4>1
      <4>3. Begins(err, Log(inv)) /\ Len(Report(inv)) \in Nat
        BY <2>2, <4>2 DEF Begins
      <4>4. QED
        BY <4>2, <4>3
    <3>3. QED
      BY <2>a, <3>1, <3>2
  <2>5. /\ y \in Seq(S) /\ Len(y) = Len(Report(inv))
        /\ \A k \in 1 .. Len(y) : y[k] = Out(Report(inv)[k])
    <3>1. DOMAIN Report(inv) = 1 .. Len(Report(inv)) /\ Len(Report(inv)) \in Nat
      BY <2>2
    <3>2. \A k \in 1 .. Len(Report(inv)) : Report(inv)[k] \in Printed(inv)
      BY <2>2
    <3>3. \A k \in 1 .. Len(Report(inv)) : Out(Report(inv)[k]) \in S
      BY <3>2 DEF Out, Lines
    <3>4. y = [k \in 1 .. Len(Report(inv)) |-> Out(Report(inv)[k])]
      BY <3>1
    <3> HIDE DEF y, S
    <3>5. QED
      BY <3>1, <3>3, <3>4
  <2> HIDE DEF x, y, S, r, e
  <2>6. /\ todo' \in Seq(S) /\ Len(x) \in Nat /\ Len(y) \in Nat
        /\ Len(todo') = Len(x) + Len(y)
        /\ \A k \in 1 .. Len(x) : todo'[k] = x[k]
        /\ \A k \in 1 .. Len(y) : todo'[Len(x) + k] = y[k]
    <3>1. PICK z : z = todo'
      OBVIOUS
    <3>2. x \in Seq(S) /\ y \in Seq(S) /\ IsConcat(z, x, y)
      BY <2>1, <2>4, <2>5, <3>1
    <3>3. QED
      BY <3>1, <3>2, ConcatIs
  <2>7. \A k \in 1 .. Len(todo') : todo'[k] = LineAt(inv, e + 0 + k)
    <3> SUFFICES ASSUME NEW k \in 1 .. Len(todo') PROVE todo'[k] = LineAt(inv, e + 0 + k)
      OBVIOUS
    <3>1. CASE k <= Len(x)
      <4>1. k \in 1 .. Len(x) /\ e + 0 + k = e + k /\ e + k <= Len(Log(inv))
        BY <2>4, <2>6, <3>1
      <4>2. QED
        BY <2>4, <2>6, <4>1 DEF LineAt
    <3>2. CASE ~(k <= Len(x))
      <4>1. PICK j \in 1 .. Len(y) : k = Len(x) + j
        <5>1. k - Len(x) \in 1 .. Len(y) /\ k = Len(x) + (k - Len(x))
          BY <2>6, <3>2
        <5>2. QED
          BY <5>1
      <4>2. todo'[k] = Out(Report(inv)[j])
        BY <2>5, <2>6, <4>1
      <4>3. ~(e + 0 + k <= Len(Log(inv))) /\ (e + 0 + k) - Len(Log(inv)) = j
        BY <2>4, <2>6, <4>1
      <4>4. QED
        BY <4>2, <4>3 DEF LineAt
    <3>3. QED
      BY <3>1, <3>2
  <2>8. Lines(inv)' = Lines(inv) /\ Printed(inv)' = Printed(inv)
    BY <2>1 DEF Lines, Printed, Report, Log
  <2>9. Typed'
    <3>1. \A k \in DOMAIN todo' : todo'[k].to \in {"stdout", "stderr"}
      <4>1. PICK z \in Seq(S) : z = todo'
        BY <2>6
      <4>2. \A k \in DOMAIN z : z[k].to \in {"stdout", "stderr"}
        <5>1. \A k \in DOMAIN z : z[k] \in S
          OBVIOUS
        <5>2. \A v \in S : v.to \in {"stdout", "stderr"}
          BY DEF S, Lines
        <5>3. QED
          BY <5>1, <5>2
      <4>3. QED
        BY <4>1, <4>2
    <3>2. QED
      BY <1>1, <2>1, <2>6, <2>8, <3>1 DEF Typed, TypeOK, S
  <2>10. OnCourse'
    <3>1. Log(inv)' = Log(inv) /\ Report(inv)' = Report(inv)
      BY <2>1
    <3>2. \A k \in 1 .. Len(todo') : todo'[k] = LineAt(inv', Len(err') + Len(out') + k)
      <4>1. inv' = inv /\ Len(err') = e /\ Len(out') = 0
        BY <1>1, <2>1 DEF e
      <4>2. QED
        BY <2>7, <4>1
    <3>3. Len(err)' = e /\ Len(out)' = 0 /\ out' = <<>>
      BY <1>1, <2>1 DEF e
    <3>4. Begins(out, Report(inv))'
      BY <2>4, <3>1, <3>3 DEF Begins
    <3>5. Begins(err, Log(inv))'
      BY <2>1, <2>4
    <3>6. Len(err)' + Len(out)' + Len(todo)' = Len(Log(inv))' + Len(Report(inv))'
      BY <2>4, <2>5, <2>6, <3>1, <3>3
    <3>7. QED
      BY <3>2, <3>3, <3>4, <3>5, <3>6 DEF OnCourse
  <2>11. Finished(inv, kind)'
    <3>1. Finished(inv, kind')
      BY <1>1, <1>3, <2>1, <2>a DEF Finished, r
    <3>2. QED
      BY <2>1, <3>1
  <2>12. QED
    BY <2>1, <2>9, <2>10, <2>11 DEF Phase, Fine
<1>4. QED
  BY <1>2, <1>3

-------------------------------------------------------------------------------
(* The first of a list, and the others.                                    *)
LEMMA HeadTail ==
  ASSUME NEW S, NEW s \in Seq(S), s # <<>>
  PROVE  /\ Head(s) = s[1] /\ s[1] \in S
         /\ Tail(s) \in Seq(S) /\ Len(s) \in Nat \ {0} /\ Len(Tail(s)) = Len(s) - 1
         /\ \A k \in 1 .. Len(s) - 1 : Tail(s)[k] = s[k + 1]
OBVIOUS

(* A prefix of t grows by the next element of t.                           *)
LEMMA BeginsMore ==
  ASSUME NEW S, NEW s \in Seq(S), NEW t \in Seq(S), Begins(s, t), NEW k \in Nat,
         k = Len(s) + 1, k <= Len(t)
  PROVE  /\ Begins(Append(s, t[k]), t)
         /\ Append(s, t[k]) \in Seq(S) /\ Len(Append(s, t[k])) = k
         /\ Append(s, t[k]) # <<>>
<1>1. Len(s) \in Nat /\ Len(t) \in Nat /\ t[k] \in S
  BY LenProperties
<1>2. PICK x \in S : x = t[k]
  BY <1>1
<1>3. /\ Append(s, x) \in Seq(S) /\ Len(Append(s, x)) = k
      /\ \A n \in 1 .. k : Append(s, x)[n] = IF n = k THEN x ELSE s[n]
  BY <1>1, AppendProperties
<1>4. \A n \in 1 .. k : n # k => n \in 1 .. Len(s)
  BY <1>1
<1>5. Begins(Append(s, x), t)
  BY <1>1, <1>2, <1>3, <1>4 DEF Begins
<1>6. QED
  BY <1>2, <1>3, <1>5

(* A complaint is the only one where there was none.                       *)
LEMMA OneComplaint ==
  ASSUME NEW S, NEW e \in Seq(S), NEW w, <<"complaint", w>> \in S,
         ComplaintsIn(e) = {}, NEW f, IsAppend(f, e, <<"complaint", w>>)
  PROVE  ComplaintsIn(f) = {w}
<1> DEFINE m == Len(e) + 1
           x == <<"complaint", w>>
<1>1. Len(e) \in Nat /\ DOMAIN e = 1 .. Len(e)
  BY LenProperties
<1>2. x[1] = "complaint" /\ x[2] = w
  OBVIOUS
<1> HIDE DEF x
<1>3. /\ f \in Seq(S) /\ Len(f) = m
      /\ \A n \in 1 .. m : f[n] = IF n = m THEN x ELSE e[n]
  <2>1. f = Append(e, x)
    BY DEF IsAppend, x
  <2>2. x \in S
    BY DEF x
  <2>3. QED
    BY <1>1, <2>1, <2>2, AppendProperties
<1>4. DOMAIN f = 1 .. m
  BY <1>3
<1>5. \A n \in 1 .. Len(e) : e[n][1] # "complaint"
  BY <1>1 DEF ComplaintsIn
<1>6. \A n \in DOMAIN f : f[n][1] = "complaint" <=> n = m
  <2>1. \A n \in 1 .. m : n # m => n \in 1 .. Len(e)
    BY <1>1
  <2>2. QED
    BY <1>2, <1>3, <1>4, <1>5, <2>1
<1>7. m \in DOMAIN f /\ f[m][2] = w
  BY <1>1, <1>2, <1>3, <1>4
<1>8. {n \in DOMAIN f : f[n][1] = "complaint"} = {m}
  BY <1>6, <1>7
<1>9. QED
  BY <1>7, <1>8 DEF ComplaintsIn

(* Where there is a line to print, the program is at the first line of     *)
(* check --verbose, on its course, or about to complain.                   *)
LEMMA Pending ==
  ASSUME Typed, Phase, todo # <<>>
  PROVE  \/ /\ pc = "scan" /\ todo = <<Err(<<"input">>)>> /\ err = <<>> /\ out = <<>>
            /\ inv.verbose /\ Passes(inv) /\ kind = "Success"
         \/ /\ pc = "exit" /\ kind \in Fine /\ Finished(inv, kind) /\ OnCourse
         \/ /\ pc = "exit" /\ kind \notin Fine /\ Failed
            /\ \E w : /\ Due(inv, kind, w) /\ Complaints = {}
                      /\ todo = <<Err(<<"complaint", w>>)>>
<1>1. pc \in {"scan", "exit"}
  BY DEF Phase, Typed, TypeOK
<1>2. CASE pc = "scan"
  BY <1>2 DEF Phase
<1>3. CASE pc = "exit" /\ kind \in Fine
  BY <1>3 DEF Phase
<1>4. CASE pc = "exit" /\ kind \notin Fine
  <2>1. Failed
    BY <1>4 DEF Phase
  <2>2. \E w : /\ Due(inv, kind, w) /\ Complaints = {}
              /\ todo = <<Err(<<"complaint", w>>)>>
    BY <2>1, Zenon DEF Failed
  <2>3. QED
    BY <1>4, <2>1, <2>2
<1>5. QED
  BY <1>1, <1>2, <1>3, <1>4

(* On its course, the next line is the log's, if it is not complete, and   *)
(* nothing of the report has been printed; or the report's.                *)
LEMMA NextLine ==
  ASSUME Typed, OnCourse, Finished(inv, kind), todo # <<>>
  PROVE  \/ /\ out = <<>> /\ Len(err) + 1 <= Len(Log(inv))
            /\ todo[1] = Err(Log(inv)[Len(err) + 1])
         \/ /\ Len(err) = Len(Log(inv)) /\ Len(out) + 1 <= Len(Report(inv))
            /\ todo[1] = Out(Report(inv)[Len(out) + 1])
<1>1. /\ Report(inv) \in Seq(Printed(inv)) /\ Log(inv) \in Seq(Printed(inv))
      /\ out \in Seq(Printed(inv)) /\ err \in Seq(Printed(inv)) /\ todo \in Seq(Lines(inv))
  BY ListsOf DEF Finished, Typed, TypeOK
<1>2. PICK e \in Nat, o \in Nat, l \in Nat, r \in Nat, t \in Nat :
        /\ e = Len(err) /\ o = Len(out) /\ t = Len(todo)
        /\ l = Len(Log(inv)) /\ r = Len(Report(inv))
  BY <1>1, LenProperties
<1>3. /\ t # 0 /\ e + o + t = l + r /\ (out # <<>> => e = l) /\ e <= l
      /\ todo[1] = LineAt(inv, e + o + 1)
  <2>1. t # 0
    BY <1>1, <1>2
  <2>2. 1 \in 1 .. Len(todo)
    BY <1>2, <2>1
  <2>3. QED
    BY <1>2, <2>1, <2>2 DEF OnCourse, Begins
<1>4. o = 0 <=> out = <<>>
  BY <1>1, <1>2
<1>5. CASE e + o + 1 <= l
  <2>1. o = 0 /\ e + o + 1 = e + 1
    BY <1>2, <1>3, <1>4, <1>5
  <2>2. todo[1] = Err(Log(inv)[e + 1])
    BY <1>2, <1>3, <1>5, <2>1 DEF LineAt
  <2>3. QED
    BY <1>2, <1>4, <1>5, <2>1, <2>2
<1>6. CASE ~(e + o + 1 <= l)
  <2>1. e = l /\ (e + o + 1) - l = o + 1 /\ o + 1 <= r
    BY <1>2, <1>3, <1>4, <1>6
  <2>2. todo[1] = Out(Report(inv)[o + 1])
    BY <1>2, <1>3, <1>6, <2>1 DEF LineAt
  <2>3. QED
    BY <1>2, <2>1, <2>2
<1>7. QED
  BY <1>5, <1>6

(* A line goes out, to the stream it is for.                               *)
LEMMA EmitStep ==
  ASSUME Typed, Phase, Emit
  PROVE  Typed' /\ Phase'
<1>1. /\ todo # <<>> /\ todo' = Tail(todo)
      /\ out' = IF next.to = "stdout" THEN Append(out, next.line) ELSE out
      /\ err' = IF next.to = "stderr" THEN Append(err, next.line) ELSE err
      /\ inv' = inv /\ pc' = pc /\ kind' = kind /\ exit' = exit
  BY DEF Emit
<1>2. /\ todo \in Seq(Lines(inv)) /\ out \in Seq(Printed(inv)) /\ err \in Seq(Printed(inv))
      /\ inv \in Invocations
  BY DEF Typed, TypeOK
<1>3. /\ next = todo[1] /\ next \in Lines(inv)
      /\ todo' \in Seq(Lines(inv)) /\ Len(todo) \in Nat \ {0} /\ Len(todo') = Len(todo) - 1
      /\ \A k \in 1 .. Len(todo) - 1 : todo'[k] = todo[k + 1]
  BY <1>1, <1>2, HeadTail DEF next
<1>4. Lines(inv)' = Lines(inv) /\ Printed(inv)' = Printed(inv)
  BY <1>1 DEF Lines, Printed, Report, Log
<1>5. Typed'
  <2>1. next.line \in Printed(inv)
    BY <1>3 DEF Lines
  <2>2. out' \in Seq(Printed(inv)) /\ err' \in Seq(Printed(inv))
    <3>1. \A s \in Seq(Printed(inv)) : Append(s, next.line) \in Seq(Printed(inv))
      BY <2>1, AppendProperties
    <3>2. QED
      BY <1>1, <1>2, <3>1
  <2>3. PICK z \in Seq(Lines(inv)) : z = todo'
    BY <1>3
  <2>4. \A k \in DOMAIN z : z[k].to \in {"stdout", "stderr"}
    <3>1. \A k \in DOMAIN z : z[k] \in Lines(inv)
      OBVIOUS
    <3>2. \A v \in Lines(inv) : v.to \in {"stdout", "stderr"}
      BY DEF Lines
    <3>3. QED
      BY <3>1, <3>2
  <2>5. QED
    BY <1>1, <1>3, <1>4, <2>2, <2>3, <2>4 DEF Typed, TypeOK
<1>6. CASE /\ pc = "scan" /\ todo = <<Err(<<"input">>)>> /\ err = <<>> /\ out = <<>>
           /\ inv.verbose /\ Passes(inv) /\ kind = "Success"
  <2>1. next.to = "stderr" /\ next.line = <<"input">>
    BY <1>3, <1>6 DEF Err
  <2>2. err' = <<<<"input">>>> /\ out' = <<>>
    BY <1>1, <1>6, <2>1
  <2>3. todo' = <<>>
    BY <1>1, <1>6
  <2>4. Admitted(inv) /\ Obtained(inv)
    BY <1>6 DEF Phase
  <2>5. Admitted(inv)' /\ Obtained(inv)' /\ Passes(inv)' /\ err' = Opening(inv)'
    BY <1>1, <1>6, <2>2, <2>4 DEF Opening
  <2>6. QED
    BY <1>1, <1>5, <1>6, <2>2, <2>3, <2>5 DEF Phase, Fine
<1>7. CASE pc = "exit" /\ kind \in Fine /\ Finished(inv, kind) /\ OnCourse
  <2>1. Report(inv) \in Seq(Printed(inv)) /\ Log(inv) \in Seq(Printed(inv))
    BY <1>2, <1>7, ListsOf DEF Finished
  <2>2. PICK e \in Nat, o \in Nat, l \in Nat, r \in Nat, t \in Nat :
          /\ e = Len(err) /\ o = Len(out) /\ t = Len(todo)
          /\ l = Len(Log(inv)) /\ r = Len(Report(inv))
    BY <1>2, <2>1, LenProperties
  <2>3. /\ Begins(err, Log(inv)) /\ Begins(out, Report(inv))
        /\ e + o + t = l + r /\ t # 0 /\ (out # <<>> => e = l)
        /\ \A k \in 1 .. t : todo[k] = LineAt(inv, e + o + k)
    BY <1>3, <1>7, <2>2 DEF OnCourse
  <2>4. \A k \in 1 .. t - 1 : todo'[k] = LineAt(inv, (e + o + 1) + k)
    <3> TAKE k \in 1 .. t - 1
    <3>1. k + 1 \in 1 .. t /\ e + o + (k + 1) = (e + o + 1) + k
      OBVIOUS
    <3>2. QED
      BY <1>3, <2>2, <2>3, <3>1
  <2>5. ASSUME NEW e1 \in Nat, NEW o1 \in Nat, e1 = Len(err'), o1 = Len(out'),
               e1 + o1 = e + o + 1, out' # <<>> => e1 = l,
               Begins(err', Log(inv)), Begins(out', Report(inv))
        PROVE  OnCourse'
    <3>1. Len(todo') = t - 1 /\ e1 + o1 + (t - 1) = l + r
      <4>1. e1 + o1 = e + o + 1 /\ e + o + t = l + r /\ t # 0
        BY <2>3, <2>5
      <4>2. e1 + o1 + (t - 1) = l + r
        BY <4>1
      <4>3. QED
        BY <1>3, <2>2, <4>2
    <3>2. \A k \in 1 .. Len(todo') : todo'[k] = LineAt(inv', Len(err') + Len(out') + k)
      <4> SUFFICES ASSUME NEW k \in 1 .. t - 1
                   PROVE  todo'[k] = LineAt(inv', Len(err') + Len(out') + k)
        BY <3>1
      <4>1. (e + o + 1) + k = e1 + o1 + k
        BY <2>5
      <4>2. QED
        BY <1>1, <2>4, <2>5, <4>1
    <3>3. Log(inv') = Log(inv) /\ Report(inv') = Report(inv)
      BY <1>1
    <3>4. QED
      BY <2>2, <2>5, <3>1, <3>2, <3>3 DEF OnCourse
  <2>6. ASSUME out = <<>>, Len(err) + 1 <= Len(Log(inv)),
               todo[1] = Err(Log(inv)[Len(err) + 1])
        PROVE  OnCourse'
    <3>1. PICK n \in Nat : n = Len(err) + 1 /\ n = e + 1
      BY <2>2
    <3>2. next.to = "stderr" /\ next.line = Log(inv)[n]
      BY <1>3, <2>6, <3>1 DEF Err
    <3>3. err' = Append(err, Log(inv)[n]) /\ out' = <<>> /\ out' = out
      BY <1>1, <2>6, <3>2
    <3>4. Begins(err', Log(inv)) /\ Len(err') = n
      BY <1>2, <2>1, <2>3, <2>6, <3>1, <3>3, BeginsMore
    <3>5. Begins(out', Report(inv)) /\ Len(out') = o /\ n + o = e + o + 1
      BY <2>2, <2>3, <3>1, <3>3
    <3>6. QED
      BY <2>5, <3>3, <3>4, <3>5
  <2>7. ASSUME Len(err) = Len(Log(inv)), Len(out) + 1 <= Len(Report(inv)),
               todo[1] = Out(Report(inv)[Len(out) + 1])
        PROVE  OnCourse'
    <3>1. PICK n \in Nat : n = Len(out) + 1 /\ n = o + 1
      BY <2>2
    <3>2. next.to = "stdout" /\ next.line = Report(inv)[n]
      BY <1>3, <2>7, <3>1 DEF Out
    <3>3. out' = Append(out, Report(inv)[n]) /\ err' = err
      BY <1>1, <3>2
    <3>4. Begins(out', Report(inv)) /\ Len(out') = n
      BY <1>2, <2>1, <2>3, <2>7, <3>1, <3>3, BeginsMore
    <3>5. Begins(err', Log(inv)) /\ Len(err') = e /\ e + n = e + o + 1 /\ e = l
      BY <2>2, <2>3, <2>7, <3>1, <3>3
    <3>6. QED
      BY <2>5, <3>4, <3>5
  <2>8. OnCourse'
    BY <1>1, <1>7, <2>6, <2>7, NextLine
  <2>9. Finished(inv, kind)'
    BY <1>1, <1>7
  <2>10. QED
    BY <1>1, <1>5, <1>7, <2>8, <2>9 DEF Phase, Fine
<1>8. CASE /\ pc = "exit" /\ kind \notin Fine /\ Failed
           /\ \E w : /\ Due(inv, kind, w) /\ Complaints = {}
                     /\ todo = <<Err(<<"complaint", w>>)>>
  <2>1. PICK w : /\ Due(inv, kind, w) /\ Complaints = {}
                 /\ todo = <<Err(<<"complaint", w>>)>>
    BY <1>8
  <2>2. next.to = "stderr" /\ next.line = <<"complaint", w>>
    BY <1>3, <2>1 DEF Err
  <2>3. todo' = <<>> /\ out' = out /\ IsAppend(err', err, <<"complaint", w>>)
    BY <1>1, <2>1, <2>2 DEF IsAppend
  <2>4. <<"complaint", w>> \in Printed(inv)
    BY <2>1, DueWord DEF Printed
  <2>5. Complaints' = {w}
    <3>1. PICK f : f = err'
      OBVIOUS
    <3>2. IsAppend(f, err, <<"complaint", w>>)
      BY <2>3, <3>1
    <3>3. ComplaintsIn(f) = {w}
      <4>1. ComplaintsIn(err) = {}
        BY <2>1, Zenon DEF Complaints, ComplaintsIn
      <4>2. QED
        BY <1>2, <2>4, <3>2, <4>1, OneComplaint
    <3>4. QED
      BY <3>1, <3>3 DEF Complaints, ComplaintsIn
  <2>6. Due(inv, kind, w)' /\ Report(inv)' = Report(inv)
    BY <1>1, <2>1
  <2>7. Failed'
    BY <1>1, <1>8, <2>3, <2>5, <2>6 DEF Failed
  <2>8. QED
    BY <1>1, <1>5, <1>8, <2>7 DEF Phase, Fine
<1>9. QED
  BY <1>1, <1>6, <1>7, <1>8, Pending

(* A line that goes to standard output is the report's, and fails only     *)
(* while there is still some of it to come.                                *)
LEMMA StdoutStep ==
  ASSUME Typed, Phase, StdoutFails
  PROVE  Typed' /\ Phase'
<1>1. /\ todo # <<>> /\ next.to = "stdout" /\ kind' = "Io"
      /\ todo' = <<Err(<<"complaint", "not_written">>)>>
      /\ inv' = inv /\ pc' = pc /\ out' = out /\ err' = err /\ exit' = exit
  BY DEF StdoutFails
<1>2. next = todo[1]
  BY <1>1, HeadTail DEF next, Typed
<1>3. pc = "exit" /\ Finished(inv, kind) /\ OnCourse
  <2>1. CASE todo = <<Err(<<"input">>)>>
    BY <1>1, <1>2, <2>1 DEF Err
  <2>2. CASE \E w : todo = <<Err(<<"complaint", w>>)>>
    BY <1>1, <1>2, <2>2 DEF Err
  <2>3. QED
    BY <1>1, <2>1, <2>2, Pending
<1>4. Len(out) + 1 <= Len(Report(inv)) /\ Len(out) \in Nat
  <2>1. todo[1].to = "stdout"
    BY <1>1, <1>2
  <2>2. \A line : Err(line).to # "stdout"
    BY DEF Err
  <2>3. todo[1] # Err(Log(inv)[Len(err) + 1])
    BY <2>1, <2>2
  <2>4. QED
    BY <1>1, <1>3, <2>3, NextLine, LenProperties DEF Typed
<1>5. Begins(out, Report(inv)) /\ Complaints = {}
  <2>1. /\ Begins(out, Report(inv)) /\ Begins(err, Log(inv))
    BY <1>3 DEF OnCourse
  <2>2. /\ \A n \in 1 .. Len(Log(inv)) : Log(inv)[n][1] # "complaint"
        /\ Log(inv) \in Seq(Printed(inv)) /\ err \in Seq(Printed(inv))
    BY <1>3, ListsOf DEF Finished, Typed, TypeOK
  <2>3. \A n \in DOMAIN err : err[n][1] # "complaint"
    <3>1. DOMAIN err = 1 .. Len(err) /\ Len(err) \in Nat /\ Len(Log(inv)) \in Nat
      BY <2>2
    <3>2. QED
      BY <2>1, <2>2, <3>1 DEF Begins
  <2>4. QED
    BY <2>1, <2>3, NoComplaint DEF Complaints, ComplaintsIn
<1>6. Due(inv, "Io", "not_written")
  BY <1>3 DEF Finished, Due
<1>7. "not_written" \in Words
  BY DEF Words
<1>8. Err(<<"complaint", "not_written">>) \in Lines(inv)
  BY <1>7 DEF Err, Lines, Printed
<1>9. Typed'
  <2>1. todo' \in Seq(Lines(inv)) /\ \A n \in DOMAIN todo' : todo'[n].to \in {"stdout", "stderr"}
    BY <1>1, <1>8, OneLine DEF Err
  <2>2. Lines(inv)' = Lines(inv) /\ Printed(inv)' = Printed(inv)
    BY <1>1 DEF Lines, Printed, Report, Log
  <2>3. QED
    BY <1>1, <2>1, <2>2 DEF Typed, TypeOK
<1>10. Failed'
  <2>1. Due(inv, kind, "not_written")' /\ Complaints' = {} /\ Report(inv)' = Report(inv)
    BY <1>1, <1>5, <1>6 DEF Complaints
  <2>2. out' # <<>> => /\ Begins(out', Report(inv)) /\ Len(out') < Len(Report(inv))
                       /\ inv.command = "check" => Passes(inv)
    <3>1. Len(out) < Len(Report(inv))
      <4>1. Len(Report(inv)) \in Nat
        BY <1>3, ListsOf, LenProperties DEF Finished, Typed, TypeOK
      <4>2. QED
        BY <1>4, <4>1
    <3>2. QED
      BY <1>1, <1>3, <1>5, <3>1 DEF Finished
  <2>3. QED
    BY <1>1, <2>1, <2>2 DEF Failed
<1>11. QED
  BY <1>1, <1>3, <1>9, <1>10 DEF Phase, Fine

(* A line that goes to standard error may be any but the report's; what    *)
(* has been printed of the report before it, the failure leaves as it is.  *)
LEMMA StderrStep ==
  ASSUME Typed, Phase, StderrFails
  PROVE  Typed' /\ Phase'
<1>1. /\ todo # <<>> /\ next.to = "stderr" /\ kind' = "Panic" /\ pc' = "exit"
      /\ todo' = <<Err(<<"complaint", "internal_error">>)>>
      /\ inv' = inv /\ out' = out /\ err' = err /\ exit' = exit
  BY DEF StderrFails
<1>2. next = todo[1]
  BY <1>1, HeadTail DEF next, Typed
<1>3. pc \in {"scan", "exit"} /\ exit = -1
  <2>1. pc \in {"scan", "exit"}
    BY <1>1, Pending
  <2>2. QED
    BY <2>1 DEF Typed, TypeOK
<1>4. /\ Complaints = {}
      /\ out # <<>> => /\ Begins(out, Report(inv)) /\ Len(out) < Len(Report(inv))
                       /\ inv.command = "check" => Passes(inv)
  <2>1. CASE pc = "scan" /\ err = <<>> /\ out = <<>>
    BY <2>1 DEF Complaints
  <2>2. CASE kind \in Fine /\ Finished(inv, kind) /\ OnCourse
    <3>1. \A line : Out(line).to # "stderr"
      BY DEF Out
    <3>2. todo[1] # Out(Report(inv)[Len(out) + 1])
      BY <1>1, <1>2, <3>1
    <3>3. out = <<>>
      BY <1>1, <2>2, <3>2, NextLine
    <3>4. /\ \A n \in 1 .. Len(Log(inv)) : Log(inv)[n][1] # "complaint"
          /\ Log(inv) \in Seq(Printed(inv)) /\ err \in Seq(Printed(inv))
      BY <2>2, ListsOf DEF Finished, Typed, TypeOK
    <3>5. \A n \in DOMAIN err : err[n][1] # "complaint"
      <4>1. DOMAIN err = 1 .. Len(err) /\ Len(err) \in Nat /\ Len(Log(inv)) \in Nat
        BY <3>4
      <4>2. QED
        BY <2>2, <3>4, <4>1 DEF OnCourse, Begins
    <3>6. QED
      BY <3>3, <3>5, NoComplaint DEF Complaints, ComplaintsIn
  <2>3. CASE Failed /\ Complaints = {}
    BY <2>3 DEF Failed
  <2>4. QED
    BY <1>1, <2>1, <2>2, <2>3, Pending
<1>5. Err(<<"complaint", "internal_error">>) \in Lines(inv)
  BY DEF Err, Lines, Printed, Words
<1>6. Typed'
  <2>1. todo' \in Seq(Lines(inv)) /\ \A n \in DOMAIN todo' : todo'[n].to \in {"stdout", "stderr"}
    BY <1>1, <1>5, OneLine DEF Err
  <2>2. Lines(inv)' = Lines(inv) /\ Printed(inv)' = Printed(inv)
    BY <1>1 DEF Lines, Printed, Report, Log
  <2>3. QED
    BY <1>1, <1>3, <2>1, <2>2 DEF Typed, TypeOK
<1>7. Failed'
  <2>1. Due(inv, kind, "internal_error")' /\ Complaints' = {} /\ Report(inv)' = Report(inv)
    BY <1>1, <1>4 DEF Complaints, Due
  <2>2. QED
    BY <1>1, <1>4, <2>1 DEF Failed
<1>8. QED
  BY <1>1, <1>6, <1>7 DEF Phase, Fine

(* Printing the complaint of a panic panics in turn: the process ends at   *)
(* once, and prints nothing more.                                          *)
LEMMA PanicStep ==
  ASSUME Typed, Phase, PanicAgain
  PROVE  Typed' /\ Phase'
<1>1. /\ todo # <<>> /\ kind = "Panic" /\ pc' = "ended" /\ exit' = 101 /\ todo' = <<>>
      /\ inv' = inv /\ kind' = kind /\ out' = out /\ err' = err
  BY DEF PanicAgain
<1>2. Failed /\ \E w : Due(inv, kind, w) /\ Complaints = {}
  BY <1>1, Pending DEF Fine
<1>3. PICK w : Due(inv, kind, w) /\ Complaints = {}
  BY <1>2
<1>4. Due(inv, kind, w)' /\ Complaints' = {} /\ Report(inv)' = Report(inv)
  BY <1>1, <1>3 DEF Complaints
<1>5. Failed'
  BY <1>1, <1>2, <1>4 DEF Failed
<1>6. todo' \in Seq(Lines(inv)) /\ Lines(inv)' = Lines(inv) /\ Printed(inv)' = Printed(inv)
  BY <1>1 DEF Lines, Printed, Report, Log
<1>7. QED
  BY <1>1, <1>4, <1>5, <1>6 DEF Typed, TypeOK, Phase, Fine

(* The process ends with nothing left to print.                            *)
LEMMA ExitStep ==
  ASSUME Typed, Phase, Exit
  PROVE  Typed' /\ Phase'
<1>1. /\ pc = "exit" /\ todo = <<>> /\ pc' = "ended" /\ exit' = code(kind) /\ exit = -1
      /\ inv' = inv /\ todo' = todo /\ kind' = kind /\ out' = out /\ err' = err
  BY DEF Exit, Typed, TypeOK
<1>2. kind \in {"Success", "Hits", "Usage", "TooLarge", "Io", "Panic"}
  BY DEF Typed, TypeOK
<1>3. exit' \in {0, 1, 2, 3, 64, 70}
  BY <1>1, <1>2 DEF code
<1>4. CASE kind \in Fine
  <2>1. Finished(inv, kind) /\ OnCourse
    BY <1>1, <1>4 DEF Phase
  <2>2. Finished(inv, kind)' /\ OnCourse'
    BY <1>1, <2>1 DEF OnCourse
  <2>3. QED
    BY <1>1, <1>3, <1>4, <2>2 DEF Typed, TypeOK, Phase, Lines, Printed, Report, Log, Fine
<1>5. CASE kind \notin Fine
  <2>1. Failed
    BY <1>1, <1>5 DEF Phase
  <2>2. Failed'
    <3>1. Complaints' = Complaints /\ Report(inv)' = Report(inv) /\ Refused(inv)' = Refused(inv)
      BY <1>1 DEF Complaints
    <3>2. \A w : Due(inv, kind, w) => Due(inv, kind, w)'
      BY <1>1
    <3>3. (exit = 101) => (exit' = 101)
      BY <1>1
    <3>4. QED
      BY <1>1, <2>1, <3>1, <3>2, <3>3 DEF Failed
  <2>3. QED
    BY <1>1, <1>3, <1>5, <2>2 DEF Typed, TypeOK, Phase, Lines, Printed, Report, Log, Fine
<1>6. QED
  BY <1>4, <1>5

(* So the invariant holds at every moment.                                 *)
LEMMA PhaseAlways == Spec => [](Typed /\ Phase)
<1>1. ASSUME Typed, Phase, [Next]_vars PROVE Typed' /\ Phase'
  <2>1. CASE UNCHANGED vars
    <3>1. /\ inv' = inv /\ pc' = pc /\ todo' = todo /\ kind' = kind /\ out' = out
          /\ err' = err /\ exit' = exit
      BY <2>1 DEF vars
    <3>2. Lines(inv)' = Lines(inv) /\ Printed(inv)' = Printed(inv)
      BY <3>1 DEF Lines, Printed, Report, Log
    <3>3. Complaints' = Complaints
      BY <3>1 DEF Complaints
    <3>4. (Failed => Failed') /\ (OnCourse => OnCourse')
      <4>1. Log(inv)' = Log(inv) /\ Report(inv)' = Report(inv) /\ Refused(inv)' = Refused(inv)
        BY <3>1
      <4>2. \A w : Due(inv, kind, w) => Due(inv, kind, w)'
        BY <3>1
      <4>3. OnCourse => OnCourse'
        BY <3>1, <4>1 DEF OnCourse
      <4>4. Failed => Failed'
        BY <3>1, <3>3, <4>1, <4>2 DEF Failed
      <4>5. QED
        BY <4>3, <4>4
    <3>5. Typed'
      BY <1>1, <3>1, <3>2 DEF Typed, TypeOK
    <3>6. Phase'
      BY <1>1, <3>1, <3>3, <3>4 DEF Phase
    <3>7. QED
      BY <3>5, <3>6
  <2>2. QED
    BY <1>1, <2>1, StartStep, ReadStep, ResolveStep, ScanStep, EmitStep, StdoutStep,
       StderrStep, PanicStep, ExitStep DEF Next, Own
<1>2. QED
  BY <1>1, InitPhase, PTL DEF Spec

(* What standard output has, as a list: a beginning of the report, all of  *)
(* it when nothing failed.                                                 *)
LEMMA PrintedSoFar ==
  ASSUME Typed, Phase
  PROVE  /\ exit \in 0 .. 3 \/ exit \in {64, 70, 101} => pc = "ended"
         /\ pc = "ended" /\ kind \in Fine => /\ Finished(inv, kind) /\ exit = code(kind)
                                             /\ out = Report(inv) /\ err = Log(inv)
         /\ pc = "ended" /\ kind \notin Fine => Failed /\ exit \notin {0, 1}
         /\ out # <<>> => IsPrefix(out, Report(inv))
<1>1. exit \in 0 .. 3 \/ exit \in {64, 70, 101} => pc = "ended"
  BY DEF Typed, TypeOK
<1>2. ASSUME inv.command = "check" => Passes(inv), Begins(out, Report(inv))
      PROVE  IsPrefix(out, Report(inv))
  <2>1. Report(inv) \in Seq(Printed(inv)) /\ out \in Seq(Printed(inv))
    BY <1>2, ListsOf DEF Typed, TypeOK
  <2>2. PICK r \in Seq(Printed(inv)), o \in Seq(Printed(inv)) : r = Report(inv) /\ o = out
    BY <2>1
  <2>3. Len(o) <= Len(r) /\ \A k \in 1 .. Len(o) : o[k] = r[k]
    BY <1>2, <2>2 DEF Begins
  <2>4. SubSeq(o, 1, Len(o)) = SubSeq(r, 1, Len(o))
    BY <2>3
  <2>5. QED
    BY <2>2, <2>3, <2>4 DEF IsPrefix
<1>3. out # <<>> => IsPrefix(out, Report(inv))
  <2>1. out # <<>> => /\ Begins(out, Report(inv))
                      /\ inv.command = "check" => Passes(inv)
    BY DEF Phase, Typed, TypeOK, OnCourse, Finished, Failed
  <2>2. QED
    BY <1>2, <2>1
<1>4. ASSUME pc = "ended", kind \in Fine
      PROVE  /\ Finished(inv, kind) /\ exit = code(kind)
             /\ out = Report(inv) /\ err = Log(inv)
  <2>1. Finished(inv, kind) /\ OnCourse /\ todo = <<>> /\ exit = code(kind)
    BY <1>4 DEF Phase, Fine
  <2>2. /\ Report(inv) \in Seq(Printed(inv)) /\ out \in Seq(Printed(inv))
        /\ Log(inv) \in Seq(Printed(inv)) /\ err \in Seq(Printed(inv))
    BY <2>1, ListsOf DEF Finished, Typed, TypeOK
  <2>3. PICK e \in Nat, o \in Nat, l \in Nat, r \in Nat :
          e = Len(err) /\ o = Len(out) /\ l = Len(Log(inv)) /\ r = Len(Report(inv))
    BY <2>2, LenProperties
  <2>4. e <= l /\ o <= r /\ e + o + 0 = l + r
    BY <2>1, <2>3 DEF OnCourse, Begins
  <2>5. e = l /\ o = r
    BY <2>4
  <2>6. /\ \A k \in 1 .. Len(err) : err[k] = Log(inv)[k]
        /\ \A k \in 1 .. Len(out) : out[k] = Report(inv)[k]
    BY <2>1 DEF OnCourse, Begins
  <2>7. out = Report(inv)
    BY <2>2, <2>3, <2>5, <2>6, SeqEqual
  <2>8. err = Log(inv)
    BY <2>2, <2>3, <2>5, <2>6, SeqEqual
  <2>9. QED
    BY <2>1, <2>7, <2>8
<1>5. ASSUME pc = "ended", kind \notin Fine
      PROVE  Failed /\ exit \notin {0, 1}
  BY <1>5 DEF Phase, Fine, Typed, TypeOK, code
<1>6. QED
  BY <1>1, <1>3, <1>4, <1>5

(* The exit status, from what failed.                                      *)
LEMMA StatusIs ==
  ASSUME Typed, Phase, pc = "ended"
  PROVE  /\ exit = 0 <=> kind = "Success"
         /\ exit = 1 <=> kind = "Hits"
         /\ exit = 2 <=> kind = "Usage"
         /\ exit = 3 <=> kind = "TooLarge"
         /\ exit = 64 <=> kind = "Io"
         /\ exit \in {70, 101} <=> kind = "Panic"
         /\ exit = 101 => Complaints = {}
BY DEF Phase, Typed, TypeOK, code

-------------------------------------------------------------------------------
(* The state of an invocation has its type at every step.                  *)
THEOREM TypeCorrect == Spec => []TypeOK
<1>1. Typed => TypeOK
  BY DEF Typed
<1>2. QED
  BY <1>1, PhaseAlways, PTL

(* Whatever write fails, and when: standard output has a beginning of the  *)
(* report, and the status says whether it is all of it.                    *)
THEOREM ReportIsPrinted == Spec => []ReportIsWholeOrRefused
<1>1. ASSUME Typed, Phase PROVE ReportIsWholeOrRefused
  <2>1. exit \in {0, 1} => out = Report(inv)
    BY <1>1, PrintedSoFar, StatusIs DEF Fine
  <2>2. exit \in {2, 3} => out = <<>>
    <3> SUFFICES ASSUME exit \in {2, 3} PROVE out = <<>>
      OBVIOUS
    <3>1. pc = "ended" /\ kind \in {"Usage", "TooLarge"}
      BY <1>1, PrintedSoFar, StatusIs
    <3>2. QED
      BY <1>1, <3>1, PrintedSoFar DEF Failed, Fine
  <2>3. out # <<>> => IsPrefix(out, Report(inv))
    BY <1>1, PrintedSoFar
  <2>4. ASSUME out # <<>>, pc = "ended", out = Report(inv) PROVE exit \in {0, 1}
    <3>1. kind \in Fine
      <4> SUFFICES ASSUME kind \notin Fine PROVE FALSE
        OBVIOUS
      <4>1. Len(out) < Len(out) /\ out \in Seq(Printed(inv))
        BY <1>1, <2>4, PrintedSoFar DEF Failed, Typed
      <4>2. Len(out) \in Nat
        BY <4>1, LenProperties
      <4>3. QED
        BY <4>1, <4>2
    <3>2. QED
      BY <1>1, <2>4, <3>1, StatusIs DEF Fine
  <2>5. QED
    BY <2>1, <2>2, <2>3, <2>4 DEF ReportIsWholeOrRefused
<1>2. QED
  BY <1>1, PhaseAlways, PTL

(* The status of a check says whether there are matches, and each of the   *)
(* other statuses of the table comes with the complaint it stands for.     *)
THEOREM StatusTellsTheOutcome == Spec => []ExitTellsTheOutcome
<1>1. ASSUME Typed, Phase, pc = "ended" PROVE ExitTellsTheOutcome
  <2>0. inv \in Invocations /\ kind \in {"Success", "Hits", "Usage", "TooLarge", "Io", "Panic"}
    BY <1>1 DEF Typed, TypeOK
  <2>1. CASE kind \in Fine
    <3>1. Finished(inv, kind)
      BY <1>1, <2>1, PrintedSoFar
    <3>2. inv.command = "check" => (kind = "Hits" <=> Matched(inv))
      BY <2>0, <3>1, ResultIs DEF Finished
    <3>3. exit \in {0, 1} /\ (exit = 1 <=> kind = "Hits")
      BY <1>1, <2>1, StatusIs DEF Fine
    <3>4. QED
      BY <3>1, <3>2, <3>3 DEF ExitTellsTheOutcome, Finished
  <2>2. CASE kind \notin Fine
    <3>1. Failed /\ exit \notin {0, 1} /\ todo = <<>>
      BY <1>1, <2>2, PrintedSoFar DEF Phase
    <3>2. kind \in {"Io", "Panic"} /\ exit # 101 => \E w : Due(inv, kind, w) /\ Complaints = {w}
      <4>1. \A w : <<Err(<<"complaint", w>>)>> # <<>>
        OBVIOUS
      <4>2. QED
        BY <3>1, <4>1 DEF Failed
    <3>3. exit = 64 => Complaints = {IF inv.command = "check" /\ ~Obtained(inv)
                                     THEN "not_read" ELSE "not_written"}
      BY <1>1, <3>2, StatusIs DEF Due
    <3>4. exit = 70 => Complaints = {"internal_error"}
      BY <1>1, <3>2, StatusIs DEF Due
    <3>5. QED
      BY <3>1, <3>3, <3>4 DEF ExitTellsTheOutcome
  <2>3. QED
    BY <2>1, <2>2
<1>2. ASSUME Typed, Phase PROVE ExitTellsTheOutcome
  <2>1. CASE pc # "ended"
    BY <2>1 DEF ExitTellsTheOutcome
  <2>2. QED
    BY <1>1, <1>2, <2>1
<1>3. QED
  BY <1>2, PhaseAlways, PTL

-------------------------------------------------------------------------------
(* The handler's two groups of tests are the command line's list.          *)
LEMMA TestsAgree == BeforeInputBytes \o AfterInputBytes = CliTests
<1> DEFINE b == BeforeInputBytes
           a == AfterInputBytes
           c == CliTests
<1>1. /\ b \in Seq(Faults) /\ Len(b) = 2 /\ b[1] = "bad_request" /\ b[2] = "empty_text"
      /\ a \in Seq(Faults) /\ Len(a) = 4 /\ a[1] = "invalid_mode" /\ a[2] = "empty_langs"
      /\ a[3] = "unknown_language" /\ a[4] = "too_large"
  BY DEF BeforeInputBytes, AfterInputBytes, Faults
<1>2. /\ c \in Seq(Faults) /\ Len(c) = 6
      /\ c[1] = "bad_request" /\ c[2] = "empty_text" /\ c[3] = "invalid_mode"
      /\ c[4] = "empty_langs" /\ c[5] = "unknown_language" /\ c[6] = "too_large"
  BY DEF CliTests, Faults
<1> HIDE DEF a, b, c
<1>3. /\ b \o a \in Seq(Faults) /\ Len(b \o a) = 6
      /\ \A i \in 1 .. 6 : (b \o a)[i] = IF i <= 2 THEN b[i] ELSE a[i - 2]
  <2>1. /\ b \o a \in Seq(Faults) /\ Len(b \o a) = Len(b) + Len(a)
        /\ \A i \in 1 .. Len(b) + Len(a) :
             (b \o a)[i] = IF i <= Len(b) THEN b[i] ELSE a[i - Len(b)]
    <3>1. b \in Seq(Faults) /\ a \in Seq(Faults)
      BY <1>1
    <3>2. QED
      BY <3>1, ConcatProperties
  <2>2. Len(b) = 2 /\ Len(a) = 4 /\ Len(b) + Len(a) = 6
    BY <1>1
  <2>3. PICK z : z = b \o a
    OBVIOUS
  <2>4. /\ z \in Seq(Faults) /\ Len(z) = 6
        /\ \A i \in 1 .. 6 : z[i] = IF i <= 2 THEN b[i] ELSE a[i - 2]
    BY <2>1, <2>2, <2>3
  <2>5. QED
    BY <2>3, <2>4
<1>4. \A i \in 1 .. 6 : (b \o a)[i] = c[i]
  <2> TAKE i \in 1 .. 6
  <2>1. i \in {1, 2, 3, 4, 5, 6}
    OBVIOUS
  <2>2. QED
    BY <1>1, <1>2, <1>3, <2>1
<1>5. b \o a = c
  BY <1>2, <1>3, <1>4, SeqEqual
<1>6. QED
  BY <1>5 DEF a, b, c

(* What is wrong with the request is what is wrong with the invocation,    *)
(* but for the text's size, which vv learns by the scan.                   *)
LEMMA ServerFaultsAre ==
  ASSUME NEW i \in Invocations
  PROVE  /\ FaultsOf(i) \subseteq ServerFaults(i)
         /\ ServerFaults(i) \subseteq FaultsOf(i) \cup {"too_large"}
         /\ "too_large" \notin FaultsOf(i)
         /\ FaultsOf(i) = {} => ("too_large" \in ServerFaults(i) <=> i.text = "huge")
<1>1. /\ i.text \in {"empty", "fine", "huge"}
      /\ i.mode \in {"absent", "strict", "substring", "unheard-of"}
      /\ \A s, t \in i.langs : s = t
  BY CliAssumption DEF InvocationType
<1>2. CASE Json(i) /\ ~(i.utf8 /\ i.parses)
  BY <1>2 DEF FaultsOf, ServerFaults
<1>3. CASE ~(Json(i) /\ ~(i.utf8 /\ i.parses))
  <2> DEFINE F1 == CASE i.text = "empty" -> {"empty_text"}
                     [] i.text = "huge"  -> {"too_large"}
                     [] OTHER -> {}
             F2 == IF i.mode = "unheard-of" THEN {"invalid_mode"} ELSE {}
             Of(s) == IF s = <<>> THEN {"empty_langs"}
                      ELSE IF \E e \in ToSet(LangsOf(i)) : Lowered[e] \notin ToSet(Compiled)
                           THEN {"unknown_language"} ELSE {}
             F3 == UNION {Of(s) : s \in i.langs}
  <2>1. ServerFaults(i) = F1 \cup F2 \cup F3
    BY <1>3 DEF ServerFaults
  <2>2. FaultsOf(i) = {f \in {"empty_text", "invalid_mode", "empty_langs", "unknown_language"} :
          CASE f = "empty_text"       -> i.text = "empty"
            [] f = "invalid_mode"     -> resolve_mode(i.mode) = {}
            [] f = "empty_langs"      -> i.langs = {<<>>}
            [] f = "unknown_language" -> scan_langs(i) = {}}
    BY <1>3 DEF FaultsOf
  <2>3. /\ "empty_text" \in FaultsOf(i) <=> i.text = "empty"
        /\ "invalid_mode" \in FaultsOf(i) <=> resolve_mode(i.mode) = {}
        /\ "empty_langs" \in FaultsOf(i) <=> i.langs = {<<>>}
        /\ "unknown_language" \in FaultsOf(i) <=> scan_langs(i) = {}
        /\ FaultsOf(i) \subseteq {"empty_text", "invalid_mode", "empty_langs", "unknown_language"}
    BY <2>2
  <2>4. F1 = IF i.text = "empty" THEN {"empty_text"}
             ELSE IF i.text = "huge" THEN {"too_large"} ELSE {}
    BY <1>1
  <2>5. resolve_mode(i.mode) = {} <=> i.mode = "unheard-of"
    BY <1>1 DEF resolve_mode
  <2>6. CASE i.langs = {}
    <3>1. F3 = {} /\ scan_langs(i) # {} /\ i.langs # {<<>>}
      BY <2>6 DEF scan_langs
    <3> HIDE DEF F1, F3
    <3>2. QED
      BY <2>1, <2>3, <2>4, <2>5, <3>1
  <2>7. CASE i.langs # {}
    <3>1. PICK s \in i.langs : i.langs = {s}
      BY <1>1, <2>7
    <3>2. F3 = Of(s)
      BY <3>1
    <3>3. LangsOf(i) \in Seq(Codes) /\ ((s = <<>>) <=> (LangsOf(i) = <<>>))
      BY <2>7, <3>1, ListIs
    <3> DEFINE l   == LangsOf(i)
               low == [k \in DOMAIN l |-> Lowered[l[k]]]
    <3>4. scan_langs(i) = {} <=> ~(ToSet(low) \subseteq ToSet(Compiled))
      BY <2>7 DEF scan_langs, validate_langs
    <3>5. ToSet(low) = {Lowered[e] : e \in ToSet(l)}
      <4>1. DOMAIN low = DOMAIN l
        OBVIOUS
      <4>2. QED
        BY <4>1 DEF ToSet
    <3>6. scan_langs(i) = {} <=> \E e \in ToSet(l) : Lowered[e] \notin ToSet(Compiled)
      <4> HIDE DEF low, l
      <4>1. QED
        BY <3>4, <3>5
    <3>7. l = <<>> => ToSet(l) = {}
      BY DEF ToSet
    <3>8. i.langs = {<<>>} <=> s = <<>>
      BY <3>1
    <3>9. F3 = IF s = <<>> THEN {"empty_langs"}
               ELSE IF scan_langs(i) = {} THEN {"unknown_language"} ELSE {}
      BY <3>2, <3>6
    <3>10. s = <<>> => scan_langs(i) # {}
      BY <3>3, <3>6, <3>7
    <3> HIDE DEF F1, F3, Of
    <3>11. QED
      BY <2>1, <2>3, <2>4, <2>5, <3>8, <3>9, <3>10
  <2>8. QED
    BY <2>6, <2>7
<1>4. QED
  BY <1>2, <1>3

(* The server's verdict is vv's first complaint, or the one of the scan.   *)
LEMMA VerdictIs ==
  ASSUME NEW i \in Invocations
  PROVE  FirstOf(CliTests, ServerFaults(i)) =
           IF ~Passes(i) THEN resolve_check_inputs(i)
           ELSE IF i.text = "huge" THEN "too_large" ELSE "ok"
<1>1. /\ DOMAIN CliTests = 1 .. 6
      /\ CliTests[1] = "bad_request" /\ CliTests[2] = "empty_text"
      /\ CliTests[3] = "invalid_mode" /\ CliTests[4] = "empty_langs"
      /\ CliTests[5] = "unknown_language" /\ CliTests[6] = "too_large"
  BY DEF CliTests
<1> DEFINE F == FaultsOf(i)
           G == ServerFaults(i)
           C == CliTests
<1>2. /\ F \subseteq G /\ G \subseteq F \cup {"too_large"} /\ "too_large" \notin F
      /\ F = {} => ("too_large" \in G <=> i.text = "huge")
  BY ServerFaultsAre
<1>3. Passes(i) <=> FirstOf(C, F) = "ok"
  BY DEF Passes, resolve_check_inputs
<1>4. Passes(i) => F = {}
  BY PassesWithoutFault
<1> HIDE DEF F, G, C
<1>5. CASE ~Passes(i)
  <2>1. PICK n \in DOMAIN C : /\ C[n] \in F /\ FirstOf(C, F) = C[n]
                              /\ \A j \in DOMAIN C : j < n => C[j] \notin F
    <3>1. DOMAIN C \subseteq Nat
      BY <1>1 DEF C
    <3>2. QED
      BY <1>3, <1>5, <3>1, FirstOfFinds
  <2>2. n \in 1 .. 6 /\ DOMAIN C \subseteq Nat
    BY <1>1, <2>1 DEF C
  <2>3. \A j \in 1 .. 6 : C[j] = "too_large" => j = 6
    BY <1>1 DEF C
  <2>4. \A j \in DOMAIN C : j < n => C[j] \notin G
    <3> SUFFICES ASSUME NEW j \in 1 .. 6, j < n PROVE C[j] \notin G
      BY <1>1 DEF C
    <3>1. C[j] \notin F
      BY <1>1, <2>1 DEF C
    <3>2. C[j] # "too_large"
      BY <2>2, <2>3
    <3>3. QED
      BY <1>2, <3>1, <3>2
  <2>5. C[n] \in G
    BY <1>2, <2>1
  <2>6. FirstOf(C, G) = C[n]
    BY <2>1, <2>2, <2>4, <2>5, FirstOfIs
  <2>7. QED
    BY <1>5, <2>1, <2>6 DEF C, F, G, resolve_check_inputs
<1>6. CASE Passes(i) /\ i.text = "huge"
  <2>1. G = {"too_large"}
    BY <1>2, <1>4, <1>6
  <2>2. 6 \in DOMAIN C /\ C[6] \in G /\ DOMAIN C \subseteq Nat
    BY <1>1, <2>1 DEF C
  <2>3. \A j \in DOMAIN C : j < 6 => C[j] \notin G
    BY <1>1, <2>1 DEF C
  <2>4. FirstOf(C, G) = C[6]
    BY <2>2, <2>3, FirstOfIs
  <2>5. QED
    BY <1>1, <1>6, <2>4 DEF C, G
<1>7. CASE Passes(i) /\ i.text # "huge"
  <2>1. G = {}
    BY <1>2, <1>4, <1>7
  <2>2. FirstOf(C, G) = "ok"
    BY <2>1, NoneOf
  <2>3. QED
    BY <1>7, <2>2 DEF C, G
<1>8. QED
  BY <1>5, <1>6, <1>7

(* vv ends with the status that goes with the server's answer to the same  *)
(* request, and with the same complaint.                                   *)
THEOREM VerdictsAgree == Spec => []SameVerdictAsServer
<1>1. ASSUME Typed, Phase, inv.command = "check", ~Refused(inv), Source(inv) # "none",
             exit \in 0 .. 3
      PROVE  SameVerdictAsServer
  <2> DEFINE verdict == FirstOf(BeforeInputBytes \o AfterInputBytes, ServerFaults(inv))
             status  == Status(IF verdict = "too_large" THEN "payload_too_large" ELSE verdict)
  <2>0. inv \in Invocations /\ pc = "ended" /\ todo = <<>>
    BY <1>1, PrintedSoFar DEF Typed, TypeOK, Phase
  <2>1. verdict = IF ~Passes(inv) THEN resolve_check_inputs(inv)
                  ELSE IF inv.text = "huge" THEN "too_large" ELSE "ok"
    BY <2>0, TestsAgree, VerdictIs
  <2> HIDE DEF verdict
  <2>2. CASE kind \in Fine
    <3>1. Finished(inv, kind) /\ (exit = 0 <=> kind = "Success") /\ (exit = 1 <=> kind = "Hits")
      BY <1>1, <2>0, <2>2, PrintedSoFar, StatusIs
    <3>2. verdict = "ok" /\ (kind = "Hits" <=> Matched(inv))
      BY <1>1, <2>0, <2>1, <3>1, ResultIs DEF Finished
    <3>3. status = 200
      BY <3>2 DEF Status
    <3>4. exit = IF Matched(inv) THEN 1 ELSE 0
      BY <2>2, <3>1, <3>2 DEF Fine
    <3>5. SUFFICES /\ exit = CASE status \in {400, 422} -> 2
                               [] status = 413 -> 3
                               [] status = 200 -> IF Matched(inv) THEN 1 ELSE 0
                   /\ exit \in {2, 3} => Complaints = {verdict}
      BY DEF SameVerdictAsServer, verdict
    <3> HIDE DEF status
    <3>6. QED
      BY <3>3, <3>4
  <2>3. CASE kind \notin Fine
    <3>1. Failed /\ kind \in {"Usage", "TooLarge"} /\ exit # 101
          /\ (exit = 2 <=> kind = "Usage") /\ (exit = 3 <=> kind = "TooLarge")
          /\ exit \in {2, 3}
      BY <1>1, <2>0, <2>3, PrintedSoFar, StatusIs DEF Fine, Typed, TypeOK
    <3>2. PICK w : Due(inv, kind, w) /\ Complaints = {w}
      <4>1. \A w : <<Err(<<"complaint", w>>)>> # <<>>
        OBVIOUS
      <4>2. QED
        BY <1>1, <2>0, <3>1, <4>1 DEF Failed
    <3>3. w = verdict /\ w \in Words
      BY <1>1, <2>1, <3>1, <3>2, DueWord DEF Due
    <3>4. ~Passes(inv) => resolve_check_inputs(inv) \in Faults \ {"too_large"}
      <4> SUFFICES ASSUME ~Passes(inv)
                   PROVE  resolve_check_inputs(inv) \in Faults \ {"too_large"}
        OBVIOUS
      <4>1. DOMAIN CliTests = 1 .. 6 /\ \A n \in 1 .. 6 : CliTests[n] \in Faults
        BY DEF CliTests, Faults
      <4>2. resolve_check_inputs(inv) = FirstOf(CliTests, FaultsOf(inv))
        BY DEF resolve_check_inputs
      <4>3. resolve_check_inputs(inv) # "ok"
        BY DEF Passes
      <4>4. PICK n \in 1 .. 6 : /\ CliTests[n] \in FaultsOf(inv)
                                /\ resolve_check_inputs(inv) = CliTests[n]
        BY <4>1, <4>2, <4>3, FirstOfFinds
      <4>5. "too_large" \notin FaultsOf(inv)
        BY <2>0, ServerFaultsAre
      <4>6. QED
        BY <4>1, <4>4, <4>5
    <3>5. \/ kind = "TooLarge" /\ w = "too_large"
          \/ kind = "Usage" /\ w \in Faults \ {"too_large"}
      BY <1>1, <3>1, <3>2, <3>4 DEF Due
    <3>6. /\ kind = "TooLarge" <=> w = "too_large"
          /\ w \in {"bad_request", "empty_text", "invalid_mode", "empty_langs",
                    "unknown_language", "too_large"}
      BY <3>5 DEF Faults
    <3>7. status \in {400, 413, 422} /\ (status = 413 <=> w = "too_large")
      BY <3>3, <3>6 DEF Status
    <3>8. SUFFICES /\ exit = CASE status \in {400, 422} -> 2
                               [] status = 413 -> 3
                               [] status = 200 -> IF Matched(inv) THEN 1 ELSE 0
                   /\ exit \in {2, 3} => Complaints = {verdict}
      BY DEF SameVerdictAsServer, verdict
    <3> HIDE DEF status
    <3>9. exit = IF status = 413 THEN 3 ELSE 2
      BY <3>1, <3>6, <3>7
    <3>10. QED
      BY <3>2, <3>3, <3>7, <3>9
  <2>4. QED
    BY <2>2, <2>3
<1>2. ASSUME Typed, Phase PROVE SameVerdictAsServer
  BY <1>1, <1>2 DEF SameVerdictAsServer
<1>3. QED
  BY <1>2, PhaseAlways, PTL

-------------------------------------------------------------------------------
(* The sum of the tallies, line by line.                                   *)
LEMMA TalliedIs ==
  ASSUME NEW e, NEW n \in Nat, DOMAIN e = 1 .. n, NEW l,
         \A k \in 1 .. n : TalliesFor(e[k], l) => e[k][3] \in Nat
  PROVE  \E h : /\ h[{}] = 0 /\ Tallied(e, l) = h[1 .. n]
                /\ \A k \in 1 .. n :
                     h[1 .. k] = IF TalliesFor(e[k], l) THEN h[1 .. (k - 1)] + e[k][3]
                                                        ELSE h[1 .. (k - 1)]
<1> DEFINE D == 1 .. n
           R(g) == g = [s \in SUBSET D |->
                          IF s = {} THEN 0
                          ELSE LET x == Max(s)
                               IN  IF TalliesFor(e[x], l)
                                   THEN g[s \ {x}] + e[x][3] ELSE g[s \ {x}]]
           h == CHOOSE g : R(g)
           step == [k \in D |-> [v \in Nat |-> IF TalliesFor(e[k], l) THEN v + e[k][3] ELSE v]]
<1>1. step \in [1 .. n -> [Nat -> Nat]]
  OBVIOUS
<1>2. PICK g : FoldTo(n, Nat, 0, step, g)
  <2> HIDE DEF step
  <2>1. QED
    BY <1>1, FoldExists
<1>3. /\ g \in [SUBSET D -> Nat]
      /\ \A s \in SUBSET D : g[s] = IF s = {} THEN 0 ELSE step[Max(s)][g[s \ {Max(s)}]]
  BY <1>2, Zenon DEF FoldTo
<1>4. R(g)
  <2>1. ASSUME NEW s \in SUBSET D
        PROVE  g[s] = IF s = {} THEN 0
                      ELSE LET x == Max(s)
                           IN  IF TalliesFor(e[x], l)
                               THEN g[s \ {x}] + e[x][3] ELSE g[s \ {x}]
    <3>1. CASE s = {}
      BY <1>3, <3>1
    <3>2. CASE s # {}
      <4>1. PICK x \in D : x = Max(s)
        <5>1. Max(s) \in s
          BY <3>2, MaxIs
        <5>2. QED
          BY <5>1
      <4>2. g[s \ {x}] \in Nat
        BY <1>3
      <4>3. g[s] = step[x][g[s \ {x}]]
        BY <1>3, <3>2, <4>1
      <4>4. step[x][g[s \ {x}]] = IF TalliesFor(e[x], l) THEN g[s \ {x}] + e[x][3]
                                                         ELSE g[s \ {x}]
        BY <4>2
      <4> HIDE DEF step
      <4>5. QED
        BY <3>2, <4>1, <4>3, <4>4
    <3>3. QED
      BY <3>1, <3>2
  <2>2. g = [s \in SUBSET D |-> g[s]]
    BY <1>3
  <2>3. QED
    BY <2>1, <2>2
<1> HIDE DEF step
<1>5. R(h)
  <2> HIDE DEF R
  <2>1. QED
    BY <1>4
<1>6. Tallied(e, l) = h[D]
  BY DEF Tallied, FoldLeft, MapThenFoldSet
<1> HIDE DEF h
<1>7. h[{}] = 0
  BY <1>5
<1>8. ASSUME NEW k \in 1 .. n
      PROVE  h[1 .. k] = IF TalliesFor(e[k], l) THEN h[1 .. (k - 1)] + e[k][3]
                                                ELSE h[1 .. (k - 1)]
  <2>1. PICK s \in SUBSET D, p \in SUBSET D : /\ s = 1 .. k /\ s # {} /\ Max(s) = k
                                 /\ p = s \ {k} /\ p = 1 .. (k - 1)
    <3>1. /\ 1 .. k \in SUBSET (1 .. n) /\ 1 .. k # {} /\ Max(1 .. k) = k
          /\ (1 .. k) \ {k} = 1 .. (k - 1)
      BY FirstPlaces
    <3>2. QED
      BY <3>1
  <2>2. h[s] = LET x == Max(s)
               IN  IF TalliesFor(e[x], l)
                   THEN h[s \ {x}] + e[x][3] ELSE h[s \ {x}]
    BY <1>5, <2>1
  <2>3. h[s] = IF TalliesFor(e[k], l) THEN h[p] + e[k][3] ELSE h[p]
    BY <2>1, <2>2, Zenon
  <2>4. QED
    BY <2>1, <2>3, Zenon
<1>9. QED
  BY <1>6, <1>7, <1>8

(* How many places of s have l is a number.                                *)
LEMMA CountType ==
  ASSUME NEW S, NEW s \in Seq(S), NEW l
  PROVE  /\ CountIn(s, l) \in Nat
         /\ (\A k \in 1 .. Len(s) : s[k] # l) => CountIn(s, l) = 0
<1> DEFINE H == {n \in DOMAIN s : s[n] = l}
<1>1. Len(s) \in Nat /\ DOMAIN s = 1 .. Len(s)
  BY LenProperties
<1>2. IsFiniteSet(1 .. Len(s))
  BY <1>1, FS_Interval
<1>3. H \subseteq 1 .. Len(s)
  BY <1>1
<1>4. Cardinality(H) \in Nat
  BY <1>2, <1>3, FS_Subset, FS_CardinalityType
<1>5. (\A k \in 1 .. Len(s) : s[k] # l) => H = {}
  BY <1>1
<1>6. Cardinality({}) = 0
  BY FS_EmptySet
<1>7. QED
  BY <1>4, <1>5, <1>6, Zenon DEF CountIn

(* The tallies of a language come to its matches: the first entry of       *)
(* mode_used with it has them all.                                         *)
LEMMA TalliesAdd ==
  ASSUME NEW i \in Invocations, Passes(i), i.command = "check", i.verbose, NEW l
  PROVE  /\ Tallied(Log(i), l) = CountIn(result(i).matches, l)
         /\ l \in ToSet(result(i).matches) => \E k \in DOMAIN Log(i) : TalliesFor(Log(i)[k], l)
<1> DEFINE r == result(i)
           c == CountIn(r.matches, l)
           e == Log(i)
           n == Len(e)
           m == Len(r.mode_used)
           Seen(k) == {r.mode_used[j] : j \in 1 .. k}
           val(k) == IF r.mode_used[k] \in Seen(k - 1) THEN 0
                     ELSE CountIn(r.matches, r.mode_used[k])
<1>1. /\ r.mode_used \in Seq(LangSet) /\ r.matches \in Seq(LangSet)
      /\ \A x \in 1 .. Len(r.matches) : \E k \in 1 .. m : r.matches[x] = r.mode_used[k]
  <2>1. /\ r.mode_used \in Seq(LangSet) /\ r.matches \in Seq(LangSet)
        /\ \A x \in 1 .. Len(r.matches) : \E k \in 1 .. m : SameAt(r.matches, x, r.mode_used, k)
    BY ResultIs
  <2>2. QED
    BY <2>1, Zenon DEF SameAt
<1>2. m \in Nat /\ DOMAIN r.mode_used = 1 .. m
  BY <1>1, LenProperties
<1>3. \A x : CountIn(r.matches, x) \in Nat
  BY <1>1, CountType
<1>4. /\ n = 1 + Len(Tally(i)) /\ e[1] = <<"input">>
      /\ \A k \in 1 .. Len(Tally(i)) : e[1 + k] = Tally(i)[k]
      /\ e \in Seq(Printed(i))
  BY ListsOf
<1>5. /\ Len(Tally(i)) \in Nat /\ Len(Tally(i)) >= m
      /\ \A k \in 1 .. m : Tally(i)[k] = per_lang(r)[k]
      /\ \A k \in 1 .. Len(Tally(i)) : k > m => Tally(i)[k] = <<"cut">>
  BY TallyIs, LenProperties
<1>6. ASSUME NEW k \in 1 .. m PROVE per_lang(r)[k] = <<"tally", r.mode_used[k], val(k)>>
  <2>1. PICK p \in Nat : p = k - 1 /\ 0 + p = p /\ 0 + 1 = 1 /\ 0 + p <= Len(r.mode_used)
    BY <1>2
  <2>2. ToSet(SubSeq(r.mode_used, 1, p)) = Seen(p)
    <3>1. /\ SubSeq(r.mode_used, 0 + 1, 0 + p) \in Seq(LangSet)
          /\ Len(SubSeq(r.mode_used, 0 + 1, 0 + p)) = p
          /\ \A x \in 1 .. p : SubSeq(r.mode_used, 0 + 1, 0 + p)[x] = r.mode_used[0 + x]
      BY <1>1, <2>1, SubSeqIs
    <3>2. PICK s : s = SubSeq(r.mode_used, 1, p)
      OBVIOUS
    <3>3. s \in Seq(LangSet) /\ Len(s) = p /\ \A x \in 1 .. p : s[x] = r.mode_used[x]
      BY <2>1, <3>1, <3>2
    <3>4. DOMAIN s = 1 .. p
      BY <3>3
    <3>5. ToSet(s) = Seen(p)
      BY <3>3, <3>4 DEF ToSet
    <3>6. QED
      BY <3>2, <3>5
  <2>3. per_lang(r)[k] = <<"tally", r.mode_used[k],
                           IF r.mode_used[k] \in ToSet(SubSeq(r.mode_used, 1, k - 1)) THEN 0
                           ELSE CountIn(r.matches, r.mode_used[k])>>
    BY <1>2 DEF per_lang
  <2>4. QED
    BY <2>1, <2>2, <2>3
<1>7. \A k \in 1 .. m : val(k) \in Nat
  BY <1>3
<1> HIDE DEF r, c, e, n, m, Seen, val
<1>8. /\ n \in Nat /\ DOMAIN e = 1 .. n
      /\ \A k \in 1 .. m : k + 1 \in 1 .. n /\ e[k + 1] = <<"tally", r.mode_used[k], val(k)>>
      /\ \A k \in 1 .. n : k = 1 \/ k > m + 1 => e[k] \in {<<"input">>, <<"cut">>}
  <2>1. n \in Nat /\ DOMAIN e = 1 .. n
    BY <1>4, LenProperties DEF n
  <2>2. ASSUME NEW k \in 1 .. m
        PROVE  k + 1 \in 1 .. n /\ e[k + 1] = <<"tally", r.mode_used[k], val(k)>>
    <3>1. k \in 1 .. Len(Tally(i)) /\ 1 + k = k + 1 /\ k + 1 \in 1 .. n
      BY <1>2, <1>4, <1>5
    <3>2. QED
      BY <1>4, <1>5, <1>6, <3>1
  <2>3. ASSUME NEW k \in 1 .. n, k > m + 1 PROVE e[k] = <<"cut">>
    <3>1. PICK j \in 1 .. Len(Tally(i)) : k = 1 + j /\ j > m
      <4>1. k - 1 \in 1 .. Len(Tally(i)) /\ k = 1 + (k - 1) /\ k - 1 > m
        BY <1>2, <1>4, <1>5, <2>1, <2>3
      <4>2. QED
        BY <4>1
    <3>2. QED
      BY <1>4, <1>5, <3>1
  <2>4. QED
    BY <1>4, <2>1, <2>2, <2>3
<1>9. ASSUME NEW k \in 1 .. m
      PROVE  /\ TalliesFor(e[k + 1], l) <=> r.mode_used[k] = l
             /\ e[k + 1][3] = val(k)
  BY <1>8 DEF TalliesFor
<1>10. \A k \in 1 .. n : k = 1 \/ k > m + 1 => ~TalliesFor(e[k], l)
  BY <1>8 DEF TalliesFor
<1>11. ASSUME NEW k \in 1 .. n
       PROVE  k = 1 \/ k > m + 1 \/ \E j \in 1 .. m : k = j + 1
  <2>1. k - 1 \in 1 .. m \/ k = 1 \/ k > m + 1
    BY <1>2, <1>8
  <2>2. k = (k - 1) + 1
    BY <1>8
  <2>3. QED
    BY <2>1, <2>2
<1>12. PICK h : /\ h[{}] = 0 /\ Tallied(e, l) = h[1 .. n]
                /\ \A k \in 1 .. n :
                     h[1 .. k] = IF TalliesFor(e[k], l) THEN h[1 .. (k - 1)] + e[k][3]
                                                        ELSE h[1 .. (k - 1)]
  <2>1. \A k \in 1 .. n : TalliesFor(e[k], l) => e[k][3] \in Nat
    BY <1>7, <1>9, <1>10, <1>11
  <2>2. QED
    BY <1>8, <2>1, TalliedIs
<1>13. Seen(0) = {} /\ \A k \in Nat : Seen(k + 1) = Seen(k) \cup {r.mode_used[k + 1]}
  BY DEF Seen
<1> DEFINE P == {k \in Nat : k <= m => h[1 .. (k + 1)] = IF l \in Seen(k) THEN c ELSE 0}
<1>14. 0 \in P
  <2>1. 1 \in 1 .. n
    BY <1>4, <1>5, <1>8 DEF n
  <2>2. h[1 .. 1] = h[1 .. (1 - 1)]
    BY <1>10, <1>12, <2>1
  <2>3. 1 .. (1 - 1) = {} /\ 1 .. (0 + 1) = 1 .. 1
    OBVIOUS
  <2>4. QED
    BY <1>12, <1>13, <2>2, <2>3
<1>15. ASSUME NEW k \in Nat, k \in P PROVE k + 1 \in P
  <2>1. SUFFICES ASSUME NEW j \in 1 .. m, j = k + 1
                 PROVE  h[1 .. (j + 1)] = IF l \in Seen(j) THEN c ELSE 0
    BY <1>2
  <2>2. k <= m /\ j + 1 \in 1 .. n /\ (j + 1) - 1 = k + 1 /\ j - 1 = k
    BY <1>2, <1>8, <2>1
  <2>3. h[1 .. (k + 1)] = IF l \in Seen(k) THEN c ELSE 0
    BY <1>15, <2>2
  <2>4. h[1 .. (j + 1)] = IF r.mode_used[j] = l THEN h[1 .. (k + 1)] + val(j)
                                                ELSE h[1 .. (k + 1)]
    <3>1. h[1 .. (j + 1)] = IF TalliesFor(e[j + 1], l) THEN h[1 .. ((j + 1) - 1)] + e[j + 1][3]
                                                       ELSE h[1 .. ((j + 1) - 1)]
      BY <1>12, <2>2
    <3>2. QED
      BY <1>9, <2>2, <3>1
  <2>5. r.mode_used[j] = l => val(j) = IF l \in Seen(k) THEN 0 ELSE c
    BY <2>2 DEF val, c
  <2>6. l \in Seen(j) <=> l \in Seen(k) \/ r.mode_used[j] = l
    BY <1>13, <2>1
  <2>7. c \in Nat
    BY <1>3 DEF c
  <2>8. QED
    BY <2>3, <2>4, <2>5, <2>6, <2>7
<1>16. h[1 .. (m + 1)] = IF l \in Seen(m) THEN c ELSE 0
  <2>1. Nat \subseteq P
    <3> HIDE DEF P
    <3>1. QED
      BY <1>14, <1>15, Induction
  <2>2. QED
    BY <1>2, <2>1
<1> DEFINE Q == {k \in Nat : m + 1 + k <= n => h[1 .. (m + 1 + k)] = h[1 .. (m + 1)]}
<1>17. 0 \in Q
  BY <1>2
<1>18. ASSUME NEW k \in Nat, k \in Q PROVE k + 1 \in Q
  <2>1. SUFFICES ASSUME NEW j \in 1 .. n, j = m + 1 + (k + 1)
                 PROVE  h[1 .. j] = h[1 .. (m + 1)]
    BY <1>2
  <2>2. j > m + 1 /\ j - 1 = m + 1 + k /\ m + 1 + k <= n
    BY <1>2, <1>8, <2>1
  <2>3. h[1 .. j] = h[1 .. (j - 1)]
    BY <1>10, <1>12, <2>2
  <2>4. QED
    BY <1>18, <2>2, <2>3
<1>19. h[1 .. n] = h[1 .. (m + 1)]
  <2>1. Nat \subseteq Q
    <3> HIDE DEF Q
    <3>1. QED
      BY <1>17, <1>18, Induction
  <2>2. n - (m + 1) \in Nat /\ m + 1 + (n - (m + 1)) = n
    BY <1>2, <1>4, <1>5, <1>8 DEF n
  <2>3. QED
    BY <1>8, <2>1, <2>2
<1>20. l \notin Seen(m) => c = 0 /\ l \notin ToSet(r.matches)
  <2>1. l \notin Seen(m) => \A x \in 1 .. Len(r.matches) : r.matches[x] # l
    BY <1>1 DEF Seen, m
  <2>2. DOMAIN r.matches = 1 .. Len(r.matches)
    BY <1>1
  <2>3. QED
    BY <1>1, <2>1, <2>2, CountType DEF c, ToSet
<1>21. l \in Seen(m) => \E k \in DOMAIN e : TalliesFor(e[k], l)
  BY <1>8, <1>9 DEF Seen
<1>22. QED
  BY <1>12, <1>16, <1>19, <1>20, <1>21 DEF r, c, e

(* What vv check --verbose says of the languages is what its report has.   *)
THEOREM TalliesAreExact == Spec => []TalliesAccountForEveryMatch
<1>1. ASSUME Typed, Phase PROVE TalliesAccountForEveryMatch
  <2> SUFFICES ASSUME inv.verbose, inv.command = "check", exit \in {0, 1}
               PROVE  /\ \A l \in ToSet(Compiled) : Tallied(err, l) = CountIn(result(inv).matches, l)
                      /\ \A l \in ToSet(result(inv).matches) :
                           \E k \in DOMAIN err : TalliesFor(err[k], l)
    BY DEF TalliesAccountForEveryMatch
  <2>1. pc = "ended" /\ kind \in Fine /\ inv \in Invocations
    BY <1>1, PrintedSoFar, StatusIs DEF Fine, Typed, TypeOK
  <2>2. Finished(inv, kind) /\ err = Log(inv)
    BY <1>1, <2>1, PrintedSoFar
  <2>3. Passes(inv)
    BY <2>2 DEF Finished
  <2>4. QED
    BY <2>1, <2>2, <2>3, TalliesAdd
<1>2. QED
  BY <1>1, PhaseAlways, PTL
=============================================================================
