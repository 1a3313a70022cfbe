-------------------------------- MODULE Server --------------------------------
(***************************************************************************)
(* A request's way through the router (routes/mod.rs): metrics layer,      *)
(* authentication, body limit, in-flight gate, handler, and back.  Every   *)
(* request is a task; a step ends where the task touches state it shares   *)
(* with the others (the in-flight counter, the metrics) or suspends.       *)
(*                                                                         *)
(* The layers, outermost first:                                            *)
(*    red_layer          every route; counts when the response comes back  *)
(*    X-List-Version     /v1 routes                                        *)
(*    require_bearer     /v1 routes                                        *)
(*    remap_413, RequestBodyLimitLayer    /v1 routes                       *)
(*    gate               /v1/check                                         *)
(*                                                                         *)
(* Each member of Requests is one request, sent at most once, so that the  *)
(* counters are bounded by their number.                                   *)
(***************************************************************************)
EXTENDS CheckInput

CONSTANTS Requests, MaxInflight, MaxUsize,
          Kinds     \* the requests a client may send, see KindType

(***************************************************************************)
(* path    which route                                                     *)
(* cred    what auth::check says of the Authorization header               *)
(* size    "fits"; "declared": Content-Length over 64 KiB; "chunked": no   *)
(*         length, and more than 64 KiB come; "broken": it cannot be read  *)
(*         to its end                                                      *)
(* body    the faults of the body                                          *)
(* cut     whether the scan's match list is truncated                      *)
(***************************************************************************)
V1Paths == {"/v1/check", "/v1/languages"}
Routes  == V1Paths \cup {"/healthz", "/readyz", "/metrics"}
Paths   == Routes \cup {"/nowhere"}

KindType == [path : Paths, cred : {"good", "missing", "invalid"},
             size : {"fits", "declared", "chunked", "broken"},
             body : Bodies, cut : BOOLEAN]

ASSUME ServerAssumption ==
  /\ IsFiniteSet(Requests)
  /\ MaxInflight \in Nat
  /\ MaxUsize \in Nat
  /\ Cardinality(Requests) <= MaxUsize
  /\ Kinds \subseteq KindType

VARIABLES pc, kind,         \* of each request: where it stands, what it is
          answer,           \* its outcome so far, "none" before there is one
          inflight,         \* AppState.inflight
          requests_total, auth_failures,        \* counters, by label
          request_duration,                     \* observations, by both labels
          input_bytes, matches_per_request,     \* observations in a histogram
          truncated_total

perRequest == <<pc, kind, answer>>
red     == <<requests_total, request_duration>>
checked == <<input_bytes, matches_per_request, truncated_total>>
metrics == <<red, auth_failures, checked>>
vars == <<perRequest, inflight, metrics>>

Classes == {"2xx", "4xx", "5xx", "other"}
Reasons == {"missing", "invalid"}

(* classify_endpoint bounds the labels: a path without a route is "other". *)
Endpoints == Routes \cup {"other"}
classify_endpoint(path) == IF path \in Routes THEN path ELSE "other"

Init == /\ pc = [r \in Requests |-> "new"]
        /\ kind \in [Requests -> Kinds]
        /\ answer = [r \in Requests |-> "none"]
        /\ inflight = 0
        /\ requests_total = [c \in Classes |-> 0]
        /\ request_duration = [l \in Classes \X Endpoints |-> 0]
        /\ auth_failures = [w \in Reasons |-> 0]
        /\ input_bytes = 0
        /\ matches_per_request = 0
        /\ truncated_total = 0

(***************************************************************************)
(* Task r goes on without an answer, or with one.                          *)
(***************************************************************************)
Goto(r, from, to) == /\ pc[r] = from
                     /\ pc' = [pc EXCEPT ![r] = to]
                     /\ UNCHANGED <<kind, answer>>

Answer(r, from, to, outcome) == /\ pc[r] = from
                                /\ pc' = [pc EXCEPT ![r] = to]
                                /\ answer' = [answer EXCEPT ![r] = outcome]
                                /\ UNCHANGED kind
-------------------------------------------------------------------------------
Send(r) == /\ Goto(r, "new", "received")
           /\ UNCHANGED <<inflight, metrics>>

NeedsAuth(k) == k.path \in V1Paths

(* require_bearer turns the request away before anything reads its body. *)
Unauthorized(r) ==
  /\ NeedsAuth(kind[r])
  /\ kind[r].cred # "good"
  /\ Answer(r, "received", "answering", "unauthorized")
  /\ auth_failures' = [auth_failures EXCEPT ![kind[r].cred] = @ + 1]
  /\ UNCHANGED <<inflight, red, checked>>

Passed(r) == NeedsAuth(kind[r]) => kind[r].cred = "good"

(***************************************************************************)
(* RequestBodyLimitLayer refuses a declared length; remap_413 gives that   *)
(* answer the code every other 413 has.                                    *)
(***************************************************************************)
remap_413(outcome) == IF outcome = "plain_413" THEN "payload_too_large" ELSE outcome

OverDeclared(k) == k.path \in V1Paths /\ k.size = "declared"

LengthRefused(r) ==
  /\ Passed(r)
  /\ OverDeclared(kind[r])
  /\ Answer(r, "received", "answering", remap_413("plain_413"))
  /\ UNCHANGED <<inflight, metrics>>

Gated(k) == k.path = "/v1/check"

(* Every other route answers without suspending and without the gate; the  *)
(* router's fallback, which only red_layer wraps, answers the rest.        *)
Served(r) ==
  /\ Passed(r)
  /\ ~OverDeclared(kind[r])
  /\ ~Gated(kind[r])
  /\ Answer(r, "received", "answering",
            IF kind[r].path \in Routes THEN "ok" ELSE "not_found")
  /\ UNCHANGED <<inflight, metrics>>

ReachGate(r) ==
  /\ Passed(r)
  /\ ~OverDeclared(kind[r])
  /\ Gated(kind[r])
  /\ Goto(r, "received", "arrived")
  /\ UNCHANGED <<inflight, metrics>>
-------------------------------------------------------------------------------
(* The gate (limits.rs), as in InflightGate. *)
Plus1(n)  == IF n = MaxUsize THEN 0 ELSE n + 1
Minus1(n) == IF n = 0 THEN MaxUsize ELSE n - 1

Admit(r) == /\ inflight < MaxInflight
            /\ Goto(r, "arrived", "reading")
            /\ inflight' = Plus1(inflight)
            /\ UNCHANGED metrics

Refuse(r) == /\ inflight >= MaxInflight
             /\ Answer(r, "arrived", "over", "overloaded")
             /\ inflight' = Plus1(inflight)
             /\ UNCHANGED metrics

Retract_Guarded(r) ==                 \* defect: the guard is built before the test
  /\ Goto(r, "over", "answering")
  /\ inflight' = Minus1(Minus1(inflight))
  /\ UNCHANGED metrics

Retract_Retries(r) ==                 \* defect: waits for a slot instead of shedding
  /\ pc[r] = "over"
  /\ pc' = [pc EXCEPT ![r] = "arrived"]
  /\ answer' = [answer EXCEPT ![r] = "none"]
  /\ inflight' = Minus1(inflight)
  /\ UNCHANGED <<kind, metrics>>

Retract(r) == /\ Goto(r, "over", "answering")
              /\ inflight' = Minus1(inflight)
              /\ UNCHANGED metrics

DropGuard_OnReturn(r) ==              \* defect: fetch_sub after run() instead of a guard
  /\ pc[r] = "leaving"
  /\ pc' = [pc EXCEPT ![r] = IF answer[r] = "none" THEN "gone" ELSE "answering"]
  /\ inflight' = IF answer[r] = "none" THEN inflight ELSE Minus1(inflight)
  /\ UNCHANGED <<kind, answer, metrics>>

(* With an answer, or because the future was dropped and there is none. *)
DropGuard(r) ==
  /\ pc[r] = "leaving"
  /\ pc' = [pc EXCEPT ![r] = IF answer[r] = "none" THEN "gone" ELSE "answering"]
  /\ inflight' = Minus1(inflight)
  /\ UNCHANGED <<kind, answer, metrics>>
-------------------------------------------------------------------------------
(***************************************************************************)
(* The handler (routes/check.rs).  It awaits the body, which comes, goes   *)
(* over the limit on the way, or cannot be read; its client may disappear. *)
(***************************************************************************)
BodyRead(r) == /\ kind[r].size = "fits"
               /\ Goto(r, "reading", "validating")
               /\ UNCHANGED <<inflight, metrics>>

BodyOverLimit(r) == /\ kind[r].size = "chunked"
                    /\ Answer(r, "reading", "leaving", "payload_too_large")
                    /\ UNCHANGED <<inflight, metrics>>

BodyBroken(r) == /\ kind[r].size = "broken"
                 /\ Answer(r, "reading", "leaving", "bad_request")
                 /\ UNCHANGED <<inflight, metrics>>

Disconnect(r) == /\ Goto(r, "reading", "leaving")
                 /\ UNCHANGED <<inflight, metrics>>

(* Parsing and the empty-text test come before vv_input_bytes ... *)
RefusedUnmeasured(r) ==
  LET first == FirstOf(BeforeInputBytes, kind[r].body)
  IN  /\ first # "ok"
      /\ Answer(r, "validating", "leaving", first)
      /\ UNCHANGED <<inflight, metrics>>

RecordInputBytes(r) ==
  /\ FirstOf(BeforeInputBytes, kind[r].body) = "ok"
  /\ Goto(r, "validating", "measured")
  /\ input_bytes' = input_bytes + 1
  /\ UNCHANGED <<inflight, red, auth_failures, matches_per_request, truncated_total>>

(* ... mode, languages and the normalized size after it. *)
RefusedMeasured(r) ==
  LET first == FirstOf(AfterInputBytes, kind[r].body)
  IN  /\ first # "ok"
      /\ Answer(r, "measured", "leaving",
                IF first = "too_large" THEN "payload_too_large" ELSE first)
      /\ UNCHANGED <<inflight, metrics>>

RecordMatches(r) ==
  /\ FirstOf(AfterInputBytes, kind[r].body) = "ok"
  /\ Answer(r, "measured", IF kind[r].cut THEN "cut" ELSE "leaving", "ok")
  /\ matches_per_request' = matches_per_request + 1
  /\ UNCHANGED <<inflight, red, auth_failures, input_bytes, truncated_total>>

RecordTruncated(r) ==
  /\ Goto(r, "cut", "leaving")
  /\ truncated_total' = truncated_total + 1
  /\ UNCHANGED <<inflight, red, auth_failures, input_bytes, matches_per_request>>
-------------------------------------------------------------------------------
(* red_layer, on the way back: the counter, then the histogram, both under *)
(* the class of the status.  What it is not given it does not count.       *)
class(r) == classify_status(Status(answer[r]))

CountRequest_BelowAuth(r) ==          \* defect: red_layer inside require_bearer
  /\ Goto(r, "answering", "counted")
  /\ requests_total' = IF answer[r] = "unauthorized" THEN requests_total
                       ELSE [requests_total EXCEPT ![class(r)] = @ + 1]
  /\ UNCHANGED <<inflight, request_duration, auth_failures, checked>>

CountRequest(r) ==
  /\ Goto(r, "answering", "counted")
  /\ requests_total' = [requests_total EXCEPT ![class(r)] = @ + 1]
  /\ UNCHANGED <<inflight, request_duration, auth_failures, checked>>

RecordDuration(r) ==
  /\ Goto(r, "counted", "answered")
  /\ request_duration' =
       [request_duration EXCEPT ![<<class(r), classify_endpoint(kind[r].path)>>] = @ + 1]
  /\ UNCHANGED <<inflight, requests_total, auth_failures, checked>>

ServerStep(r) ==
  \/ Unauthorized(r) \/ LengthRefused(r) \/ Served(r) \/ ReachGate(r)
  \/ Admit(r) \/ Refuse(r) \/ Retract(r) \/ DropGuard(r)
  \/ RefusedUnmeasured(r) \/ RecordInputBytes(r) \/ RefusedMeasured(r)
  \/ RecordMatches(r) \/ RecordTruncated(r) \/ CountRequest(r)
  \/ RecordDuration(r)

ClientStep(r) == \/ BodyRead(r) \/ BodyOverLimit(r) \/ BodyBroken(r)
                 \/ Disconnect(r)

Next == \E r \in Requests : Send(r) \/ ServerStep(r) \/ ClientStep(r)

(* As in InflightGate: the runtime runs every task that can run; nothing   *)
(* is assumed of the clients.                                              *)
Fairness == \A r \in Requests : WF_vars(ServerStep(r))

SafetySpec == Init /\ [][Next]_vars
Spec == SafetySpec /\ Fairness
-------------------------------------------------------------------------------
Stages == {"new", "received", "arrived", "over", "reading", "validating",
           "measured", "cut", "leaving", "answering", "counted", "answered", "gone"}

At(stages) == {r \in Requests : pc[r] \in stages}
Ended(outcome) == {r \in At({"answered"}) : answer[r] = outcome}

TypeOK ==
  LET Counts == 0 .. Cardinality(Requests)
  IN  /\ pc \in [Requests -> Stages]
      /\ kind \in [Requests -> Kinds]
      /\ inflight \in Counts
      /\ requests_total \in [Classes -> Counts]
      /\ request_duration \in [Classes \X Endpoints -> Counts]
      /\ auth_failures \in [Reasons -> Counts]
      /\ {input_bytes, matches_per_request, truncated_total} \subseteq Counts

(***************************************************************************)
(* The gate inside the server is the gate of InflightGate.                 *)
(***************************************************************************)
GateStage(stage) ==
  CASE stage \in {"arrived", "over", "reading", "leaving"} -> stage
    [] stage \in {"validating", "measured", "cut"} -> "scanning"
    [] OTHER -> "idle"

Gate == INSTANCE InflightGate WITH pc <- [r \in Requests |-> GateStage(pc[r])]

(* What the layers around it and the handler inside it do is a behaviour   *)
(* of the gate: whoever takes a slot gives it back once, on every path     *)
(* through the handler.                                                    *)
ImplementsGate == Gate!SafetySpec

(* Which answer a request gets, whatever else happens in the server.  The  *)
(* router documents the order of its layers (routes/mod.rs:34-45): "auth   *)
(* (fast 401 before body parse, before the gate)", the body limit, the     *)
(* gate, and "/v1/languages shares everything in the chain except the      *)
(* gate", its 413 for a declared length therefore, too, which the table of *)
(* GET /v1/languages in API.md does not have.  Inside the gate it is the   *)
(* handler's verdict, the one the command line gives on the same body      *)
(* ("Mirrors routes/check.rs's validation order so error rows match",      *)
(* cli.rs:398), and a 400 for a body that is none: neither is given        *)
(* without its reason.                                                     *)
Verdict(k) ==
  LET first == FirstOf(CliTests, k.body)
  IN  CASE k.size = "broken"  -> "bad_request"
        [] k.size = "chunked" -> "payload_too_large"
        [] OTHER -> IF first = "too_large" THEN "payload_too_large" ELSE first

Due(k) ==
  IF k.path \in V1Paths /\ k.cred # "good" THEN {"unauthorized"}
  ELSE IF k.path \in V1Paths /\ k.size = "declared" THEN {"payload_too_large"}
  ELSE IF k.path = "/nowhere" THEN {"not_found"}
  ELSE IF k.path # "/v1/check" THEN {"ok"}
  ELSE {"overloaded", Verdict(k)}

AnsweredInOrder ==
  \A r \in Requests : answer[r] # "none" => answer[r] \in Due(kind[r])

(* When nothing is under way the metrics add up: one count in              *)
(* requests_total and one duration for every answered request, 401s among  *)
(* them, and none for a cancelled one; one vv_matches_per_request for      *)
(* every 200 of /v1/check and one vv_truncated_total for every truncated   *)
(* one; a vv_input_bytes for those and for the 422s and the 413 that       *)
(* follow it, which are all but the empty text's; no slot taken.           *)
Late(r) == \/ answer[r] \in {"ok", "invalid_mode", "empty_langs", "unknown_language"}
           \/ answer[r] = "payload_too_large" /\ kind[r].size = "fits"

QuiescentAccounts ==
  At({"new", "answered", "gone"}) = Requests =>
    LET Answered == At({"answered"})
        Checked  == {r \in Ended("ok") : Gated(kind[r])}
    IN  /\ \A c \in Classes :
             /\ requests_total[c] = Cardinality({r \in Answered : class(r) = c})
             /\ \A e \in Endpoints : request_duration[<<c, e>>] =
                  Cardinality({r \in Answered :
                                 class(r) = c /\ classify_endpoint(kind[r].path) = e})
        /\ \A w \in Reasons : auth_failures[w] =
             Cardinality({r \in Ended("unauthorized") : kind[r].cred = w})
        /\ input_bytes = Cardinality({r \in Answered : Gated(kind[r]) /\ Late(r)})
        /\ matches_per_request = Cardinality(Checked)
        /\ truncated_total = Cardinality({r \in Checked : kind[r].cut})
        /\ inflight = 0

(* What a scrape between two steps may see: a truncation never without its *)
(* match count, a match count never without its input size, a duration     *)
(* never without its request, and vv_auth_failures_total ahead of the 4xx  *)
(* count by no more than the requests whose answer is on its way out.      *)
CountersNeverContradict ==
  /\ truncated_total <= matches_per_request
  /\ matches_per_request <= input_bytes
  /\ \A c \in Classes, e \in Endpoints : request_duration[<<c, e>>] <= requests_total[c]
  /\ auth_failures["missing"] + auth_failures["invalid"]
       <= requests_total["4xx"] + Cardinality(At({"answering"}))

(* The handler gets stuck nowhere but in its one wait: a request the       *)
(* server has in hand is answered, has ended with its client, or waits for *)
(* its client's body.                                                      *)
EveryRequestEnds ==
  \A r \in Requests :
    pc[r] \notin {"new", "reading"} ~> pc[r] \in {"answered", "gone", "reading"}
=============================================================================
