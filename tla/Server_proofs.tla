---------------------------- MODULE Server_proofs ----------------------------
(***************************************************************************)
(* Theorems about Server, for every finite set of requests of any kinds    *)
(* and every cap.                                                          *)
(*                                                                         *)
(* First, every step is a step of the gate or leaves it alone; whatever is *)
(* proved of the gate is then true here, by an instance of its theorems.   *)
(* Second, Shape: at each stage a request has the kind, and at the end the *)
(* answer, which the branches taken imply.  Third, Accounts: every metric  *)
(* is the size of a set of requests given by their stages and answers, to  *)
(* which one step adds one member when it increments the metric.           *)
(***************************************************************************)
EXTENDS Server, SharedLemmas, FiniteSetTheorems

Typed == pc \in [Requests -> Stages]

GatePc == [r \in Requests |-> GateStage(pc[r])]
-------------------------------------------------------------------------------
(* How a step of one request moves it at the gate. *)
LEMMA MappedMove ==
  ASSUME Typed, NEW r \in Requests, NEW from \in Stages, NEW to \in Stages,
         pc[r] = from, pc' = [pc EXCEPT ![r] = to]
  PROVE  /\ GatePc[r] = GateStage(from)
         /\ GatePc' = [GatePc EXCEPT ![r] = GateStage(to)]
         /\ GateStage(from) = GateStage(to) => GatePc' = GatePc
BY DEF Typed, GatePc

(* Every step of the server is a step of the gate or leaves it alone. *)
LEMMA MappedStep ==
  ASSUME Typed, Next
  PROVE  Gate!Next \/ UNCHANGED <<inflight, GatePc>>
<1> USE DEF Stages, GateStage
<1>1. ASSUME NEW r \in Requests, ReachGate(r) PROVE Gate!Arrive(r)
  BY <1>1, MappedMove DEF ReachGate, Goto, Gate!Arrive, Gate!Goto, GatePc
<1>2. ASSUME NEW r \in Requests, Admit(r) PROVE Gate!Admit(r)
  BY <1>2, MappedMove DEF Admit, Goto, Plus1, Gate!Admit, Gate!Goto, Gate!Plus1, GatePc
<1>3. ASSUME NEW r \in Requests, Refuse(r) PROVE Gate!Refuse(r)
  BY <1>3, MappedMove DEF Refuse, Answer, Plus1, Gate!Refuse, Gate!Goto, Gate!Plus1, GatePc
<1>4. ASSUME NEW r \in Requests, Retract(r) PROVE Gate!Retract(r)
  BY <1>4, MappedMove DEF Retract, Goto, Minus1, Gate!Retract, Gate!Goto, Gate!Minus1, GatePc
<1>5. ASSUME NEW r \in Requests, DropGuard(r) PROVE Gate!DropGuard(r)
  <2>1. PICK to \in {"gone", "answering"} : pc' = [pc EXCEPT ![r] = to]
    BY <1>5 DEF DropGuard
  <2>2. QED
    BY <1>5, <2>1, MappedMove DEF DropGuard, Minus1, Gate!DropGuard, Gate!Goto, Gate!Minus1, GatePc
<1>6. ASSUME NEW r \in Requests, BodyRead(r) PROVE Gate!BodyRead(r)
  BY <1>6, MappedMove DEF BodyRead, Goto, Gate!BodyRead, Gate!Goto, GatePc
<1>7. ASSUME NEW r \in Requests, BodyOverLimit(r) \/ BodyBroken(r) PROVE Gate!BodyFails(r)
  BY <1>7, MappedMove DEF BodyOverLimit, BodyBroken, Answer, Gate!BodyFails, Gate!Goto, GatePc
<1>8. ASSUME NEW r \in Requests, Disconnect(r) PROVE Gate!Disconnect(r)
  BY <1>8, MappedMove DEF Disconnect, Goto, Gate!Disconnect, Gate!Goto, GatePc
<1>9. ASSUME NEW r \in Requests, RefusedUnmeasured(r) \/ RefusedMeasured(r)
      PROVE  Gate!HandlerReturns(r)
  BY <1>9, MappedMove DEF RefusedUnmeasured, RefusedMeasured, Answer,
                          Gate!HandlerReturns, Gate!Goto, GatePc
<1>10. ASSUME NEW r \in Requests, RecordMatches(r)
       PROVE  Gate!HandlerReturns(r) \/ UNCHANGED <<inflight, GatePc>>
  <2>1. CASE kind[r].cut
    BY <1>10, <2>1, MappedMove DEF RecordMatches, Answer
  <2>2. CASE ~kind[r].cut
    BY <1>10, <2>2, MappedMove DEF RecordMatches, Answer, Gate!HandlerReturns,
                                   Gate!Goto, GatePc
  <2>3. QED
    BY <2>1, <2>2
<1>11. ASSUME NEW r \in Requests, RecordTruncated(r) PROVE Gate!HandlerReturns(r)
  BY <1>11, MappedMove DEF RecordTruncated, Goto, Gate!HandlerReturns, Gate!Goto, GatePc
<1>12. ASSUME NEW r \in Requests,
              Send(r) \/ RecordInputBytes(r) \/ CountRequest(r) \/ RecordDuration(r)
       PROVE  UNCHANGED <<inflight, GatePc>>
  BY <1>12, MappedMove DEF Send, RecordInputBytes, CountRequest, RecordDuration, Goto
<1>13. ASSUME NEW r \in Requests, Unauthorized(r) \/ LengthRefused(r) \/ Served(r)
       PROVE  UNCHANGED <<inflight, GatePc>>
  BY <1>13, MappedMove DEF Unauthorized, LengthRefused, Served, Answer
<1>14. QED
  BY <1>1, <1>2, <1>3, <1>4, <1>5, <1>6, <1>7, <1>8, <1>9, <1>10, <1>11, <1>12, <1>13
  DEF Next, ServerStep, ClientStep, Gate!Next, Gate!ServerStep, Gate!ClientStep

-------------------------------------------------------------------------------
(* The program counters keep their type: every step moves one of them to a *)
(* stage.                                                                  *)
LEMMA TypedAlways == SafetySpec => []Typed
<1>1. Init => Typed
  BY DEF Init, Typed, Stages
<1>2. Typed /\ [Next]_vars => Typed'
  BY DEF Typed, Stages, Next, ServerStep, ClientStep, Send, Unauthorized,
         LengthRefused, Served, ReachGate, Admit, Refuse, Retract, DropGuard,
         BodyRead, BodyOverLimit, BodyBroken, Disconnect, RefusedUnmeasured,
         RecordInputBytes, RefusedMeasured, RecordMatches, RecordTruncated,
         CountRequest, RecordDuration, Goto, Answer, vars, perRequest
<1>3. QED
  BY <1>1, <1>2, PTL DEF SafetySpec

(* Layers and handler together are a behaviour of the gate. *)
THEOREM ServerImplementsGate == SafetySpec => ImplementsGate
<1>1. Init => Gate!Init
  BY DEF Init, GateStage, Gate!Init
<1>2. Typed /\ [Next]_vars => [Gate!Next]_(Gate!vars)
  <2>1. CASE UNCHANGED vars
    BY <2>1 DEF vars, perRequest, Gate!vars
  <2>2. QED
    BY <2>1, MappedStep DEF Gate!vars, GatePc
<1>3. QED
  BY TypedAlways, <1>1, <1>2, PTL DEF SafetySpec, ImplementsGate, Gate!SafetySpec
-------------------------------------------------------------------------------
(***************************************************************************)
(* What is proved of the gate carries over to the server.  GateProofs is   *)
(* the same instance of InflightGate as Gate, with the theorems.           *)
(***************************************************************************)
GateProofs == INSTANCE InflightGate_proofs WITH pc <- GatePc

(* The two instances have the same definitions, and their Cardinality is   *)
(* the one of this module.                                                 *)
LEMMA SameFinite == \A S : GateProofs!IsFiniteSet(S) <=> IsFiniteSet(S)
BY Zenon DEF GateProofs!IsFiniteSet, IsFiniteSet

(* The instance of the gate's proofs counts as Server does.                *)
LEMMA SameCardinality == \A S : /\ GateProofs!Cardinality(S) = Cardinality(S)
                                /\ Gate!Cardinality(S) = Cardinality(S)
BY Zenon DEF GateProofs!Cardinality, Gate!Cardinality, Cardinality,
             GateProofs!IsFiniteSet, Gate!IsFiniteSet, IsFiniteSet

(* The gate that Server is mapped to and the one the theorems are about.   *)
LEMMA SameGate == Gate!SafetySpec <=> GateProofs!SafetySpec
<1>1. Gate!Init <=> GateProofs!Init
  BY DEF Gate!Init, GateProofs!Init, GatePc
<1>2. Gate!Next <=> GateProofs!Next
  BY DEF GatePc, Gate!Next, GateProofs!Next, Gate!ServerStep, GateProofs!ServerStep,
         Gate!ClientStep, GateProofs!ClientStep, Gate!Arrive, GateProofs!Arrive,
         Gate!Admit, GateProofs!Admit, Gate!Refuse, GateProofs!Refuse,
         Gate!Retract, GateProofs!Retract, Gate!BodyRead, GateProofs!BodyRead,
         Gate!BodyFails, GateProofs!BodyFails, Gate!Disconnect, GateProofs!Disconnect,
         Gate!HandlerReturns, GateProofs!HandlerReturns,
         Gate!DropGuard, GateProofs!DropGuard, Gate!Goto, GateProofs!Goto,
         Gate!Plus1, GateProofs!Plus1, Gate!Minus1, GateProofs!Minus1
<1>3. [Gate!Next]_(Gate!vars) <=> [GateProofs!Next]_(GateProofs!vars)
  BY <1>2 DEF Gate!vars, GateProofs!vars, GatePc
<1>4. QED
  BY <1>1, <1>3, PTL DEF Gate!SafetySpec, GateProofs!SafetySpec

(* What is proved of the gate holds of the gate in the server.             *)
LEMMA GateInvariants == SafetySpec => [](GateProofs!CounterExact /\ GateProofs!AtMostMaxGuarded)
<1>1. GateProofs!GateAssumption
  BY ServerAssumption, SameFinite, SameCardinality DEF ServerAssumption, GateProofs!GateAssumption
<1>2. GateProofs!SafetySpec => []GateProofs!CounterExact
  BY <1>1, GateProofs!CounterIsExact
<1>3. GateProofs!SafetySpec => []GateProofs!AtMostMaxGuarded
  BY <1>1, GateProofs!CapHolds
<1>4. QED
  BY <1>2, <1>3, ServerImplementsGate, SameGate, PTL DEF ImplementsGate
-------------------------------------------------------------------------------
(***************************************************************************)
(* What a request's place says of it.  The last part is the property; it   *)
(* needs the others, for the handler decides by tests it made on its way.  *)
(***************************************************************************)
AtGate == {"arrived", "over", "reading", "validating", "measured", "cut", "leaving"}

Placed(r) ==
  /\ pc[r] \in {"new", "received", "arrived", "reading", "validating", "measured", "gone"}
       => answer[r] = "none"
  /\ pc[r] \in {"answering", "counted", "answered"} => answer[r] # "none"
  /\ pc[r] = "over" => answer[r] = "overloaded"
  /\ pc[r] = "cut" => answer[r] = "ok" /\ kind[r].cut
  /\ pc[r] \in AtGate => Passed(r) /\ ~OverDeclared(kind[r]) /\ Gated(kind[r])
  /\ pc[r] \in {"validating", "measured", "cut"} => kind[r].size = "fits"
  /\ pc[r] = "measured" => FirstOf(BeforeInputBytes, kind[r].body) = "ok"
  /\ answer[r] # "none" => answer[r] \in Due(kind[r])

Shape == /\ Typed
         /\ kind \in [Requests -> Kinds]
         /\ DOMAIN answer = Requests
         /\ \A r \in Requests : Placed(r)

(* Nobody has been sent.                                                   *)
LEMMA InitShape == Init => Shape
BY DEF Init, Shape, Typed, Placed, Stages, AtGate

(* A step is one request's; the others stay as they are. *)
OneMoves(r) == /\ kind' = kind
               /\ DOMAIN answer' = Requests
               /\ Typed'
               /\ \A q \in Requests : q # r => pc'[q] = pc[q] /\ answer'[q] = answer[q]

Step(r) == Send(r) \/ ServerStep(r) \/ ClientStep(r)

(* A step of a request moves that one only, from stage to stage.           *)
LEMMA StepMovesOne == ASSUME Shape, NEW r \in Requests, Step(r) PROVE OneMoves(r)
<1>1. \E to \in Stages : pc' = [pc EXCEPT ![r] = to]
  BY DEF Stages, Step, ServerStep, ClientStep, Send, Unauthorized,
         LengthRefused, Served, ReachGate, Admit, Refuse, Retract, DropGuard,
         BodyRead, BodyOverLimit, BodyBroken, Disconnect, RefusedUnmeasured,
         RecordInputBytes, RefusedMeasured, RecordMatches, RecordTruncated,
         CountRequest, RecordDuration, Goto, Answer
<1>2. /\ kind' = kind
      /\ answer' = answer \/ \E outcome : answer' = [answer EXCEPT ![r] = outcome]
  BY DEF Step, ServerStep, ClientStep, Send, Unauthorized,
         LengthRefused, Served, ReachGate, Admit, Refuse, Retract, DropGuard,
         BodyRead, BodyOverLimit, BodyBroken, Disconnect, RefusedUnmeasured,
         RecordInputBytes, RefusedMeasured, RecordMatches, RecordTruncated,
         CountRequest, RecordDuration, Goto, Answer
<1>3. QED
  BY <1>1, <1>2 DEF Shape, Typed, OneMoves

(* So only its place is to be looked at.                                   *)
LEMMA ShapeOfOne ==
  ASSUME Shape, NEW r \in Requests, OneMoves(r), Placed(r)'
  PROVE  Shape'
<1>1. ASSUME NEW q \in Requests, q # r PROVE Placed(q)'
  BY <1>1 DEF Shape, OneMoves, Placed, Passed, NeedsAuth, OverDeclared, Gated, Due
<1>2. QED
  BY <1>1 DEF Shape, OneMoves

(* The request that moves is where its new place says. *)
LEMMA StepShape == Shape /\ [Next]_vars => Shape'
<1> SUFFICES ASSUME Shape, NEW r \in Requests, Step(r) PROVE Placed(r)'
  <2>1. CASE UNCHANGED vars
    BY <2>1 DEF vars, perRequest, Shape, Typed, Placed, Passed
  <2>2. QED
    BY <2>1, StepMovesOne, ShapeOfOne DEF Next, Step
<1>1. kind' = kind /\ Placed(r) /\ DOMAIN answer = Requests /\ kind[r] \in KindType
      /\ DOMAIN pc = Requests
  BY StepMovesOne, ServerAssumption DEF OneMoves, Shape, Typed, ServerAssumption
<1>a. Placed(r)' <=>
        /\ pc'[r] \in {"new", "received", "arrived", "reading", "validating", "measured", "gone"}
             => answer'[r] = "none"
        /\ pc'[r] \in {"answering", "counted", "answered"} => answer'[r] # "none"
        /\ pc'[r] = "over" => answer'[r] = "overloaded"
        /\ pc'[r] = "cut" => answer'[r] = "ok" /\ kind[r].cut
        /\ pc'[r] \in AtGate => Passed(r) /\ ~OverDeclared(kind[r]) /\ Gated(kind[r])
        /\ pc'[r] \in {"validating", "measured", "cut"} => kind[r].size = "fits"
        /\ pc'[r] = "measured" => FirstOf(BeforeInputBytes, kind[r].body) = "ok"
        /\ answer'[r] # "none" => answer'[r] \in Due(kind[r])
  BY <1>1 DEF Placed, Passed
<1>b. (pc[r] \in AtGate /\ ~OverDeclared(kind[r]) /\ Gated(kind[r])) =>
        Due(kind[r]) = {"overloaded", Verdict(kind[r])}
  BY <1>1 DEF Due, Placed, Passed, NeedsAuth, OverDeclared, Gated, V1Paths, KindType
<1>2. CASE Send(r) \/ CountRequest(r) \/ RecordDuration(r)
  BY <1>1, <1>2, <1>a DEF Send, CountRequest, RecordDuration, Goto, Placed, AtGate
<1>3. CASE Unauthorized(r)
  BY <1>1, <1>3, <1>a DEF Unauthorized, Answer, Placed, AtGate, Due, NeedsAuth
<1>4. CASE LengthRefused(r)
  BY <1>1, <1>4, <1>a DEF LengthRefused, Answer, Placed, AtGate, Due, Passed, NeedsAuth,
                     OverDeclared, remap_413
<1>5. CASE Served(r)
  BY <1>1, <1>5, <1>a DEF Served, Answer, Placed, AtGate, Due, Passed, NeedsAuth,
                     OverDeclared, Gated, KindType, Paths, Routes, V1Paths
<1>6. CASE ReachGate(r)
  BY <1>1, <1>6, <1>a DEF ReachGate, Goto, Placed, AtGate
<1>7. CASE Admit(r) \/ BodyRead(r) \/ Disconnect(r) \/ RecordTruncated(r)
  BY <1>1, <1>7, <1>a DEF Admit, BodyRead, Disconnect, RecordTruncated, Goto, Placed, AtGate
<1>8. CASE Refuse(r)
  BY <1>1, <1>8, <1>a, <1>b DEF Refuse, Answer, Placed, AtGate
<1>9. CASE Retract(r)
  BY <1>1, <1>9, <1>a DEF Retract, Goto, Placed, AtGate
<1>10. CASE DropGuard(r)
  BY <1>1, <1>10, <1>a DEF DropGuard, Placed, AtGate
<1>11. CASE BodyOverLimit(r) \/ BodyBroken(r)
  BY <1>1, <1>11, <1>a, <1>b DEF Verdict, BodyOverLimit, BodyBroken, Answer, Placed, AtGate
<1>12. CASE RefusedUnmeasured(r)
  BY <1>1, <1>12, <1>a, <1>b, SameOrder DEF Verdict, RefusedUnmeasured, Answer, Placed, AtGate
<1>13. CASE RecordInputBytes(r)
  BY <1>1, <1>13, <1>a DEF RecordInputBytes, Goto, Placed, AtGate
<1>14. CASE RefusedMeasured(r)
  BY <1>1, <1>14, <1>a, <1>b, SameOrder DEF Verdict, RefusedMeasured, Answer, Placed, AtGate
<1>15. CASE RecordMatches(r)
  BY <1>1, <1>15, <1>a, <1>b, SameOrder DEF Verdict, RecordMatches, Answer, Placed, AtGate
<1>16. QED
  BY <1>2, <1>3, <1>4, <1>5, <1>6, <1>7, <1>8, <1>9, <1>10, <1>11, <1>12, <1>13, <1>14,
     <1>15 DEF Step, ServerStep, ClientStep

(* Every request is always where its answer says.                          *)
LEMMA ShapeAlways == SafetySpec => []Shape
  BY InitShape, StepShape, PTL DEF SafetySpec

(* Every answer is the one that layers and tests give in their order,      *)
(* whatever the requests and the cap.                                      *)
THEOREM AnswersAreInOrder == SafetySpec => []AnsweredInOrder
<1>1. Shape => AnsweredInOrder
  BY DEF Shape, Placed, AnsweredInOrder
<1>2. QED
  BY <1>1, ShapeAlways, PTL
-------------------------------------------------------------------------------
(***************************************************************************)
(* The metrics are at every moment the sizes of sets of requests; what     *)
(* QuiescentAccounts says of a quiet moment follows, and so does that they *)
(* never contradict each other, for the sets contain one another.          *)
(***************************************************************************)
CountedAs(c)    == {r \in Requests : pc[r] \in {"counted", "answered"} /\ class(r) = c}
TimedAs(c, e)   == {r \in Requests : /\ pc[r] = "answered" /\ class(r) = c
                                     /\ classify_endpoint(kind[r].path) = e}
TurnedAway(w)   == {r \in Requests : answer[r] = "unauthorized" /\ kind[r].cred = w}
Measured        == {r \in Requests : Gated(kind[r]) /\ (pc[r] = "measured" \/ Late(r))}
Matched         == {r \in Requests : Gated(kind[r]) /\ answer[r] = "ok"}
Truncated       == {r \in Requests : /\ Gated(kind[r]) /\ answer[r] = "ok"
                                     /\ kind[r].cut /\ pc[r] # "cut"}

RequestsExact == /\ requests_total \in [Classes -> Nat]
                 /\ \A c \in Classes : requests_total[c] = Cardinality(CountedAs(c))
DurationExact == /\ request_duration \in [Classes \X Endpoints -> Nat]
                 /\ \A c \in Classes, e \in Endpoints :
                      request_duration[<<c, e>>] = Cardinality(TimedAs(c, e))
FailuresExact == /\ auth_failures \in [Reasons -> Nat]
                 /\ \A w \in Reasons : auth_failures[w] = Cardinality(TurnedAway(w))
InputExact    == input_bytes = Cardinality(Measured)
MatchesExact  == matches_per_request = Cardinality(Matched)
TruncateExact == truncated_total = Cardinality(Truncated)

Accounts == /\ RequestsExact /\ DurationExact /\ FailuresExact
            /\ InputExact /\ MatchesExact /\ TruncateExact

(* Whatever is counted is finite.                                          *)
LEMMA FiniteSubsets ==
  ASSUME NEW S \in SUBSET Requests
  PROVE  IsFiniteSet(S) /\ Cardinality(S) \in 0 .. Cardinality(Requests)
BY ServerAssumption, FS_Subset, FS_CardinalityType DEF ServerAssumption

(* One more in a set is one more in its size. *)
LEMMA OneMore ==
  ASSUME NEW S \in SUBSET Requests, NEW r \in Requests, r \notin S, NEW T, T = S \cup {r}
  PROVE  Cardinality(T) = Cardinality(S) + 1
BY FiniteSubsets, FS_AddElement

(* A family of counts stays one. *)
LEMMA CountsStay ==
  ASSUME NEW D, NEW f \in [D -> Nat], NEW d
  PROVE  [f EXCEPT ![d] = @ + 1] \in [D -> Nat]
<1>1. \A x \in D : [f EXCEPT ![d] = @ + 1][x] = IF x = d THEN f[x] + 1 ELSE f[x]
  OBVIOUS
<1>2. \A x \in D : [f EXCEPT ![d] = @ + 1][x] \in Nat
  BY <1>1
<1>3. QED
  BY <1>2

(* Nothing has been counted, and nobody is to be.                          *)
LEMMA InitAccounts == Init => Accounts
<1> SUFFICES ASSUME Init PROVE Accounts
  OBVIOUS
<1>1. /\ \A c : CountedAs(c) = {}
      /\ \A c, e : TimedAs(c, e) = {}
      /\ \A w : TurnedAway(w) = {}
      /\ Measured = {} /\ Matched = {} /\ Truncated = {}
  BY DEF Init, CountedAs, TimedAs, TurnedAway, Measured, Matched, Truncated, Late
<1>2. QED
  BY <1>1, FS_EmptySet DEF Init, Accounts, RequestsExact, DurationExact, FailuresExact,
     InputExact, MatchesExact, TruncateExact

(* A set that the moving request neither enters nor leaves stays the same. *)
LEMMA SetsStay ==
  ASSUME Shape, NEW r \in Requests, OneMoves(r)
  PROVE  /\ \A c : CountedAs(c)' \ {r} = CountedAs(c) \ {r}
         /\ \A c, e : TimedAs(c, e)' \ {r} = TimedAs(c, e) \ {r}
         /\ \A w : TurnedAway(w)' \ {r} = TurnedAway(w) \ {r}
         /\ Measured' \ {r} = Measured \ {r}
         /\ Matched' \ {r} = Matched \ {r}
         /\ Truncated' \ {r} = Truncated \ {r}
<1>1. \A c : CountedAs(c)' \ {r} = CountedAs(c) \ {r}
  BY DEF OneMoves, CountedAs, class
<1>2. \A c, e : TimedAs(c, e)' \ {r} = TimedAs(c, e) \ {r}
  BY DEF OneMoves, TimedAs, class
<1>3. \A w : TurnedAway(w)' \ {r} = TurnedAway(w) \ {r}
  BY DEF OneMoves, TurnedAway
<1>4. Measured' \ {r} = Measured \ {r}
  BY DEF OneMoves, Measured, Late
<1>5. Matched' \ {r} = Matched \ {r}
  BY DEF OneMoves, Matched
<1>6. Truncated' \ {r} = Truncated \ {r}
  BY DEF OneMoves, Truncated
<1>7. QED
  BY <1>1, <1>2, <1>3, <1>4, <1>5, <1>6

(* A metric that a step leaves alone stays exact if the sets of requests   *)
(* it counts stay the same, for each of the six metrics.                   *)
LEMMA RequestsStay ==
  ASSUME Shape, RequestsExact, NEW r \in Requests, OneMoves(r),
         UNCHANGED requests_total,
         pc[r] \in {"counted", "answered"} => answer'[r] = answer[r],
         pc[r] \in {"counted", "answered"} <=> pc'[r] \in {"counted", "answered"}
  PROVE  RequestsExact'
<1>1. \A c : r \in CountedAs(c)' <=> r \in CountedAs(c)
  BY DEF CountedAs, class
<1>2. \A c : CountedAs(c)' = CountedAs(c)
  BY <1>1, SetsStay
<1>3. QED
  BY <1>2 DEF RequestsExact

(* A request that moves without being answered changes no duration's       *)
(* account ...                                                             *)
LEMMA DurationStays ==
  ASSUME Shape, DurationExact, NEW r \in Requests, OneMoves(r),
         UNCHANGED request_duration,
         pc[r] = "answered" => answer'[r] = answer[r],
         pc[r] = "answered" <=> pc'[r] = "answered"
  PROVE  DurationExact'
<1>1. \A c, e : r \in TimedAs(c, e)' <=> r \in TimedAs(c, e)
  BY DEF TimedAs, class, OneMoves
<1>2. \A c, e : TimedAs(c, e)' = TimedAs(c, e)
  BY <1>1, SetsStay
<1>3. QED
  BY <1>2 DEF DurationExact

(* ... nor, unless it fails authentication, the failures' ...              *)
LEMMA FailuresStay ==
  ASSUME Shape, FailuresExact, NEW r \in Requests, OneMoves(r),
         UNCHANGED auth_failures,
         answer'[r] = "unauthorized" <=> answer[r] = "unauthorized"
  PROVE  FailuresExact'
<1>1. \A w : r \in TurnedAway(w)' <=> r \in TurnedAway(w)
  BY DEF TurnedAway, OneMoves
<1>2. \A w : TurnedAway(w)' = TurnedAway(w)
  BY <1>1, SetsStay
<1>3. QED
  BY <1>2 DEF FailuresExact

(* ... nor, unless its text is read, the input sizes' ...                  *)
LEMMA InputStays ==
  ASSUME Shape, InputExact, NEW r \in Requests, OneMoves(r),
         UNCHANGED input_bytes,
         Gated(kind[r]) => ((pc'[r] = "measured" \/ Late(r)') <=> (pc[r] = "measured" \/ Late(r)))
  PROVE  InputExact'
<1>1. r \in Measured' <=> r \in Measured
  BY DEF Measured, OneMoves
<1>2. Measured' = Measured
  BY <1>1, SetsStay
<1>3. QED
  BY <1>2 DEF InputExact

(* ... nor, unless its scan ends, the matches' ...                         *)
LEMMA MatchesStay ==
  ASSUME Shape, MatchesExact, NEW r \in Requests, OneMoves(r),
         UNCHANGED matches_per_request,
         Gated(kind[r]) => (answer'[r] = "ok" <=> answer[r] = "ok")
  PROVE  MatchesExact'
<1>1. r \in Matched' <=> r \in Matched
  BY DEF Matched, OneMoves
<1>2. Matched' = Matched
  BY <1>1, SetsStay
<1>3. QED
  BY <1>2 DEF MatchesExact

(* ... nor the truncated ones'.                                            *)
LEMMA TruncatedStays ==
  ASSUME Shape, TruncateExact, NEW r \in Requests, OneMoves(r),
         UNCHANGED truncated_total,
         Gated(kind[r]) /\ kind[r].cut =>
           ((answer'[r] = "ok" /\ pc'[r] # "cut") <=> (answer[r] = "ok" /\ pc[r] # "cut"))
  PROVE  TruncateExact'
<1>1. r \in Truncated' <=> r \in Truncated
  BY DEF Truncated, OneMoves
<1>2. Truncated' = Truncated
  BY <1>1, SetsStay
<1>3. QED
  BY <1>2 DEF TruncateExact

(* A step that records nothing and leads to no answer that a metric counts. *)
LEMMA QuietAccounts ==
  ASSUME Shape, Accounts, NEW r \in Requests, OneMoves(r), UNCHANGED metrics,
         {pc[r], pc'[r]} \cap {"measured", "cut", "counted", "answered"} = {},
         \/ answer'[r] = answer[r]
         \/ /\ answer[r] = "none"
            /\ answer'[r] # "unauthorized"
            /\ Gated(kind[r]) => answer'[r] # "ok" /\ ~Late(r)'
  PROVE  Accounts'
<1>1. kind'[r] = kind[r]
  BY DEF OneMoves
<1>2. UNCHANGED <<requests_total, request_duration, auth_failures, input_bytes,
                  matches_per_request, truncated_total>>
  BY DEF metrics, red, checked
<1>3. RequestsExact'
  BY <1>2, RequestsStay DEF Accounts
<1>4. DurationExact'
  BY <1>2, DurationStays DEF Accounts
<1>5. FailuresExact'
  BY <1>2, FailuresStay DEF Accounts
<1>6. InputExact'
  BY <1>1, <1>2, InputStays DEF Accounts, Late
<1>7. MatchesExact'
  BY <1>2, MatchesStay DEF Accounts
<1>8. TruncateExact'
  BY <1>2, TruncatedStays DEF Accounts
<1>9. QED
  BY <1>3, <1>4, <1>5, <1>6, <1>7, <1>8 DEF Accounts

(* Every step keeps the accounts: either nobody enters a counted set and   *)
(* no metric moves, or one request does, and its metric is incremented.    *)
LEMMA StepAccounts == Shape /\ Accounts /\ [Next]_vars => Accounts'
<1> SUFFICES ASSUME Shape, Accounts, NEW r \in Requests, Step(r) PROVE Accounts'
  <2>1. CASE UNCHANGED vars
    BY <2>1 DEF vars, perRequest, metrics, red, checked, Accounts, RequestsExact,
       DurationExact, FailuresExact, InputExact, MatchesExact, TruncateExact, CountedAs,
       TimedAs, TurnedAway, Measured, Matched, Truncated, class, Late
  <2>2. QED
    BY <2>1 DEF Next, Step
<1>1. /\ OneMoves(r) /\ Placed(r) /\ kind' = kind /\ Placed(r)'
      /\ DOMAIN pc = Requests /\ DOMAIN answer = Requests
  BY StepMovesOne, StepShape DEF OneMoves, Shape, Typed, Next, Step
<1>2. CASE \/ Send(r) \/ ReachGate(r) \/ Admit(r) \/ BodyRead(r) \/ Disconnect(r)
           \/ Retract(r)
  BY <1>1, <1>2, QuietAccounts
  DEF Send, ReachGate, Admit, BodyRead, Disconnect, Retract, Goto
<1>3. CASE DropGuard(r)
  BY <1>1, <1>3, QuietAccounts DEF DropGuard
<1>4. CASE LengthRefused(r) \/ Served(r) \/ Refuse(r) \/ BodyOverLimit(r) \/ BodyBroken(r)
  BY <1>1, <1>4, QuietAccounts DEF LengthRefused, Served, Refuse, BodyOverLimit, BodyBroken, Answer, Late,
     OverDeclared, remap_413, Placed, AtGate
<1>5. CASE RefusedUnmeasured(r)
  BY <1>1, <1>5, QuietAccounts, SameOrder DEF RefusedUnmeasured, Answer, Late, Placed
<1>6. CASE Unauthorized(r)
  <2>1. /\ answer[r] = "none" /\ answer'[r] = "unauthorized" /\ pc[r] = "received"
        /\ pc'[r] = "answering"
        /\ UNCHANGED <<requests_total, request_duration, input_bytes, matches_per_request,
                       truncated_total>>
    BY <1>1, <1>6 DEF Unauthorized, Answer, Placed, red, checked
  <2>2. ASSUME NEW w \in Reasons
        PROVE  auth_failures'[w] = Cardinality(TurnedAway(w)')
    <3>1. CASE w = kind[r].cred
      <4>1. r \notin TurnedAway(w) /\ TurnedAway(w)' = TurnedAway(w) \cup {r}
        BY <1>1, <2>1, <3>1, SetsStay DEF TurnedAway
      <4>2. Cardinality(TurnedAway(w)') = Cardinality(TurnedAway(w)) + 1
        BY <4>1, OneMore DEF TurnedAway
      <4>3. QED
        BY <1>6, <3>1, <4>2 DEF Unauthorized, Accounts, FailuresExact
    <3>2. CASE w # kind[r].cred
      <4>1. TurnedAway(w)' = TurnedAway(w)
        BY <1>1, <2>1, <3>2, SetsStay DEF TurnedAway
      <4>2. QED
        BY <1>6, <3>2, <4>1 DEF Unauthorized, Accounts, FailuresExact
    <3>3. QED
      BY <3>1, <3>2
  <2>3. FailuresExact'
    BY <1>6, <2>2, CountsStay DEF Unauthorized, Accounts, FailuresExact
  <2>4. RequestsExact' /\ DurationExact'
    BY <1>1, <2>1, RequestsStay, DurationStays DEF Accounts
  <2>5. InputExact' /\ MatchesExact' /\ TruncateExact'
    BY <1>1, <2>1, InputStays, MatchesStay, TruncatedStays DEF Accounts, Late
  <2>6. QED
    BY <2>3, <2>4, <2>5 DEF Accounts
<1>7. CASE RecordInputBytes(r)
  <2>1. /\ answer' = answer /\ answer[r] = "none" /\ Gated(kind[r])
        /\ pc[r] = "validating" /\ pc'[r] = "measured"
        /\ UNCHANGED <<requests_total, request_duration, auth_failures, matches_per_request,
                       truncated_total>>
    BY <1>1, <1>7 DEF RecordInputBytes, Goto, Placed, AtGate, red
  <2>2. r \notin Measured /\ Measured' = Measured \cup {r}
    BY <1>1, <2>1, SetsStay DEF Measured, Late
  <2>3. Cardinality(Measured') = Cardinality(Measured) + 1
    BY <2>2, OneMore DEF Measured
  <2>4. InputExact'
    BY <1>7, <2>3 DEF RecordInputBytes, Accounts, InputExact
  <2>5. RequestsExact' /\ DurationExact' /\ FailuresExact'
    BY <1>1, <2>1, RequestsStay, DurationStays, FailuresStay DEF Accounts
  <2>6. MatchesExact' /\ TruncateExact'
    BY <1>1, <2>1, MatchesStay, TruncatedStays DEF Accounts
  <2>7. QED
    BY <2>4, <2>5, <2>6 DEF Accounts
<1>8. CASE RefusedMeasured(r)
  <2>1. /\ answer[r] = "none" /\ Gated(kind[r]) /\ kind[r].size = "fits"
        /\ pc[r] = "measured" /\ pc'[r] = "leaving"
        /\ UNCHANGED <<requests_total, request_duration, auth_failures, input_bytes,
                       matches_per_request, truncated_total>>
    BY <1>1, <1>8 DEF RefusedMeasured, Answer, Placed, AtGate, metrics, red, checked
  <2>2. answer'[r] \in {"invalid_mode", "empty_langs", "unknown_language", "payload_too_large"}
    BY <1>1, <1>8, SameOrder DEF RefusedMeasured, Answer
  <2>3. RequestsExact' /\ DurationExact' /\ FailuresExact'
    BY <1>1, <2>1, <2>2, RequestsStay, DurationStays, FailuresStay DEF Accounts
  <2>4. Late(r)'
    BY <1>1, <2>1, <2>2 DEF Late
  <2>5. InputExact'
    BY <1>1, <2>1, <2>4, InputStays DEF Accounts
  <2>6. MatchesExact' /\ TruncateExact'
    BY <1>1, <2>1, <2>2, MatchesStay, TruncatedStays DEF Accounts
  <2>7. QED
    BY <2>3, <2>5, <2>6 DEF Accounts
<1>9. CASE RecordMatches(r)
  <2>1. /\ answer[r] = "none" /\ answer'[r] = "ok" /\ Gated(kind[r])
        /\ pc[r] = "measured" /\ pc'[r] = IF kind[r].cut THEN "cut" ELSE "leaving"
        /\ UNCHANGED <<requests_total, request_duration, auth_failures, input_bytes,
                       truncated_total>>
    BY <1>1, <1>9 DEF RecordMatches, Answer, Placed, AtGate, red
  <2>2. r \notin Matched /\ Matched' = Matched \cup {r}
    BY <1>1, <2>1, SetsStay DEF Matched
  <2>3. Cardinality(Matched') = Cardinality(Matched) + 1
    BY <2>2, OneMore DEF Matched
  <2>4. MatchesExact'
    BY <1>9, <2>3 DEF RecordMatches, Accounts, MatchesExact
  <2>5. RequestsExact' /\ DurationExact' /\ FailuresExact'
    BY <1>1, <2>1, RequestsStay, DurationStays, FailuresStay DEF Accounts
  <2>6. InputExact' /\ TruncateExact'
    BY <1>1, <2>1, InputStays, TruncatedStays DEF Accounts, Late
  <2>7. QED
    BY <2>4, <2>5, <2>6 DEF Accounts
<1>10. CASE RecordTruncated(r)
  <2>1. /\ answer' = answer /\ answer[r] = "ok" /\ Gated(kind[r]) /\ kind[r].cut
        /\ pc[r] = "cut" /\ pc'[r] = "leaving"
        /\ UNCHANGED <<requests_total, request_duration, auth_failures, input_bytes,
                       matches_per_request>>
    BY <1>1, <1>10 DEF RecordTruncated, Goto, Placed, AtGate, red
  <2>2. r \notin Truncated /\ Truncated' = Truncated \cup {r}
    BY <1>1, <2>1, SetsStay DEF Truncated
  <2>3. Cardinality(Truncated') = Cardinality(Truncated) + 1
    BY <2>2, OneMore DEF Truncated
  <2>4. TruncateExact'
    BY <1>10, <2>3 DEF RecordTruncated, Accounts, TruncateExact
  <2>5. RequestsExact' /\ DurationExact' /\ FailuresExact'
    BY <1>1, <2>1, RequestsStay, DurationStays, FailuresStay DEF Accounts
  <2>6. InputExact' /\ MatchesExact'
    BY <1>1, <2>1, InputStays, MatchesStay DEF Accounts, Late
  <2>7. QED
    BY <2>4, <2>5, <2>6 DEF Accounts
<1>11. CASE CountRequest(r)
  <2>1. /\ answer' = answer /\ pc[r] = "answering" /\ pc'[r] = "counted"
        /\ class(r)' = class(r)
        /\ UNCHANGED <<request_duration, auth_failures, input_bytes, matches_per_request,
                       truncated_total>>
    BY <1>1, <1>11 DEF CountRequest, Goto, checked, class
  <2>2. ASSUME NEW c \in Classes
        PROVE  requests_total'[c] = Cardinality(CountedAs(c)')
    <3>1. CASE c = class(r)
      <4>1. r \notin CountedAs(c) /\ CountedAs(c)' = CountedAs(c) \cup {r}
        BY <1>1, <2>1, <3>1, SetsStay DEF CountedAs
      <4>2. Cardinality(CountedAs(c)') = Cardinality(CountedAs(c)) + 1
        BY <4>1, OneMore DEF CountedAs
      <4>3. QED
        BY <1>11, <3>1, <4>2 DEF CountRequest, Accounts, RequestsExact
    <3>2. CASE c # class(r)
      <4>1. CountedAs(c)' = CountedAs(c)
        BY <1>1, <2>1, <3>2, SetsStay DEF CountedAs
      <4>2. QED
        BY <1>11, <3>2, <4>1 DEF CountRequest, Accounts, RequestsExact
    <3>3. QED
      BY <3>1, <3>2
  <2>3. RequestsExact'
    BY <1>11, <2>2, CountsStay DEF CountRequest, Accounts, RequestsExact
  <2>4. DurationExact' /\ FailuresExact'
    BY <1>1, <2>1, DurationStays, FailuresStay DEF Accounts
  <2>5. InputExact' /\ MatchesExact' /\ TruncateExact'
    BY <1>1, <2>1, InputStays, MatchesStay, TruncatedStays DEF Accounts, Late
  <2>6. QED
    BY <2>3, <2>4, <2>5 DEF Accounts
<1>12. CASE RecordDuration(r)
  <2>1. /\ answer' = answer /\ pc[r] = "counted" /\ pc'[r] = "answered"
        /\ class(r)' = class(r)
        /\ UNCHANGED <<requests_total, auth_failures, input_bytes, matches_per_request,
                       truncated_total>>
    BY <1>1, <1>12 DEF RecordDuration, Goto, checked, class
  <2>2. ASSUME NEW c \in Classes, NEW e \in Endpoints
        PROVE  request_duration'[<<c, e>>] = Cardinality(TimedAs(c, e)')
    <3>1. CASE c = class(r) /\ e = classify_endpoint(kind[r].path)
      <4>1. r \notin TimedAs(c, e) /\ r \in TimedAs(c, e)'
        BY <1>1, <2>1, <3>1 DEF TimedAs
      <4>2. TimedAs(c, e)' \ {r} = TimedAs(c, e) \ {r}
        BY <1>1, SetsStay
      <4>3. TimedAs(c, e)' = TimedAs(c, e) \cup {r}
        BY <4>1, <4>2
      <4>4. Cardinality(TimedAs(c, e)') = Cardinality(TimedAs(c, e)) + 1
        BY <4>1, <4>3, OneMore DEF TimedAs
      <4>5. QED
        BY <1>12, <3>1, <4>4 DEF RecordDuration, Accounts, DurationExact
    <3>2. CASE ~(c = class(r) /\ e = classify_endpoint(kind[r].path))
      <4>1. TimedAs(c, e)' = TimedAs(c, e)
        BY <1>1, <2>1, <3>2, SetsStay DEF TimedAs
      <4>2. QED
        BY <1>12, <3>2, <4>1 DEF RecordDuration, Accounts, DurationExact
    <3>3. QED
      BY <3>1, <3>2
  <2>3. DurationExact'
    BY <1>12, <2>2, CountsStay DEF RecordDuration, Accounts, DurationExact
  <2>4. RequestsExact' /\ FailuresExact'
    BY <1>1, <2>1, RequestsStay, FailuresStay DEF Accounts
  <2>5. InputExact' /\ MatchesExact' /\ TruncateExact'
    BY <1>1, <2>1, InputStays, MatchesStay, TruncatedStays DEF Accounts, Late
  <2>6. QED
    BY <2>3, <2>4, <2>5 DEF Accounts
<1>13. QED
  BY <1>2, <1>3, <1>4, <1>5, <1>6, <1>7, <1>8, <1>9, <1>10, <1>11, <1>12
  DEF Step, ServerStep, ClientStep

(* The slots, in the server's own stages. *)
Holding == At({"over", "reading", "validating", "measured", "cut", "leaving"})

(* The counter is the number of requests that hold a slot.                 *)
LEMMA SlotsInServer ==
  ASSUME Typed, GateProofs!CounterExact
  PROVE  inflight = Cardinality(Holding)
<1>1. GateProofs!Counted = Holding
  BY DEF Typed, Stages, GateProofs!Counted, GateProofs!Guarded, GateProofs!Refusing,
         GateProofs!At, GatePc, GateStage, Holding, At
<1>2. QED
  BY <1>1, SameCardinality DEF GateProofs!CounterExact

SlotsExact == inflight = Cardinality(Holding)

(* The invariants together.                                                *)
LEMMA InvAlways == SafetySpec => [](Shape /\ Accounts /\ SlotsExact)
<1>1. SafetySpec => [](Shape /\ Accounts)
  BY InitShape, StepShape, InitAccounts, StepAccounts, PTL DEF SafetySpec
<1>2. Typed /\ GateProofs!CounterExact => SlotsExact
  BY SlotsInServer DEF SlotsExact
<1>3. QED
  BY <1>1, <1>2, TypedAlways, GateInvariants, PTL

Inside == At({"reading", "validating", "measured", "cut", "leaving"})

(* No more than VV_MAX_INFLIGHT requests are inside the handler, or on     *)
(* their way out of it, whatever layers and handler do.                    *)
THEOREM CapInServer == SafetySpec => [](Cardinality(Inside) <= MaxInflight)
<1>1. ASSUME Typed, GateProofs!AtMostMaxGuarded
      PROVE  Cardinality(Inside) <= MaxInflight
  <2>1. GateProofs!Guarded = Inside
    BY <1>1 DEF Typed, Stages, GateProofs!Guarded, GateProofs!At, GatePc, GateStage, Inside, At
  <2>2. QED
    BY <1>1, <2>1, SameCardinality DEF GateProofs!AtMostMaxGuarded
<1>2. QED
  BY <1>1, TypedAlways, GateInvariants, PTL

(* The counters stay between zero and the number of requests. *)
THEOREM TypeCorrect == SafetySpec => []TypeOK
<1>1. ASSUME Shape, Accounts, SlotsExact PROVE TypeOK
  <2>1. inflight \in 0 .. Cardinality(Requests)
    BY <1>1, FiniteSubsets DEF SlotsExact, Holding, At
  <2>2. requests_total \in [Classes -> 0 .. Cardinality(Requests)]
    BY <1>1, FiniteSubsets DEF Accounts, RequestsExact, CountedAs
  <2>3. request_duration \in [Classes \X Endpoints -> 0 .. Cardinality(Requests)]
    <3>1. ASSUME NEW l \in Classes \X Endpoints
          PROVE  request_duration[l] \in 0 .. Cardinality(Requests)
      <4>1. PICK c \in Classes, e \in Endpoints : l = <<c, e>>
        OBVIOUS
      <4>2. TimedAs(c, e) \in SUBSET Requests
        BY DEF TimedAs
      <4>3. QED
        BY <1>1, <4>1, <4>2, FiniteSubsets DEF Accounts, DurationExact
    <3>2. QED
      BY <1>1, <3>1 DEF Accounts, DurationExact
  <2>4. auth_failures \in [Reasons -> 0 .. Cardinality(Requests)]
    BY <1>1, FiniteSubsets DEF Accounts, FailuresExact, TurnedAway
  <2>5. /\ input_bytes \in 0 .. Cardinality(Requests)
        /\ matches_per_request \in 0 .. Cardinality(Requests)
        /\ truncated_total \in 0 .. Cardinality(Requests)
    BY <1>1, FiniteSubsets DEF Accounts, InputExact, MatchesExact, TruncateExact, Measured,
       Matched, Truncated
  <2>6. QED
    BY <1>1, <2>1, <2>2, <2>3, <2>4, <2>5 DEF TypeOK, Shape, Typed
<1>2. QED
  BY <1>1, InvAlways, PTL

(* Whatever the requests did, the metrics of a quiet server add up. *)
THEOREM AccountsAddUp == SafetySpec => []QuiescentAccounts
<1>1. ASSUME Shape, Accounts, SlotsExact PROVE QuiescentAccounts
  <2> SUFFICES ASSUME At({"new", "answered", "gone"}) = Requests PROVE QuiescentAccounts
    BY DEF QuiescentAccounts
  <2> DEFINE Answered == At({"answered"})
             Checked  == {r \in Ended("ok") : Gated(kind[r])}
  <2>1. \A r \in Requests : /\ pc[r] \in {"new", "answered", "gone"}
                            /\ pc[r] # "answered" => answer[r] = "none"
    BY <1>1 DEF At, Shape, Placed
  <2>2. \A c : CountedAs(c) = {r \in Answered : class(r) = c}
    BY <2>1 DEF CountedAs, At
  <2>3. \A c, e : TimedAs(c, e) = {r \in Answered :
                     class(r) = c /\ classify_endpoint(kind[r].path) = e}
    BY DEF TimedAs, At
  <2>4. \A w : TurnedAway(w) = {r \in Ended("unauthorized") : kind[r].cred = w}
    BY <2>1 DEF TurnedAway, Ended, At
  <2>5. Measured = {r \in Answered : Gated(kind[r]) /\ Late(r)}
    BY <2>1 DEF Measured, Late, At
  <2>6. Matched = Checked
    BY <2>1 DEF Matched, Ended, At
  <2>7. Truncated = {r \in Checked : kind[r].cut}
    BY <2>1 DEF Truncated, Ended, At
  <2>8. inflight = 0
    <3>1. Holding = {}
      BY <2>1 DEF Holding, At
    <3>2. QED
      BY <1>1, <3>1, FS_EmptySet DEF SlotsExact
  <2>9. QED
    BY <1>1, <2>2, <2>3, <2>4, <2>5, <2>6, <2>7, <2>8
    DEF QuiescentAccounts, Accounts, RequestsExact, DurationExact, FailuresExact, InputExact,
        MatchesExact, TruncateExact
<1>2. QED
  BY <1>1, InvAlways, PTL

(* At no moment does one metric deny another. *)
THEOREM NoContradiction == SafetySpec => []CountersNeverContradict
<1>1. classify_status(Status("unauthorized")) = "4xx"
  <2>1. Status("unauthorized") = 401
    BY Zenon DEF Status
  <2>2. QED
    BY <2>1 DEF classify_status
<1>2. ASSUME Shape, Accounts PROVE CountersNeverContradict
  <2>1. truncated_total <= matches_per_request
    <3>1. Truncated \subseteq Matched /\ Matched \subseteq Requests
      BY DEF Truncated, Matched
    <3>2. QED
      BY <1>2, <3>1, FiniteSubsets, FS_Subset DEF Accounts, MatchesExact, TruncateExact
  <2>2. matches_per_request <= input_bytes
    <3>1. Matched \subseteq Measured /\ Measured \subseteq Requests
      BY DEF Matched, Measured, Late
    <3>2. QED
      BY <1>2, <3>1, FiniteSubsets, FS_Subset DEF Accounts, MatchesExact, InputExact
  <2>3. ASSUME NEW c \in Classes, NEW e \in Endpoints
        PROVE  request_duration[<<c, e>>] <= requests_total[c]
    <3>1. TimedAs(c, e) \subseteq CountedAs(c) /\ CountedAs(c) \subseteq Requests
      BY DEF TimedAs, CountedAs
    <3>2. QED
      BY <1>2, <3>1, FiniteSubsets, FS_Subset DEF Accounts, DurationExact, RequestsExact
  <2>4. auth_failures["missing"] + auth_failures["invalid"]
          <= requests_total["4xx"] + Cardinality(At({"answering"}))
    <3> DEFINE Missing == TurnedAway("missing")
               Invalid == TurnedAway("invalid")
               Known   == CountedAs("4xx")
               OnTheWay == At({"answering"})
    <3>1. /\ Missing \in SUBSET Requests /\ Invalid \in SUBSET Requests
          /\ Known \in SUBSET Requests /\ OnTheWay \in SUBSET Requests
          /\ Missing \cup Invalid \in SUBSET Requests
          /\ Known \cup OnTheWay \in SUBSET Requests
      BY DEF TurnedAway, CountedAs, At
    <3>2. Missing \cap Invalid = {}
      BY DEF TurnedAway
    <3>3. Missing \cup Invalid \subseteq Known \cup OnTheWay
      <4> SUFFICES ASSUME NEW r \in Requests, answer[r] = "unauthorized"
                   PROVE  r \in Known \cup OnTheWay
        BY DEF TurnedAway
      <4>1. answer[r] \notin {"none", "ok", "overloaded"}
        OBVIOUS
      <4>2. pc[r] \in {"answering", "counted", "answered", "leaving"}
        BY <1>2, <4>1 DEF Shape, Placed, Typed, Stages
      <4>3. pc[r] # "leaving"
        BY <1>2, SameOrder DEF Shape, Placed, AtGate, Due, Verdict, Passed, NeedsAuth,
           OverDeclared, Gated, V1Paths
      <4>4. class(r) = "4xx"
        BY <1>1 DEF class
      <4>5. QED
        BY <4>2, <4>3, <4>4 DEF CountedAs, At
    <3> HIDE DEF Missing, Invalid, Known, OnTheWay
    <3>4. Cardinality(Missing \cup Invalid) = Cardinality(Missing) + Cardinality(Invalid)
      <4>1. Cardinality(Missing \cup Invalid) =
              Cardinality(Missing) + Cardinality(Invalid) - Cardinality(Missing \cap Invalid)
        BY <3>1, FiniteSubsets, FS_Union
      <4>2. Cardinality(Missing \cap Invalid) = 0
        BY <3>2, FS_EmptySet
      <4>3. Cardinality(Missing) \in Nat /\ Cardinality(Invalid) \in Nat
        BY <3>1, FiniteSubsets
      <4>4. QED
        BY <4>1, <4>2, <4>3
    <3>5. Cardinality(Known \cup OnTheWay) <= Cardinality(Known) + Cardinality(OnTheWay)
      <4>1. Cardinality(Known \cup OnTheWay) =
              Cardinality(Known) + Cardinality(OnTheWay) - Cardinality(Known \cap OnTheWay)
        BY <3>1, FiniteSubsets, FS_Union
      <4>2. Known \cap OnTheWay \in SUBSET Requests
        BY <3>1
      <4>3. /\ Cardinality(Known) \in Nat /\ Cardinality(OnTheWay) \in Nat
            /\ Cardinality(Known \cap OnTheWay) \in Nat
        BY <3>1, <4>2, FiniteSubsets
      <4>4. QED
        BY <4>1, <4>3
    <3>6. Cardinality(Missing \cup Invalid) <= Cardinality(Known \cup OnTheWay)
      BY <3>1, <3>3, FiniteSubsets, FS_Subset
    <3>7. /\ auth_failures["missing"] = Cardinality(Missing)
          /\ auth_failures["invalid"] = Cardinality(Invalid)
          /\ requests_total["4xx"] = Cardinality(Known)
      BY <1>2 DEF Accounts, FailuresExact, RequestsExact, Reasons, Classes, Missing, Invalid, Known
    <3>8. QED
      BY <3>1, <3>4, <3>5, <3>6, <3>7, FiniteSubsets DEF OnTheWay
  <2>5. QED
    BY <2>1, <2>2, <2>3, <2>4 DEF CountersNeverContradict
<1>3. QED
  BY <1>2, InvAlways, PTL

(* The gate's refusals in the server: whoever is answered 503, as many     *)
(* others as VV_MAX_INFLIGHT hold a place in the counter at that moment,   *)
(* whatever the layers and the handler do.                                 *)
THEOREM RefusalsInServer ==
  SafetySpec => [][\A r \in Requests : (pc[r] = "arrived" /\ pc'[r] = "over")
                      => Cardinality(Holding \ {r}) >= MaxInflight]_vars
<1> DEFINE Q == \A r \in Requests : (pc[r] = "arrived" /\ pc'[r] = "over")
                      => Cardinality(Holding \ {r}) >= MaxInflight
           G == \A r \in Requests : (GatePc[r] = "arrived" /\ GatePc'[r] = "over")
                      => GateProofs!Cardinality(GateProofs!Counted \ {r}) >= MaxInflight
<1>1. GateProofs!GateAssumption
  BY ServerAssumption, SameFinite, SameCardinality DEF ServerAssumption, GateProofs!GateAssumption
<1>2. GateProofs!SafetySpec => GateProofs!RefusedOnlyWhenCounted
  BY <1>1, GateProofs!RefusalsAreJustified
<1>3. ASSUME Typed, Typed', [G]_(GateProofs!vars) PROVE [Q]_vars
  <2>1. GateProofs!Counted = Holding
    BY <1>3 DEF Typed, Stages, GateProofs!Counted, GateProofs!Guarded, GateProofs!Refusing,
         GateProofs!At, GatePc, GateStage, Holding, At
  <2>2. ASSUME NEW r \in Requests, pc[r] = "arrived", pc'[r] = "over"
        PROVE  GatePc[r] = "arrived" /\ GatePc'[r] = "over" /\ GatePc' # GatePc
    BY <2>2 DEF GatePc, GateStage
  <2>3. QED
    BY <1>3, <2>1, <2>2, SameCardinality DEF GateProofs!vars
<1>4. QED
  BY <1>2, <1>3, TypedAlways, ServerImplementsGate, SameGate, PTL
     DEF ImplementsGate, GateProofs!RefusedOnlyWhenCounted

(* Refinements compose: the server as a whole keeps what the abstract      *)
(* promise says of admission.                                              *)
THEOREM ServerImplementsAdmission == SafetySpec => GateProofs!Promise!SafetySpec
<1>1. GateProofs!GateAssumption
  BY ServerAssumption, SameFinite, SameCardinality DEF ServerAssumption, GateProofs!GateAssumption
<1>2. GateProofs!SafetySpec => GateProofs!Promise!SafetySpec
  BY <1>1, GateProofs!GateImplementsAdmission
<1>3. QED
  BY <1>2, ServerImplementsGate, SameGate, PTL DEF ImplementsGate
=============================================================================
