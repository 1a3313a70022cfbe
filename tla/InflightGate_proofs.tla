------------------------- MODULE InflightGate_proofs -------------------------
(***************************************************************************)
(* Theorems about InflightGate, for every finite set of requests and every *)
(* cap, zero included.                                                     *)
(*                                                                         *)
(* The inductive invariant is Inv: the type of the state, the counter's    *)
(* exactness, and the cap.  The cap alone is not inductive: that Admit     *)
(* finds room follows from its test of the COUNTER only because the        *)
(* counter is at least the number of guards, which is CounterExact.        *)
(***************************************************************************)
EXTENDS InflightGate, FiniteSetTheorems, TLAPS

Typed == pc \in [Requests -> Stages]

Inv == Typed /\ CounterExact /\ AtMostMaxGuarded
-------------------------------------------------------------------------------
(* The sets of requests are finite, and the parts no larger than the whole. *)
LEMMA SetsFinite ==
  /\ IsFiniteSet(Counted) /\ IsFiniteSet(Guarded)
  /\ Cardinality(Counted) \in 0 .. Cardinality(Requests)
  /\ Cardinality(Guarded) \in Nat
  /\ Cardinality(Guarded) <= Cardinality(Counted)
  /\ Cardinality(Counted) <= MaxUsize
  /\ Cardinality(Requests) \in Nat
<1>1. /\ Counted \subseteq Requests
      /\ Guarded \subseteq Counted
  BY DEF Counted, Guarded, Refusing, At
<1>2. IsFiniteSet(Requests)
  BY GateAssumption
<1>3. IsFiniteSet(Counted) /\ Cardinality(Counted) <= Cardinality(Requests)
  BY <1>1, <1>2, FS_Subset
<1>4. IsFiniteSet(Guarded) /\ Cardinality(Guarded) <= Cardinality(Counted)
  BY <1>1, <1>3, FS_Subset
<1>5. /\ Cardinality(Counted) \in Nat
      /\ Cardinality(Guarded) \in Nat
      /\ Cardinality(Requests) \in Nat
  BY <1>2, <1>3, <1>4, FS_CardinalityType
<1>6. QED
  BY <1>3, <1>4, <1>5, GateAssumption

(* A request that does its fetch_add enters Counted: it was not there. *)
LEMMA EntersCounted ==
  ASSUME Typed, CounterExact, NEW r \in Requests, r \notin Counted,
         Counted' = Counted \cup {r}, inflight' = Plus1(inflight)
  PROVE  CounterExact'
<1>1. Cardinality(Counted') = Cardinality(Counted) + 1
  BY SetsFinite, FS_AddElement
<1>2. Counted' \subseteq Requests
  BY DEF Counted, Guarded, Refusing, At
<1>3. Cardinality(Counted') <= Cardinality(Requests)
  BY <1>2, GateAssumption, FS_Subset
<1>4. inflight # MaxUsize
  BY <1>1, <1>3, SetsFinite, GateAssumption DEF CounterExact
<1>5. QED
  BY <1>1, <1>4 DEF CounterExact, Plus1

(* A request that does its fetch_sub leaves Counted: it was there, so the *)
(* counter was not zero.                                                  *)
LEMMA LeavesCounted ==
  ASSUME Typed, CounterExact, NEW r \in Requests, r \in Counted,
         Counted' = Counted \ {r}, inflight' = Minus1(inflight)
  PROVE  CounterExact'
<1>1. Cardinality(Counted') = Cardinality(Counted) - 1
  BY SetsFinite, FS_RemoveElement
<1>2. Cardinality(Counted) # 0
  BY SetsFinite, FS_EmptySet
<1>3. QED
  BY <1>1, <1>2 DEF CounterExact, Minus1

(* Guards that are dropped, or a step that leaves them alone, keep the cap. *)
LEMMA FewerGuards ==
  ASSUME AtMostMaxGuarded, Guarded' \subseteq Guarded
  PROVE  AtMostMaxGuarded'
<1>1. Cardinality(Guarded') <= Cardinality(Guarded)
  BY SetsFinite, FS_Subset
<1>2. Cardinality(Guarded') \in Nat
  BY SetsFinite, FS_Subset, FS_CardinalityType
<1>3. QED
  BY <1>1, <1>2, SetsFinite, GateAssumption DEF AtMostMaxGuarded
-------------------------------------------------------------------------------
(* The invariant holds when the server starts: nobody is counted. *)
LEMMA InitInv == Init => Inv
<1> SUFFICES ASSUME Init PROVE Inv
  OBVIOUS
<1>1. Typed
  BY DEF Init, Typed, Stages
<1>2. Counted = {} /\ Guarded = {}
  BY DEF Init, Counted, Guarded, Refusing, At
<1>3. CounterExact
  BY <1>2, FS_EmptySet DEF Init, CounterExact
<1>4. AtMostMaxGuarded
  BY <1>2, FS_EmptySet, GateAssumption DEF AtMostMaxGuarded
<1>5. QED
  BY <1>1, <1>3, <1>4 DEF Inv

(* Every action keeps it: fetch_add and fetch_sub move the counter and the *)
(* set Counted together, and only Admit adds a guard.                      *)
LEMMA StepInv == Inv /\ [Next]_vars => Inv'
<1> SUFFICES ASSUME Inv, [Next]_vars PROVE Inv'
  OBVIOUS
<1> USE DEF Inv
<1>1. ASSUME NEW r \in Requests, Arrive(r) PROVE Inv'
  <2>1. Typed'
    BY <1>1 DEF Arrive, Goto, Typed, Stages
  <2>2. Counted' = Counted /\ Guarded' = Guarded
    BY <1>1 DEF Arrive, Goto, Typed, Counted, Guarded, Refusing, At
  <2>3. CounterExact'
    BY <1>1, <2>2 DEF Arrive, CounterExact
  <2>4. QED
    BY <2>1, <2>2, <2>3, FewerGuards
<1>2. ASSUME NEW r \in Requests, Admit(r) PROVE Inv'
  <2>1. Typed'
    BY <1>2 DEF Admit, Goto, Typed, Stages
  <2>2. /\ r \notin Counted
        /\ r \notin Guarded
        /\ Counted' = Counted \cup {r}
        /\ Guarded' = Guarded \cup {r}
    BY <1>2 DEF Admit, Goto, Typed, Counted, Guarded, Refusing, At
  <2>3. CounterExact'
    BY <1>2, <2>2, EntersCounted DEF Admit
  <2>4. Cardinality(Guarded) < MaxInflight
    BY <1>2, SetsFinite, GateAssumption DEF Admit, CounterExact
  <2>5. Cardinality(Guarded') = Cardinality(Guarded) + 1
    BY <2>2, SetsFinite, FS_AddElement
  <2>6. Cardinality(Guarded') \in Nat
    BY <2>2, SetsFinite, FS_AddElement, FS_CardinalityType
  <2>7. AtMostMaxGuarded'
    BY <2>4, <2>5, <2>6, SetsFinite, GateAssumption DEF AtMostMaxGuarded
  <2>8. QED
    BY <2>1, <2>3, <2>7
<1>3. ASSUME NEW r \in Requests, Refuse(r) PROVE Inv'
  <2>1. Typed'
    BY <1>3 DEF Refuse, Goto, Typed, Stages
  <2>2. /\ r \notin Counted
        /\ Counted' = Counted \cup {r}
        /\ Guarded' = Guarded
    BY <1>3 DEF Refuse, Goto, Typed, Counted, Guarded, Refusing, At
  <2>3. CounterExact'
    BY <1>3, <2>2, EntersCounted DEF Refuse
  <2>4. QED
    BY <2>1, <2>2, <2>3, FewerGuards
<1>4. ASSUME NEW r \in Requests, Retract(r) PROVE Inv'
  <2>1. Typed'
    BY <1>4 DEF Retract, Goto, Typed, Stages
  <2>2. /\ r \in Counted
        /\ Counted' = Counted \ {r}
        /\ Guarded' = Guarded
    BY <1>4 DEF Retract, Goto, Typed, Counted, Guarded, Refusing, At
  <2>3. CounterExact'
    BY <1>4, <2>2, LeavesCounted DEF Retract
  <2>4. QED
    BY <2>1, <2>2, <2>3, FewerGuards
<1>5. ASSUME NEW r \in Requests,
             ClientStep(r) \/ HandlerReturns(r)
      PROVE  Inv'
  <2>1. Typed'
    BY <1>5 DEF ClientStep, BodyRead, BodyFails, Disconnect, HandlerReturns,
                Goto, Typed, Stages
  <2>2. Counted' = Counted /\ Guarded' = Guarded
    BY <1>5 DEF ClientStep, BodyRead, BodyFails, Disconnect, HandlerReturns,
                Goto, Typed, Counted, Guarded, Refusing, At
  <2>3. inflight' = inflight
    BY <1>5 DEF ClientStep, BodyRead, BodyFails, Disconnect, HandlerReturns
  <2>4. CounterExact'
    BY <2>2, <2>3 DEF CounterExact
  <2>5. QED
    BY <2>1, <2>2, <2>4, FewerGuards
<1>6. ASSUME NEW r \in Requests, DropGuard(r) PROVE Inv'
  <2>1. Typed'
    BY <1>6 DEF DropGuard, Goto, Typed, Stages
  <2>2. /\ r \in Counted
        /\ Counted' = Counted \ {r}
        /\ Guarded' \subseteq Guarded
    BY <1>6 DEF DropGuard, Goto, Typed, Counted, Guarded, Refusing, At
  <2>3. CounterExact'
    BY <1>6, <2>2, LeavesCounted DEF DropGuard
  <2>4. QED
    BY <2>1, <2>2, <2>3, FewerGuards
<1>7. CASE UNCHANGED vars
  BY <1>7 DEF vars, Typed, CounterExact, AtMostMaxGuarded, Counted, Guarded,
              Refusing, At
<1>8. QED
  BY <1>1, <1>2, <1>3, <1>4, <1>5, <1>6, <1>7 DEF Next, ServerStep

(* What the invariant says of the properties below. *)
LEMMA InvImplies == Inv => TypeOK /\ CounterExact /\ AtMostMaxGuarded
  BY SetsFinite DEF Inv, Typed, TypeOK, CounterExact
-------------------------------------------------------------------------------
(* The invariant holds in every state the gate reaches. *)
LEMMA InvAlways == SafetySpec => []Inv
  BY InitInv, StepInv, PTL DEF SafetySpec

(* The counter never exceeds the number of requests in the server. *)
THEOREM TypeCorrect == SafetySpec => []TypeOK
  BY InvAlways, InvImplies, PTL

(* Every exit of the gate gives back exactly what its entry took. *)
THEOREM CounterIsExact == SafetySpec => []CounterExact
  BY InvAlways, InvImplies, PTL

(* The cap of VV_MAX_INFLIGHT guards holds under every interleaving of the *)
(* atomic operations.                                                      *)
THEOREM CapHolds == SafetySpec => []AtMostMaxGuarded
  BY InvAlways, InvImplies, PTL

(* A 503 is only given when the cap's worth of other requests is counted. *)
THEOREM RefusalsAreJustified == SafetySpec => RefusedOnlyWhenCounted
<1>1. ASSUME Inv, Next, NEW r \in Requests, pc[r] = "arrived", pc'[r] = "over"
      PROVE  Cardinality(Counted \ {r}) >= MaxInflight
  <2>1. Refuse(r)
    BY <1>1 DEF Inv, Typed, Next, ServerStep, ClientStep, Arrive, Admit, Refuse,
                Retract, BodyRead, BodyFails, Disconnect, HandlerReturns,
                DropGuard, Goto
  <2>2. Counted \ {r} = Counted
    BY <1>1 DEF Counted, Guarded, Refusing, At
  <2>3. QED
    BY <1>1, <2>1, <2>2 DEF Inv, CounterExact, Refuse
<1>2. Inv /\ [Next]_vars
        => [\A r \in Requests :
              (pc[r] = "arrived" /\ pc'[r] = "over")
                 => Cardinality(Counted \ {r}) >= MaxInflight]_vars
  BY <1>1
<1>3. QED
  BY InvAlways, <1>2, PTL DEF SafetySpec, RefusedOnlyWhenCounted
-------------------------------------------------------------------------------
(***************************************************************************)
(* Refinement.  PhaseOf maps the guards to Promise!Served and the requests *)
(* being refused to Promise!Refused; the test of the counter becomes the   *)
(* test of those sets' sizes because the counter is exact.                 *)
(***************************************************************************)

(* The guards are the served requests, those at `over` the refused ones. *)
LEMMA MappedSets ==
  ASSUME Typed
  PROVE  Promise!Served = Guarded /\ Promise!Refused = Refusing
BY DEF Typed, Stages, PhaseOf, Promise!Served, Promise!Refused, Guarded,
       Refusing, At

(* The instance's Cardinality is the one of this module. *)
LEMMA SameCardinality == \A S : Promise!Cardinality(S) = Cardinality(S)
BY Zenon DEF Promise!Cardinality, Cardinality, Promise!IsFiniteSet, IsFiniteSet

(* How a step of one request moves its phase. *)
LEMMA MappedMove ==
  ASSUME Typed, NEW r \in Requests,
         NEW from \in Stages, NEW to \in Stages, Goto(r, from, to)
  PROVE  /\ PhaseOf(from) = PhaseOf(to)
              => [q \in Requests |-> PhaseOf(pc[q])]'
                   = [q \in Requests |-> PhaseOf(pc[q])]
         /\ Promise!Move(r, PhaseOf(from), PhaseOf(to))
BY DEF Typed, Goto, PhaseOf, Stages, Promise!Move

(* Every step of the gate is a step of the promise or changes no phase. *)
LEMMA MappedStep ==
  ASSUME Inv, Next
  PROVE  Promise!Next \/ UNCHANGED [r \in Requests |-> PhaseOf(pc[r])]
<1> USE DEF Inv, Stages
<1>1. ASSUME NEW r \in Requests, Arrive(r) PROVE Promise!Enter(r)
  BY <1>1, MappedMove DEF Arrive, Promise!Enter, PhaseOf
<1>2. ASSUME NEW r \in Requests, Admit(r) PROVE Promise!Serve(r)
  <2>1. Cardinality(Promise!Served) < MaxInflight
    BY <1>2, MappedSets, SetsFinite, GateAssumption DEF Admit, CounterExact
  <2>2. QED
    BY <1>2, <2>1, MappedMove, SameCardinality DEF Admit, Promise!Serve, PhaseOf
<1>3. ASSUME NEW r \in Requests, Refuse(r) PROVE Promise!Refuse(r)
  <2>1. Cardinality(Promise!Served \cup Promise!Refused) >= MaxInflight
    BY <1>3, MappedSets DEF Refuse, CounterExact, Counted
  <2>2. QED
    BY <1>3, <2>1, MappedMove, SameCardinality DEF Refuse, Promise!Refuse, PhaseOf
<1>4. ASSUME NEW r \in Requests, Retract(r) PROVE Promise!TurnAway(r)
  BY <1>4, MappedMove DEF Retract, Promise!TurnAway, PhaseOf
<1>5. ASSUME NEW r \in Requests, DropGuard(r) PROVE Promise!Finish(r)
  BY <1>5, MappedMove DEF DropGuard, Promise!Finish, PhaseOf
<1>6. ASSUME NEW r \in Requests, ClientStep(r) \/ HandlerReturns(r)
      PROVE  UNCHANGED [q \in Requests |-> PhaseOf(pc[q])]
  BY <1>6, MappedMove DEF ClientStep, BodyRead, BodyFails, Disconnect,
                          HandlerReturns, PhaseOf
<1>7. QED
  BY <1>1, <1>2, <1>3, <1>4, <1>5, <1>6 DEF Next, ServerStep, Promise!Next

(* The gate implements the safety part of the admission promise. *)
THEOREM GateImplementsAdmission == SafetySpec => Promise!SafetySpec
<1>1. Init => Promise!Init
  BY DEF Init, PhaseOf, Promise!Init
<1>2. Inv /\ [Next]_vars
        => [Promise!Next]_([r \in Requests |-> PhaseOf(pc[r])])
  <2>1. CASE UNCHANGED vars
    BY <2>1 DEF vars
  <2>2. QED
    BY <2>1, MappedStep
<1>3. QED
  BY InvAlways, <1>1, <1>2, PTL DEF SafetySpec, Promise!SafetySpec
=============================================================================
