----------------------------- MODULE InflightGate -----------------------------
(***************************************************************************)
(* The in-flight gate of POST /v1/check (src/src/limits.rs), at the grain  *)
(* of its atomic operations.  Every request runs `gate` on a task of its   *)
(* own; the tasks share one AtomicUsize, AppState.inflight, and nothing    *)
(* else.  The gate does                                                    *)
(*                                                                         *)
(*    prev = fetch_add(1)                                                  *)
(*    prev >= max_inflight :  fetch_sub(1), answer 503                     *)
(*    otherwise            :  build the guard, run the handler; the        *)
(*                            guard's drop does fetch_sub(1)               *)
(*                                                                         *)
(* so a request that is being refused is counted for as long as it takes   *)
(* to reach its fetch_sub.  The handler suspends in one place only, where  *)
(* it waits for the request body (routes/check.rs:25): there, and nowhere  *)
(* else, the future may be dropped because the client has gone.            *)
(*                                                                         *)
(* A member of Requests is one place in the server that a request may      *)
(* occupy; it goes back to "idle" and stands for the next request.         *)
(*                                                                         *)
(* An operator whose name has an underscore, marked "defect", is a         *)
(* deliberately wrong variant of the operator after it, which shows that a *)
(* property can fail; nothing else uses it.                                *)
(***************************************************************************)
EXTENDS Naturals, FiniteSets

CONSTANTS Requests,     \* requests that may be inside the server together
          MaxInflight,  \* AppState.max_inflight (VV_MAX_INFLIGHT), 0 allowed
          MaxUsize      \* the largest value the AtomicUsize can hold

ASSUME GateAssumption ==
  /\ IsFiniteSet(Requests)
  /\ MaxInflight \in Nat
  /\ MaxUsize \in Nat
  /\ Cardinality(Requests) <= MaxUsize

VARIABLES inflight,   \* AppState.inflight
          pc          \* pc[r]: how far request r has come

vars == <<inflight, pc>>

(***************************************************************************)
(*   idle      no request here                                             *)
(*   arrived   past the body-limit layer, about to execute fetch_add       *)
(*   over      prev >= max_inflight was seen, fetch_sub not yet executed   *)
(*   reading   the guard exists, the handler awaits the body               *)
(*   scanning  the handler runs without suspending                         *)
(*   leaving   the handler has returned, or its future has been dropped;   *)
(*             the guard's drop has not been executed                      *)
(***************************************************************************)
Stages == {"idle", "arrived", "over", "reading", "scanning", "leaving"}

At(stages) == {r \in Requests : pc[r] \in stages}

Executing == At({"reading", "scanning"})              \* inside the handler
Guarded   == At({"reading", "scanning", "leaving"})   \* an InFlightGuard exists
Refusing  == At({"over"})
Counted   == Guarded \cup Refusing                    \* added 1, not yet taken 1

TypeOK == /\ inflight \in 0 .. Cardinality(Requests)
          /\ pc \in [Requests -> Stages]

(***************************************************************************)
(* fetch_add and fetch_sub wrap around at the ends of usize.               *)
(***************************************************************************)
Plus1(n)  == IF n = MaxUsize THEN 0 ELSE n + 1
Minus1(n) == IF n = 0 THEN MaxUsize ELSE n - 1

Init == /\ inflight = 0
        /\ pc = [r \in Requests |-> "idle"]

Goto(r, from, to) == /\ pc[r] = from
                     /\ pc' = [pc EXCEPT ![r] = to]

(***************************************************************************)
(* The client sends a request that passes authentication and the           *)
(* Content-Length check and reaches the gate.                              *)
(***************************************************************************)
Arrive(r) == /\ Goto(r, "idle", "arrived")
             /\ UNCHANGED inflight

(***************************************************************************)
(* The fetch_add, and the branch on the value it returned.  That value is  *)
(* the task's own from here on: the other tasks' operations cannot change  *)
(* the branch any more.                                                    *)
(***************************************************************************)
Admit_CapExceeded(r) ==               \* defect: prev > max_inflight refuses
  /\ inflight <= MaxInflight
  /\ Goto(r, "arrived", "reading")
  /\ inflight' = Plus1(inflight)

Admit(r) == /\ inflight < MaxInflight
            /\ Goto(r, "arrived", "reading")
            /\ inflight' = Plus1(inflight)

Refuse_TooEarly(r) ==                 \* defect: compares the value after adding
  /\ inflight + 1 >= MaxInflight
  /\ Goto(r, "arrived", "over")
  /\ inflight' = Plus1(inflight)

Refuse(r) == /\ inflight >= MaxInflight
             /\ Goto(r, "arrived", "over")
             /\ inflight' = Plus1(inflight)

(***************************************************************************)
(* The fetch_sub of the refusal path, and the 503.                         *)
(***************************************************************************)
Retract_KeepsCount(r) ==              \* defect: answers 503 without fetch_sub
  /\ Goto(r, "over", "idle")
  /\ UNCHANGED inflight

Retract(r) == /\ Goto(r, "over", "idle")
              /\ inflight' = Minus1(inflight)

(***************************************************************************)
(* How the wait for the body ends: the body is there, reading it fails     *)
(* (the 64 KiB limit, a broken connection) and the handler answers 413 or  *)
(* 400, or the connection goes and the future is dropped where it stands.  *)
(***************************************************************************)
BodyRead(r) == /\ Goto(r, "reading", "scanning")
               /\ UNCHANGED inflight

BodyFails(r) == /\ Goto(r, "reading", "leaving")
                /\ UNCHANGED inflight

Disconnect_Leaks(r) ==                \* defect: a plain fetch_sub after run()
  /\ Goto(r, "reading", "idle")
  /\ UNCHANGED inflight

Disconnect(r) == /\ Goto(r, "reading", "leaving")
                 /\ UNCHANGED inflight

(***************************************************************************)
(* Validation, scan and response, 200 or an error: no await among them.    *)
(***************************************************************************)
HandlerReturns(r) == /\ Goto(r, "scanning", "leaving")
                     /\ UNCHANGED inflight

(***************************************************************************)
(* InFlightGuard::drop, on a normal return and on a dropped future alike.  *)
(***************************************************************************)
DropGuard_Twice(r) ==                 \* defect: fetch_sub after run() and in drop
  /\ Goto(r, "leaving", "idle")
  /\ inflight' = Minus1(Minus1(inflight))

DropGuard(r) == /\ Goto(r, "leaving", "idle")
                /\ inflight' = Minus1(inflight)

(***************************************************************************)
(* Steps the server takes by itself, and steps that wait for the client.   *)
(***************************************************************************)
ServerStep(r) == \/ Admit(r) \/ Refuse(r) \/ Retract(r)
                 \/ HandlerReturns(r) \/ DropGuard(r)

ClientStep(r) == BodyRead(r) \/ BodyFails(r) \/ Disconnect(r)

Next == \E r \in Requests : Arrive(r) \/ ServerStep(r) \/ ClientStep(r)

(***************************************************************************)
(* The runtime polls every task that can run.  It cannot make a client     *)
(* send its body, and the service has no timeout that would give up on     *)
(* one: nothing is assumed of ClientStep.                                  *)
(***************************************************************************)
Fairness == \A r \in Requests : WF_vars(ServerStep(r))

SafetySpec == Init /\ [][Next]_vars
Spec == SafetySpec /\ Fairness
-------------------------------------------------------------------------------
(***************************************************************************)
(* Safety.                                                                 *)
(***************************************************************************)

(* The counter is at every moment the number of requests that have done    *)
(* their fetch_add and not yet their fetch_sub: whatever way a request     *)
(* leaves (response, error, 503, dropped future), it gives back exactly    *)
(* the one it took, and the usize neither wraps nor underflows.            *)
CounterExact == inflight = Cardinality(Counted)

(* Never more than VV_MAX_INFLIGHT guards exist, hence never more bodies   *)
(* and normalized buffers in memory than the cap allows, although the      *)
(* check of the counter and the increment of the refused ones interleave   *)
(* freely.                                                                 *)
AtMostMaxGuarded == Cardinality(Guarded) <= MaxInflight

(* What a refusal proves: requests the cap's worth of them, other than the *)
(* refused one, are counted at that moment, admitted or being refused.     *)
RefusedOnlyWhenCounted ==
  [][\A r \in Requests :
        (pc[r] = "arrived" /\ pc'[r] = "over")
           => Cardinality(Counted \ {r}) >= MaxInflight]_vars

(* What the API document says a 503 means: the in-flight /v1/check count   *)
(* is at VV_MAX_INFLIGHT (API.md:79), that count being "requests currently *)
(* executing the /v1/check handler" (state.rs:25).                         *)
RefusedOnlyWhenFull ==
  [][\A r \in Requests :
        (pc[r] = "arrived" /\ pc'[r] = "over")
           => Cardinality(Guarded) >= MaxInflight]_vars
-------------------------------------------------------------------------------
(***************************************************************************)
(* Liveness.                                                               *)
(***************************************************************************)

(* No slot leaks: once no request is arriving and no client keeps the      *)
(* handler waiting, the counter comes down to zero and stays there.  Holds *)
(* by the server's fairness alone.                                         *)
SlotsComeBack ==
  <>[](At({"arrived", "reading"}) = {}) => <>[](inflight = 0)
-------------------------------------------------------------------------------
(***************************************************************************)
(* The gate implements the admission promise.                              *)
(***************************************************************************)
PhaseOf(stage) == CASE stage = "idle" -> "away"
                    [] stage = "arrived" -> "waiting"
                    [] stage = "over" -> "refused"
                    [] OTHER -> "served"

Promise == INSTANCE Admission
             WITH Limit <- MaxInflight,
                  phase <- [r \in Requests |-> PhaseOf(pc[r])]

(* Every behaviour of the gate is one of the promise: admission needs a    *)
(* free slot, refusal a full house, and neither is put off for ever.       *)
ImplementsAdmission == Promise!Spec
=============================================================================
