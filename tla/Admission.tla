------------------------------ MODULE Admission ------------------------------
(***************************************************************************)
(* What the concurrency cap of POST /v1/check promises, without saying how *)
(* it is counted: at most Limit requests are served at a time, a request   *)
(* that comes to the door is served or refused at once (nobody queues),    *)
(* and a refusal needs a reason: Limit requests or more are inside, those  *)
(* that are themselves being turned away counted in.                       *)
(*                                                                         *)
(* There is no counter here.  limits.rs keeps one, and InflightGate shows  *)
(* that its two atomic operations implement this module.                   *)
(***************************************************************************)
EXTENDS Naturals, FiniteSets

CONSTANTS Requests,   \* the requests that may be in the server together
          Limit       \* how many of them may be served at a time

VARIABLE phase        \* phase[r]: away, waiting, served or refused

Served  == {r \in Requests : phase[r] = "served"}
Refused == {r \in Requests : phase[r] = "refused"}

Init == phase = [r \in Requests |-> "away"]

(***************************************************************************)
(* One step of request r.                                                  *)
(***************************************************************************)
Move(r, from, to) == /\ phase[r] = from
                     /\ phase' = [phase EXCEPT ![r] = to]

Enter(r) == Move(r, "away", "waiting")

Serve(r) == /\ Cardinality(Served) < Limit
            /\ Move(r, "waiting", "served")

Refuse(r) == /\ Cardinality(Served \cup Refused) >= Limit
             /\ Move(r, "waiting", "refused")

Finish(r) == Move(r, "served", "away")

TurnAway(r) == Move(r, "refused", "away")

Next == \E r \in Requests :
           Enter(r) \/ Serve(r) \/ Refuse(r) \/ Finish(r) \/ TurnAway(r)

(***************************************************************************)
(* Nobody waits at the door for ever and a refusal is delivered.  How long *)
(* a served request stays is the client's affair: it may never send the    *)
(* rest of its body.                                                       *)
(***************************************************************************)
Fairness == \A r \in Requests : /\ WF_phase(Serve(r) \/ Refuse(r))
                                /\ WF_phase(TurnAway(r))

SafetySpec == Init /\ [][Next]_phase
Spec == SafetySpec /\ Fairness
=============================================================================
