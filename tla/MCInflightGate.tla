--------------------------- MODULE MCInflightGate ---------------------------
(***************************************************************************)
(* Small instances of InflightGate for TLC: more than twice as many        *)
(* requests as slots, and a usize one larger than their number.            *)
(***************************************************************************)
EXTENDS InflightGate

CONSTANTS r1, r2, r3, r4, r5

FiveRequests  == {r1, r2, r3, r4, r5}
ThreeRequests == {r1, r2, r3}
=============================================================================
