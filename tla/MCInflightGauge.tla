--------------------------- MODULE MCInflightGauge ---------------------------
(***************************************************************************)
(* Small instances of InflightGauge: two requests and two scrapes.         *)
(***************************************************************************)
EXTENDS InflightGauge, TLC

CONSTANTS r1, r2, s1, s2

TwoRequests == {r1, r2}
TwoScrapes  == {s1, s2}
=============================================================================
