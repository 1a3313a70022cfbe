---------------------------- MODULE InflightGauge ----------------------------
(***************************************************************************)
(* GET /metrics beside the gate.  Every scrape runs the handler of         *)
(* routes/metrics.rs on a task of its own:                                 *)
(*                                                                         *)
(*    n = inflight.load();  gauge!(vv_inflight).set(n);  handle.render()   *)
(*                                                                         *)
(* The load, the set and the render are three operations on two shared     *)
(* cells, the gate's counter and the recorder's gauge.  The gate goes on   *)
(* between them, and so do other scrapes.                                  *)
(***************************************************************************)
EXTENDS InflightGate

CONSTANT Scrapes      \* /metrics requests that may be in the server together

VARIABLES gauge,      \* the recorder's vv_inflight cell
          spc,        \* spc[s]: idle, begun, loaded, stored, rendered
          loaded,     \* loaded[s]: the value this scrape read from inflight
          rendered    \* rendered[s]: vv_inflight in this scrape's response

(***************************************************************************)
(* Two variables that only serve the properties: the values the counter    *)
(* has had since scrape s began, and whether another scrape was in         *)
(* progress at some time since.                                            *)
(***************************************************************************)
VARIABLES during, overlapped

scrapeVars == <<gauge, spc, loaded, rendered>>
history == <<during, overlapped>>
allVars == <<vars, scrapeVars, history>>

ScrapeStages == {"idle", "begun", "loaded", "stored", "rendered"}

GaugeTypeOK ==
  LET Counts == 0 .. Cardinality(Requests)
  IN  /\ gauge \in Counts
      /\ spc \in [Scrapes -> ScrapeStages]
      /\ loaded \in [Scrapes -> Counts]
      /\ rendered \in [Scrapes -> Counts]
      /\ during \in [Scrapes -> SUBSET Counts]
      /\ overlapped \in [Scrapes -> BOOLEAN]

GaugeInit == /\ Init
             /\ gauge = 0
             /\ spc = [s \in Scrapes |-> "idle"]
             /\ loaded = [s \in Scrapes |-> 0]
             /\ rendered = [s \in Scrapes |-> 0]
             /\ during = [s \in Scrapes |-> {}]
             /\ overlapped = [s \in Scrapes |-> FALSE]

ScrapeGoto(s, from, to) == /\ spc[s] = from
                           /\ spc' = [spc EXCEPT ![s] = to]

Others(s) == {t \in Scrapes \ {s} : spc[t] # "idle"}

BeginScrape(s) ==
  /\ ScrapeGoto(s, "idle", "begun")
  /\ during' = [during EXCEPT ![s] = {inflight}]
  /\ overlapped' = [t \in Scrapes |->
                      IF t = s THEN Others(s) # {}
                               ELSE overlapped[t] \/ t \in Others(s)]
  /\ UNCHANGED <<vars, gauge, loaded, rendered>>

(* The two halves of snapshot_inflight. *)
LoadCounter_CountsUp(s) ==            \* defect: the gauge keeps a tally
  /\ ScrapeGoto(s, "begun", "loaded")
  /\ loaded' = [loaded EXCEPT ![s] = gauge + inflight]
  /\ UNCHANGED <<vars, gauge, rendered, history>>

LoadCounter(s) == /\ ScrapeGoto(s, "begun", "loaded")
                  /\ loaded' = [loaded EXCEPT ![s] = inflight]
                  /\ UNCHANGED <<vars, gauge, rendered, history>>

SetGauge_KeepsPeak(s) ==              \* defect: the gauge only ever goes up
  /\ ScrapeGoto(s, "loaded", "stored")
  /\ gauge' = IF loaded[s] > gauge THEN loaded[s] ELSE gauge
  /\ UNCHANGED <<vars, loaded, rendered, history>>

SetGauge(s) == /\ ScrapeGoto(s, "loaded", "stored")
               /\ gauge' = loaded[s]
               /\ UNCHANGED <<vars, loaded, rendered, history>>

Render(s) == /\ ScrapeGoto(s, "stored", "rendered")
             /\ rendered' = [rendered EXCEPT ![s] = gauge]
             /\ UNCHANGED <<vars, gauge, loaded, history>>

EndScrape(s) == /\ ScrapeGoto(s, "rendered", "idle")
                /\ loaded' = [loaded EXCEPT ![s] = 0]
                /\ rendered' = [rendered EXCEPT ![s] = 0]
                /\ during' = [during EXCEPT ![s] = {}]
                /\ overlapped' = [overlapped EXCEPT ![s] = FALSE]
                /\ UNCHANGED <<vars, gauge>>

(* A step of the gate, which every scrape in progress lives through. *)
GateStep == /\ Next
            /\ during' = [s \in Scrapes |->
                            IF spc[s] = "idle" THEN {}
                                               ELSE during[s] \cup {inflight'}]
            /\ UNCHANGED <<scrapeVars, overlapped>>

GaugeNext == \/ GateStep
             \/ \E s \in Scrapes : \/ BeginScrape(s) \/ LoadCounter(s)
                                   \/ SetGauge(s) \/ Render(s) \/ EndScrape(s)

GaugeSpec == GaugeInit /\ [][GaugeNext]_allVars
-------------------------------------------------------------------------------
Answered(s) == spc[s] = "rendered"

(* "Snapshot the live in-flight counter on every scrape so the gauge stays *)
(* current" (routes/metrics.rs:15): what a scrape renders is a value the   *)
(* counter had while that scrape was in progress.                          *)
RendersCurrentValue ==
  \A s \in Scrapes : Answered(s) => rendered[s] \in during[s]

(* What is true of overlapping scrapes: one that had no other beside it    *)
(* from its beginning to its end renders a current value, whatever the     *)
(* overlaps before it left in the gauge.                                   *)
SoloScrapeIsCurrent ==
  \A s \in Scrapes : (Answered(s) /\ ~overlapped[s])
                        => rendered[s] \in during[s]
=============================================================================
