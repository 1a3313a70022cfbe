------------------------- MODULE InflightGauge_proofs -------------------------
(***************************************************************************)
(* Theorems about InflightGauge, for any number of requests and scrapes.   *)
(*                                                                         *)
(* That a scrape alone is current is not inductive: it needs that what it  *)
(* loaded is a value of its time, that the gauge is still what it stored,  *)
(* and, for that, that whoever else is scraping has marked it overlapped.  *)
(***************************************************************************)
EXTENDS InflightGauge, InflightGate_proofs

Counts == 0 .. Cardinality(Requests)

GaugeTyped == /\ gauge \in Counts
              /\ spc \in [Scrapes -> ScrapeStages]
              /\ loaded \in [Scrapes -> Counts]
              /\ rendered \in [Scrapes -> Counts]
              /\ during \in [Scrapes -> SUBSET Counts]
              /\ overlapped \in [Scrapes -> BOOLEAN]

Fresh(s) ==
  /\ spc[s] # "idle" => inflight \in during[s]
  /\ spc[s] \in {"loaded", "stored", "rendered"} => loaded[s] \in during[s]
  /\ spc[s] = "stored" /\ ~overlapped[s] => gauge = loaded[s]
  /\ spc[s] = "rendered" /\ ~overlapped[s] => rendered[s] \in during[s]

GaugeInv ==
  /\ Inv
  /\ GaugeTyped
  /\ \A s \in Scrapes : Fresh(s)
  /\ \A s, t \in Scrapes : s # t /\ spc[s] # "idle" /\ spc[t] # "idle" => overlapped[s]
-------------------------------------------------------------------------------
(* The counter is a count of requests.                                     *)
LEMMA InflightCounts == Inv => inflight \in Counts
  BY SetsFinite DEF Inv, CounterExact, Counts

(* No scrape is in progress.                                               *)
LEMMA GaugeInitInv == GaugeInit => GaugeInv
<1> SUFFICES ASSUME GaugeInit PROVE GaugeInv
  OBVIOUS
<1>1. Inv
  BY InitInv DEF GaugeInit
<1>2. 0 \in Counts
  BY SetsFinite DEF Counts
<1>3. QED
  BY <1>1, <1>2 DEF GaugeInit, GaugeInv, GaugeTyped, Fresh, ScrapeStages

(* A step of the gate adds its new value to what every scrape has lived    *)
(* through; a step of a scrape reads or stores one that is in there.       *)
LEMMA GaugeStepInv == GaugeInv /\ [GaugeNext]_allVars => GaugeInv'
<1> SUFFICES ASSUME GaugeInv, [GaugeNext]_allVars PROVE GaugeInv'
  OBVIOUS
<1> USE DEF GaugeInv
<1>0. inflight \in Counts /\ 0 \in Counts /\ Counts' = Counts
  BY InflightCounts, SetsFinite DEF Counts
<1>1. ASSUME GateStep PROVE GaugeInv'
  <2>1. Inv'
    BY <1>1, StepInv DEF GateStep
  <2>2. inflight' \in Counts
    <3>1. Counted' \subseteq Requests
      BY DEF Counted, Guarded, Refusing, At
    <3>2. /\ IsFiniteSet(Counted')
          /\ Cardinality(Counted') <= Cardinality(Requests)
      BY <3>1, GateAssumption, FS_Subset
    <3>3. Cardinality(Counted') \in Nat /\ Cardinality(Requests) \in Nat
      BY <3>2, GateAssumption, FS_CardinalityType
    <3>4. QED
      BY <2>1, <3>2, <3>3 DEF Inv, CounterExact, Counts
  <2>3. GaugeTyped'
    BY <1>0, <1>1, <2>2 DEF GateStep, scrapeVars, GaugeTyped
  <2>4. \A s \in Scrapes : Fresh(s)'
    BY <1>1 DEF GateStep, scrapeVars, GaugeTyped, Fresh
  <2>5. QED
    BY <1>1, <2>1, <2>3, <2>4 DEF GateStep, scrapeVars
<1>2. ASSUME UNCHANGED vars PROVE Inv' /\ inflight' = inflight
  BY <1>2, StepInv DEF vars
<1>3. ASSUME NEW s \in Scrapes, BeginScrape(s) PROVE GaugeInv'
  <2>1. Inv' /\ inflight' = inflight
    BY <1>2, <1>3 DEF BeginScrape
  <2>2. GaugeTyped'
    BY <1>0, <1>3 DEF BeginScrape, ScrapeGoto, GaugeTyped, ScrapeStages
  <2>3. \A t \in Scrapes : Fresh(t)'
    BY <1>3, <2>1 DEF BeginScrape, ScrapeGoto, GaugeTyped, Fresh, Others
  <2>4. \A t, u \in Scrapes : t # u /\ spc'[t] # "idle" /\ spc'[u] # "idle" => overlapped'[t]
    BY <1>3 DEF BeginScrape, ScrapeGoto, GaugeTyped, Others
  <2>5. QED
    BY <2>1, <2>2, <2>3, <2>4
<1>4. ASSUME NEW s \in Scrapes, LoadCounter(s) PROVE GaugeInv'
  <2>1. Inv' /\ inflight' = inflight
    BY <1>2, <1>4 DEF LoadCounter
  <2>2. GaugeTyped'
    BY <1>0, <1>4 DEF LoadCounter, ScrapeGoto, GaugeTyped, ScrapeStages, history
  <2>3. \A t \in Scrapes : Fresh(t)'
    BY <1>4, <2>1 DEF LoadCounter, ScrapeGoto, GaugeTyped, Fresh, history
  <2>4. \A t, u \in Scrapes : t # u /\ spc'[t] # "idle" /\ spc'[u] # "idle" => overlapped'[t]
    BY <1>4 DEF LoadCounter, ScrapeGoto, GaugeTyped, history
  <2>5. QED
    BY <2>1, <2>2, <2>3, <2>4
<1>5. ASSUME NEW s \in Scrapes, SetGauge(s) PROVE GaugeInv'
  <2>1. Inv' /\ inflight' = inflight
    BY <1>2, <1>5 DEF SetGauge
  <2>2. GaugeTyped'
    BY <1>0, <1>5 DEF SetGauge, ScrapeGoto, GaugeTyped, ScrapeStages, history
  <2>3. \A t \in Scrapes : Fresh(t)'
    BY <1>5, <2>1 DEF SetGauge, ScrapeGoto, GaugeTyped, Fresh, history
  <2>4. \A t, u \in Scrapes : t # u /\ spc'[t] # "idle" /\ spc'[u] # "idle" => overlapped'[t]
    BY <1>5 DEF SetGauge, ScrapeGoto, GaugeTyped, history
  <2>5. QED
    BY <2>1, <2>2, <2>3, <2>4
<1>6. ASSUME NEW s \in Scrapes, Render(s) PROVE GaugeInv'
  <2>1. Inv' /\ inflight' = inflight
    BY <1>2, <1>6 DEF Render
  <2>2. GaugeTyped'
    BY <1>0, <1>6 DEF Render, ScrapeGoto, GaugeTyped, ScrapeStages, history
  <2>3. \A t \in Scrapes : Fresh(t)'
    BY <1>6, <2>1 DEF Render, ScrapeGoto, GaugeTyped, Fresh, history
  <2>4. \A t, u \in Scrapes : t # u /\ spc'[t] # "idle" /\ spc'[u] # "idle" => overlapped'[t]
    BY <1>6 DEF Render, ScrapeGoto, GaugeTyped, history
  <2>5. QED
    BY <2>1, <2>2, <2>3, <2>4
<1>7. ASSUME NEW s \in Scrapes, EndScrape(s) PROVE GaugeInv'
  <2>1. Inv' /\ inflight' = inflight
    BY <1>2, <1>7 DEF EndScrape
  <2>2. GaugeTyped'
    BY <1>0, <1>7 DEF EndScrape, ScrapeGoto, GaugeTyped, ScrapeStages
  <2>3. \A t \in Scrapes : Fresh(t)'
    BY <1>7, <2>1 DEF EndScrape, ScrapeGoto, GaugeTyped, Fresh
  <2>4. \A t, u \in Scrapes : t # u /\ spc'[t] # "idle" /\ spc'[u] # "idle" => overlapped'[t]
    BY <1>7 DEF EndScrape, ScrapeGoto, GaugeTyped
  <2>5. QED
    BY <2>1, <2>2, <2>3, <2>4
<1>8. CASE UNCHANGED allVars
  BY <1>0, <1>2, <1>8 DEF allVars, scrapeVars, history, vars, GaugeTyped, Fresh
<1>9. QED
  BY <1>1, <1>3, <1>4, <1>5, <1>6, <1>7, <1>8 DEF GaugeNext
-------------------------------------------------------------------------------
(* So the invariant holds at every moment.                                 *)
LEMMA GaugeInvAlways == GaugeSpec => []GaugeInv
  BY GaugeInitInv, GaugeStepInv, PTL DEF GaugeSpec

(* The gauge, and what scrapes load and render, are counts of requests. *)
THEOREM GaugeTypeCorrect == GaugeSpec => []GaugeTypeOK
<1>1. GaugeInv => GaugeTypeOK
  BY DEF GaugeInv, GaugeTyped, GaugeTypeOK, Counts
<1>2. QED
  BY <1>1, GaugeInvAlways, PTL

(* A scrape that no other overlaps is current, however the gate's steps    *)
(* fall between its load, its set and its render, and whatever earlier     *)
(* overlaps have left in the gauge.                                        *)
THEOREM SoloIsCurrent == GaugeSpec => []SoloScrapeIsCurrent
<1>1. GaugeInv => SoloScrapeIsCurrent
  BY DEF GaugeInv, Fresh, SoloScrapeIsCurrent, Answered
<1>2. QED
  BY <1>1, GaugeInvAlways, PTL
=============================================================================
