CONSTANTS
  r1 = r1
  r2 = r2
  s1 = s1
  s2 = s2
  Requests <- TwoRequests
  Scrapes <- TwoScrapes
  MaxInflight = 1
  MaxUsize = 3
SPECIFICATION GaugeSpec
INVARIANTS RendersCurrentValue
