CONSTANTS
  r1 = r1
  r2 = r2
  r3 = r3
  r4 = r4
  r5 = r5
  Requests <- ThreeRequests
  MaxInflight = 1
  MaxUsize = 4
SPECIFICATION Spec
PROPERTIES RefusedOnlyWhenFull
