CONSTANTS
  r1 = r1
  r2 = r2
  r3 = r3
  r4 = r4
  r5 = r5
  Requests <- FiveRequests
  MaxInflight = 2
  MaxUsize = 6
SPECIFICATION Spec
INVARIANTS TypeOK CounterExact AtMostMaxGuarded
PROPERTIES RefusedOnlyWhenCounted SlotsComeBack ImplementsAdmission
