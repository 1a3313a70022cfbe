\* The requests of an instance are finitely many: when all have ended, it stops.
CHECK_DEADLOCK FALSE
CONSTANTS
  r1 = r1
  r2 = r2
  r3 = r3
  Requests <- MCRequests
  MaxInflight = 1
  MaxUsize = 4
  Kinds <- MCKinds
SPECIFICATION Mixed
INVARIANTS TypeOK QuiescentAccounts CountersNeverContradict AnsweredInOrder
PROPERTIES ImplementsGate EveryRequestEnds
