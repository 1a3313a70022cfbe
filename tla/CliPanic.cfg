\* A process that has ended takes no further step.
CHECK_DEADLOCK FALSE
CONSTANTS
  Codes <- MCCodes
  Trimmed <- MCTrimmed
  Lowered <- MCLowered
  Compiled <- MCCompiled
  MAX_MATCHES = 3
  Invocations <- MCInvocations
SPECIFICATION Spec
INVARIANTS PanicExitsWith70
