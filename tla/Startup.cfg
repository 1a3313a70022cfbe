\* A stopped process takes no further step.
CHECK_DEADLOCK FALSE
CONSTANTS
  a = a
  sp = sp
  p1 = p1
  p2 = p2
  ALLOWLIST = {"en", "de"}
  SKIP_LIST = {"LICENSE"}
  White = {sp}
  Entries <- MCEntries
  Split <- MCSplit
  Trimmed <- MCTrimmed
  Lowered <- MCLowered
  Blank = ""
  Seconds <- MCSeconds
  Usize <- MCUsize
  Literals <- MCLiterals
  Unparsed <- MCUnparsed
  NonAscii = {"xx"}
  Vendors <- MCVendors
  Environments <- MCEnvironments
  TomlFiles <- MCTomlFiles
  Probes = {p1, p2}
SPECIFICATION Spec
INVARIANTS TypeOK RefusedExactlyWhenWrong ServesTheConfiguration AdmitsExactlyTheKeys AnsweredOnlyWhenReady
PROPERTIES InterruptLosesNoRequest
