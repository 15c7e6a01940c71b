SPECIFICATION Spec
CONSTANTS
  MaxCalls = 3
  MaxSignals = 1
  WriteArgs <- AllWrites
  Signals = {17, 40}
  ExitCodes = {0, 3}
  Env = {"fork", "traceme", "exec", "kill", "ptrace", "oom", "crash"}
INVARIANTS
  TypeOK
  Lockstep
  ToggleParity
  EntryMeansEntry
  FakeReturn
  Delivered
  CopyHeld
  OrderPreserved
  WellMarked
  CopyMatches
  MarkingAtExit
  ExitCodePassed
  SignalsKept
  ReportAgrees
PROPERTIES
  RegsTouched
  Implements
