SPECIFICATION Spec
CONSTANTS
  MaxCalls = 2
  MaxSignals = 1
  WriteArgs <- PlainWrites
  Signals = {17}
  ExitCodes = {0, 3}
  Env = {}
INVARIANT EntryIsEntry
