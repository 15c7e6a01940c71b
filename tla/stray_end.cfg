SPECIFICATION Spec
CONSTANTS
  MaxCalls = 1
  MaxSignals = 0
  WriteArgs <- PlainWrites
  Signals = {}
  ExitCodes = {0, 3}
  Env = {}
INVARIANT NoStrayEnd
