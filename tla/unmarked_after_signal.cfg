SPECIFICATION Spec
CONSTANTS
  MaxCalls = 1
  MaxSignals = 1
  WriteArgs <- PlainWrites
  Signals = {10}
  ExitCodes = {0, 3}
  Env = {}
INVARIANT StderrMarked
