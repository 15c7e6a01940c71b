SPECIFICATION Spec
CONSTANTS
  MaxCalls = 2
  MaxSignals = 0
  WriteArgs <- PlainWrites
  Signals = {}
  ExitCodes = {0, 3}
  Env = {"redirect"}
INVARIANT RedirectKept
