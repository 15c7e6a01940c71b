SPECIFICATION FairSpec
CONSTANTS
  MaxCalls = 2
  MaxSignals = 2
  WriteArgs <- PlainWrites
  Signals = {10, 17}
  ExitCodes = {0, 3}
  Env = {"traceme", "exec", "kill", "oom", "redirect"}
PROPERTIES
  StopsEnd
  ErrmarkEnds
  WritesReturn
