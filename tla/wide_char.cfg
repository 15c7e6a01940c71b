SPECIFICATION Spec
CONSTANTS
  CommandLines <- UpToOne
  Commands <- WideCommands
  MaxErrors = 1
INVARIANT ReprFits
