SPECIFICATION Spec
CONSTANTS
  CommandLines <- UpToThree
  Commands <- SomeCommands
  MaxErrors = 1
INVARIANT DebugHasStream
