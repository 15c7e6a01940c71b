SPECIFICATION Spec
CONSTANTS
  CommandLines <- UpToOne
  Commands <- SomeCommands
  MaxErrors = 1
INVARIANT EndsAsExample
