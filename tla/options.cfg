SPECIFICATION Spec
CONSTANTS
  CommandLines <- UpToThree
  Commands <- SomeCommands
  MaxErrors = 1
INVARIANTS
  TypeOK
  MarksAreLast
  StartsHaveEnds
  OnlyCleanRuns
  CommandNamed
