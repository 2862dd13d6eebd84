SPECIFICATION Spec
CONSTANTS
  EventKinds <- Kinds
  MutedKinds <- Muted
  Commands <- ResumeCommands
  CounterMod = 256
  MaxCommands = 1
  MaxExceptions = 0
PROPERTIES
  ResumeNeverSuspends
