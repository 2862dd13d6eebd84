SPECIFICATION FairSpec
CONSTANTS
  EventKinds <- Kinds
  MutedKinds <- Muted
  Commands <- SessionCommands
  CounterMod = 3
  MaxCommands = 2
  MaxExceptions = 1
INVARIANTS
  TypeOK
  VMInitFirst
PROPERTIES
  PendingIsReported
  VMProgress
  HandlersFinish
