SPECIFICATION Spec
CONSTANTS
  EventKinds <- Kinds
  MutedKinds <- Muted
  Commands <- RequestCommands
  CounterMod = 4
  MaxCommands = 3
  MaxExceptions = 0
INVARIANTS
  PacketIdsUnique
  ReportedOnce
  CompositePolicy
  RequestIdsUnique
PROPERTIES
  ImplementsReporting
