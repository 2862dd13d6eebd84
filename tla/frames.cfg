SPECIFICATION Spec
CONSTANTS
  Methods <- MCMethods
  NumParams <- MCNumParams
  NumLocals <- MCNumLocals
  main = 4
  resume = 5
  Addrs <- MCAddrs
  Vals <- MCVals
  NativeParams = {1}
  MaxStack = 12
  Room = 5
INVARIANTS
  TypeOK
  LocalsOfTopFrame
  LinksIntact
  CallbackStartsAbove
  StorageNeverNull
  DebuggerSeesMain
PROPERTIES
  CallersKeepTheirCells
  ReturnsToItsCall
CHECK_DEADLOCK FALSE
