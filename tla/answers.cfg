SPECIFICATION Spec
CONSTANTS
  Names <- FewNames
  Root = "Object"
  MainClass = "TestClass"
  StarClass = "TestClass$*"
  Entries <- FewEntries
  MaxLines = 3
  U2 = 16
  PID = 100
  JDWP_TID = 101
  APP_TID = 1
  Strays = {7, 8}
INVARIANTS
  TypeOK
  LookupExact
  HierarchyEarlier
  TablesHold
  AnsweredOnce
  RepliesNameClasses
  
PROPERTIES
  IdsKeepTheirClass
CHECK_DEADLOCK FALSE
