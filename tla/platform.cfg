SPECIFICATION Spec
CONSTANTS
  scode = scode
  app = app
  scodeStage = scodeStage
  appStage = appStage
  draft = draft
  Names <- MCNames
  FoldersOf <- MCFoldersOf
  StageOf <- MCStageOf
  Inodes = {i1, i2, i3}
  Files = {f1, f2}
  Blocks <- MCBlocks
  MaxSize = 1
  ImageSize = 1
  VM_DEBUG_MODE = TRUE
  MaxRuns = 2
  none = none
SYMMETRY Symmetry
INVARIANTS
  TypeOK
  Recoverable
  StagedIsRun
  ClosedMeansKept
CHECK_DEADLOCK FALSE
