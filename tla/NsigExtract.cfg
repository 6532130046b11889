CONSTANTS
  None = None
  Param <- MCParam
  BuiltIns <- MCBuiltIns
  Files <- MCFiles
SPECIFICATION FairSpec
INVARIANTS TypeOK KeptIsClosure StopIsResolved SelectionCovers EmittedInOrder ExtractionSucceeds
PROPERTIES ExtractionEnds
CHECK_DEADLOCK FALSE
