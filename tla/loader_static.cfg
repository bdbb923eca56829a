CONSTANTS
  Segment <- MCSegment
  File <- MCFile
  Entry <- MCEntry
  Content <- MCContent
  Absent = Absent
  None = None
  MaxEdits = 0
SPECIFICATION UneditedSpec
INVARIANTS
  TypeOK
  StackIsImportChain
  PrintedCycleIsReal
  EveryGraphDefectReported
PROPERTY ImplementsVerdict
CHECK_DEADLOCK FALSE
