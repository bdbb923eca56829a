CONSTANTS
  Segment <- MCSegment
  File <- MCFile
  Entry <- MCEntry
  Content <- MCEditContent
  Absent = Absent
  None = None
  MaxEdits = 0
SPECIFICATION UneditedSpec
INVARIANT TraversalIsLexical
CHECK_DEADLOCK FALSE
