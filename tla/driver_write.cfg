CONSTANTS
  Segment <- MCSegment
  File <- MCFile
  Entry <- MCEntry
  Content <- MCEditContent
  Absent = Absent
  None = None
  Aborted = Aborted
  Killed = Killed
  MaxEdits = 0
  Lowers <- MCLowers
  Encodes <- MCEncodes
SPECIFICATION DriverSpec
INVARIANT ExitZeroMeansWritten
CHECK_DEADLOCK FALSE
