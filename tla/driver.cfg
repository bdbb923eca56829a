CONSTANTS
  Segment <- MCSegment
  File <- MCFile
  Entry <- MCEntry
  Content <- MCEditContent
  Absent = Absent
  None = None
  Aborted = Aborted
  Killed = Killed
  MaxEdits = 1
  Lowers <- MCLowers
  Encodes <- MCEncodes
SPECIFICATION DriverSpec
INVARIANTS
  DependenciesFirst
  AcceptedMeansWellFormed
  DriverTypeOK
  OutputIsOfAcceptedProgram
  EmitsWhatWasChecked
  PartialOnlyByWriting
PROPERTY DriverTerminates
CHECK_DEADLOCK FALSE
