SPECIFICATION Spec
CONSTANTS
  Options <- MCOptions
  CpuStates <- MCCpuStates
  DiagEvents <- MCDiagEvents
  StatusWords <- MCStatusWords
  CipStates <- MCCipStates
  OtherFrames <- MCOtherFrames
  Segments <- MCSegments
  MaxPolls = 2
INVARIANTS
  TypeOK
  AutoTriesInOrder
  LostExitsTwo
  ReportsMatchExit
PROPERTIES
  ExitJustified
  PollEnds
\* The scheduler stops after MaxPolls polls.
CHECK_DEADLOCK FALSE
