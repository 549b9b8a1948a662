SPECIFICATION Spec
CONSTANTS
  Options <- MCOptions
  CpuStates <- MCCpuStates
  DiagEvents <- MCDiagEvents
  StatusWords <- MCStatusWords
  CipStates <- MCCipStates
  OtherFrames <- MCOtherFrames
  Segments <- MCSegments
  MaxPolls = 1
INVARIANT
  RecordTells
CHECK_DEADLOCK FALSE
