SPECIFICATION Spec
CONSTANTS
  c1 = c1
  c2 = c2
  Conns = {c1, c2}
  Tags = {"level", "speed"}
  TagType <- MCTagType
  Requests <- MCRequests
  Misread <- MCMisread
  MaxAsked <- MCMaxAsked
  MaxCuts <- MCMaxCuts
INVARIANT
  FragmentsAssemble
\* Handlers end.
CHECK_DEADLOCK FALSE
