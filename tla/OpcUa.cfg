SPECIFICATION Spec
CONSTANTS
  c1 = c1
  Conns = {c1}
  Messages <- MCMessages
  MaxAsked = 3
INVARIANTS
  OnlyEmptyHelRepeats
  NeverRefusedOnItsChannel
PROPERTIES
  AnswersInTurn
  HandlersEnd
\* Handlers end.
CHECK_DEADLOCK FALSE
