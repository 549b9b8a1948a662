SPECIFICATION Spec
CONSTANTS
  Order <- MCOrder
  MaxAsked <- MCMaxAsked
  Interrupts = 2
INVARIANTS
  StoppedUnlessLate
  InStep
PROPERTIES
  EverythingStops
  AnswersInTurn
\* main ends.
CHECK_DEADLOCK FALSE
