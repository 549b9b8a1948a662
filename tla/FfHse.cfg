SPECIFICATION Spec
CONSTANTS
  c1 = c1
  c2 = c2
  h1 = h1
  Conns <- MCConns
  Handles <- MCHandles
  Asks <- MCAsks
  MaxAlarms = 3
  Cap = 2
INVARIANTS
  TypeOK
  QueueIsNewest
  LostAreNewest
  AnsweredPollHasSession
PROPERTIES
  AlarmsDeliveredOnce
  HandlersEnd
\* The emulator may be left alone or interrupted.
CHECK_DEADLOCK FALSE
