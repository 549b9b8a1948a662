SPECIFICATION Spec
CONSTANTS
  c1 = c1
  c2 = c2
  Clients <- MCClients
  Loops <- MCLoops
  Asks <- MCAsks
  Quota <- MCQuota
  Spent <- MCSpent
  Window = 1
  MaxLen = 2
  SeqMod = 3
INVARIANTS
  TypeOK
  CurrentExact
  AuditKeepsNewest
  OneLoopUntilStop
PROPERTIES
  NumbersConsecutive
  StopEndsPush
  CleanedUp
\* A client may do nothing for ever.
CHECK_DEADLOCK FALSE
