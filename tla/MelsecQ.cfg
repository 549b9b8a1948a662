SPECIFICATION Spec
CONSTANTS
  c1 = c1
  Conns = {c1}
  Frames <- MCFrames
  MaxAsked = 4
INVARIANTS
  NoSilentReplay
PROPERTIES
  EveryFrameInTurn
\* Handlers end.
CHECK_DEADLOCK FALSE
