SPECIFICATION Spec
CONSTANTS
  a1 = a1
  a2 = a2
  Addrs = {a1, a2}
  Conns <- MCConns
  Origins <- MCOrigins
  Packets <- MCPackets
  MaxAsked <- MCMaxAsked
  InFlight = 1
  Profile = "rx3i"
INVARIANTS
  EntryHasHandler
  ExactUnlessReused
PROPERTIES
  EveryRequestInTurn
  HandlersEnd
\* The emulator may be left alone or interrupted.
CHECK_DEADLOCK FALSE
