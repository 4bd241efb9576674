\* Three players for the two places of a server; the director's clock is one
\* tick ahead of the controller's.
\* Writes and the clock are bounded, so the model stops at its bounds.
SPECIFICATION Spec
CHECK_DEADLOCK FALSE
INVARIANTS
  TypeOK
  RoomForReturners
PROPERTIES
  ImplementsAssignment
CONSTANTS
  NoTime = NoTime
  Pods = {p1}
  Characters = {alice, bob, carol}
  MaxCharactersPerServer = 2
  InitiallyReady = {p1}
  Faults = {"create", "start", "stop", "delete", "drain", "connect", "disconnect", "remove", "expiry"}
  MaxRevision = 8
  Window = 3
  ReturnWindow = 2
  Retention = 2
  Lead = 1
  MaxTime = 6
