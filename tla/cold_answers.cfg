\* Two players wait for the one place of a server, whatever fails around them.
SPECIFICATION FairSpec
CHECK_DEADLOCK FALSE
INVARIANTS
  NoMissedWakeup
  LockAccounted
PROPERTIES
  EveryQueryAnswered
  ExpiredPlaceWakes
CONSTANTS
  d1 = d1  d2 = d2
  q1 = q1  q2 = q2  q3 = q3
  p1 = p1  p2 = p2
  alice = alice  bob = bob  carol = carol
  ip1 = ip1  ip2 = ip2  ip3 = ip3
  tutorial = tutorial  arena = arena
  group1 = group1  group2 = group2
  NoQuery = NoQuery  NoPod = NoPod
  Directors = {d1}
  Queries = {q1, q3}
  Clients = {ip1, ip2, ip3}
  Maps = {tutorial, arena}
  Groups = {group1, group2}
  Pods = {p1}
  Characters = {alice, carol}
  Request <- TwoMaps
  MapOf <- EachMap
  GroupOf <- OneGroup
  UidRank <- Uids
  CapacityDemand = TRUE
  MaxCharactersPerServer = 1
  InitiallyReady = {p1}
  Faults = {"drain", "connect", "disconnect", "expiry", "remove", "watchEnd", "refuse", "deadline", "cancel", "apiError", "crash"}
  MaxRevision = 4
