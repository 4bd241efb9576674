\* Every configuration and every Pod, in pairs where they compete by labels, and two
\* first packets at a time.
\* A refused configuration ends the director.
SPECIFICATION MCSpec
CHECK_DEADLOCK FALSE
INVARIANTS
  TypeOK
  PathsAgree
  ToldPortsLead
  RoomLeft
SYMMETRY Alike
CONSTANTS
  None = None  NotInt = NotInt
  p1 = p1  p2 = p2
  Pods = {p1, p2}
  Rank <- ListOrder
  Configs <- AllConfigs
  FactsOf <- AllFacts
  Addresses = {"ip1", "ip2", "node", "service"}
  Half = 16
  MaxSessions = 2
  Handlers = {h1, h2}
