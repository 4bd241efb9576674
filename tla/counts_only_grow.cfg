\* A default session expires.
SPECIFICATION Spec
INVARIANTS
  CountsMatchSessions
CONSTANTS
  p1 = p1  p2 = p2
  game = game  voice = voice
  NoPod = NoPod  NoClient = NoClient  NoPort = NoPort
  Pods = {p1, p2}
  Rank <- ByName
  Ports = {game}
  PortsOf <- NoVoice
  Clients = {c1}
  Handlers = {h1}
  InitiallyUp = {p1, p2}
  Faults = {"expiry"}
  MaxSessions = 3
