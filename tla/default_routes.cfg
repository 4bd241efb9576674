\* Two first packets at a time while Pods come and go.
SPECIFICATION FairSpec
INVARIANTS
  TypeOK
  CountsCoverSessions
  GuardedEndpoint
PROPERTIES
  NobodyStuck
CONSTANTS
  p1 = p1  p2 = p2
  game = game  voice = voice
  NoPod = NoPod  NoClient = NoClient  NoPort = NoPort
  Pods = {p1, p2}
  Rank <- ByName
  Ports = {game, voice}
  PortsOf <- NoVoice
  Clients = {c1, c2}
  Handlers = {h1, h2}
  InitiallyUp = {p1, p2}
  Faults = {"pods", "expiry", "apiError"}
  MaxSessions = 2
