\* Two tasks of any kind at a time, beside the cleanup loop and the receive tasks.
SPECIFICATION FairSpec
INVARIANTS
  TypeOK
  ListedSocketsWork
  OneServerPerSocket
PROPERTIES
  OrphansNeedOverlap
  ExpiresWithoutOverlap
CONSTANTS
  ip1 = ip1  ip2 = ip2
  udp1 = udp1  udp2 = udp2  udp3 = udp3  tcp1 = tcp1
  p1 = p1  p2 = p2
  NoRoute = NoRoute  NoClient = NoClient  NoFlow = NoFlow  NoPod = NoPod  NoSocket = NoSocket
  Clients = {ip1}
  Flows = {udp1, udp2, tcp1}
  TcpFlows = {tcp1}
  Pods = {p1, p2}
  Sockets = {s1, s2}
  Tasks = {t1, t2}
  ClientOf <- Owner
  Reaches <- Mapped
