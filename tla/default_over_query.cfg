\* A default route is resolved while a query installs its route.
SPECIFICATION Spec
PROPERTIES
  QueryRouteStands
CONSTANTS
  ip1 = ip1  ip2 = ip2
  udp1 = udp1  udp2 = udp2  udp3 = udp3  tcp1 = tcp1
  p1 = p1  p2 = p2
  NoRoute = NoRoute  NoClient = NoClient  NoFlow = NoFlow  NoPod = NoPod  NoSocket = NoSocket
  Clients = {ip1}
  Flows = {udp1}
  TcpFlows = {}
  Pods = {p1, p2}
  Sockets = {s1, s2}
  Tasks = {t1, t2}
  ClientOf <- Owner
  Reaches <- Mapped
