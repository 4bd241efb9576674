------------------------------ MODULE MCTargets ------------------------------
(* Configurations and Pods for TLC: each differs from the first in one way. *)
EXTENDS Targets, TLC

CONSTANTS p1, p2

Alike == Permutations(Handlers)

ListOrder == [p \in Pods |-> IF p = p1 THEN 1 ELSE 2]

On(name, number, protocol) == [name |-> name, key |-> <<number, protocol>>]
To(name, portName, portPath) == [name |-> name, portName |-> portName, portPath |-> portPath]

ThreePorts == <<On("game", 7777, "udp"), On("rcon", 7777, "tcp"), On("query", 27015, "udp")>>
ThreeMappings == <<To("game", "g", None), To("rcon", "r", None), To("query", "q", None)>>

Mapping == [pods |-> TRUE, addressPath |-> "string", addressType |-> None,
            portName |-> None, portPath |-> None, ports |-> ThreeMappings,
            serviceLabel |-> None, servicePort |-> None]

Config == [queryPort |-> 9000, dataPorts |-> ThreePorts, dataPort |-> None,
           demand |-> None, mapping |-> Mapping, endpoint |-> TRUE,
           strategy |-> "leastSessions", overlap |-> 0]

Single == [Mapping EXCEPT !.ports = None, !.portName = "g"]
ByLabels == [Config EXCEPT !.strategy = "labelArithmetic"]
Demand == [url |-> TRUE, bootTimeoutSeconds |-> 300, identifiers |-> TRUE]

Served == {
  Config,
  [Config EXCEPT !.mapping = Single],
  [Config EXCEPT !.mapping = [Single EXCEPT !.portName = None, !.portPath = "port"]],
  [Config EXCEPT !.mapping = [Single EXCEPT !.portName = None]],
  [Config EXCEPT !.mapping.addressPath = "array", !.mapping.addressType = "PodIP"],
  [Config EXCEPT !.mapping.addressPath = "array"],
  [Config EXCEPT !.mapping.ports = <<To("game", "g", "port"), To("rcon", None, "port")>>],
  [Config EXCEPT !.mapping.ports = ThreeMappings \o <<To("game", "r", None)>>],
  [Config EXCEPT !.mapping.ports = <<>>],
  [Config EXCEPT !.dataPorts = <<On("g", 7777, "udp"), On("r", 7777, "tcp")>>,
                 !.mapping.ports = <<To("g", "r", None), To("r", "g", None)>>],
  [Config EXCEPT !.dataPorts[3] = On("query", 7777, "udp")],
  [Config EXCEPT !.dataPorts[3] = On("game", 27015, "udp")],
  [Config EXCEPT !.dataPorts = None, !.dataPort = 7000, !.mapping = Single],
  [Config EXCEPT !.dataPorts = None, !.mapping = Single],
  [Config EXCEPT !.mapping = [Single EXCEPT !.addressPath = None,
                                            !.serviceLabel = "s", !.servicePort = "sp"]],
  [Config EXCEPT !.mapping = [Single EXCEPT !.addressPath = None]],
  [Config EXCEPT !.mapping.pods = FALSE],
  [Config EXCEPT !.mapping = None],
  [Config EXCEPT !.demand = Demand],
  ByLabels,
  [ByLabels EXCEPT !.overlap = 1, !.mapping = Single]}

Refused == {
  [Config EXCEPT !.queryPort = 0],
  [Config EXCEPT !.dataPorts = <<>>],
  [Config EXCEPT !.dataPorts[2] = On("rcon", 0, "tcp")],
  [Config EXCEPT !.dataPorts[2] = On("", 7777, "tcp")],
  [Config EXCEPT !.endpoint = FALSE],
  [Config EXCEPT !.demand = [Demand EXCEPT !.url = FALSE]],
  [Config EXCEPT !.demand = [Demand EXCEPT !.bootTimeoutSeconds = 0]],
  [Config EXCEPT !.demand = [Demand EXCEPT !.identifiers = FALSE]],
  [Config EXCEPT !.demand = Demand, !.mapping = None],
  [Config EXCEPT !.demand = Demand, !.mapping.pods = FALSE]}

AllConfigs == Served \cup Refused

At(name, number) == [name |-> name, number |-> number]

Pod(ip) ==
  [ip |-> ip,
   addresses |-> <<[type |-> "InternalIP", ip |-> "node"], [type |-> "PodIP", ip |-> ip]>>,
   statusPorts |-> <<>>,
   containerPorts |-> <<At("g", 1), At("r", 2), At("q", 3)>>,
   at |-> [path \in {"port"} |-> 4],
   services |-> <<[ip |-> "service", ports |-> <<At("other", 5)>>],
                  [ip |-> "service", ports |-> <<At("sp", 6)>>]>>,
   current |-> 1, max |-> 3]

Some(ip) == {
  Pod(ip),
  [Pod(ip) EXCEPT !.statusPorts = <<At("g", None), At("g", 7), At("g", 8)>>, !.current = None],
  [Pod(ip) EXCEPT !.containerPorts = <<At("g", 65536), At("r", 2)>>,
                  !.addresses = <<>>, !.services = <<>>, !.current = NotInt],
  [Pod(ip) EXCEPT !.at["port"] = None, !.max = None],
  [Pod(ip) EXCEPT !.ip = None, !.max = NotInt],
  [Pod(ip) EXCEPT !.current = 0, !.max = -16],
  [Pod(ip) EXCEPT !.current = 3]}

Ip == [p \in Pods |-> IF p = p1 THEN "ip1" ELSE "ip2"]
AllFacts == [p \in Pods |-> Some(Ip[p])]

\* Pods compete where a list chooses by labels, and plain ones by sessions; elsewhere
\* the second one has no address.
EachBesideAnother ==
  /\ Init
  /\ \/ config.strategy = "labelArithmetic"
     \/ config = Config /\ \A p \in Pods : pods[p] = Pod(Ip[p])
     \/ pods[p2].ip = None

MCSpec == EachBesideAnother /\ [][Next]_vars
=============================================================================
