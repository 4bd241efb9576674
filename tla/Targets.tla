------------------------------ MODULE Targets ------------------------------
(***************************************************************************)
(* From a configuration and the Pods to the addresses packets go to.  The  *)
(* director works a target out twice, by different code: process_access    *)
(* for a client that asked (extract_target_info and its multi-port form),  *)
(* query_default_endpoint for one that did not (load balancer, then        *)
(* extract_endpoint_target_multi_port, then a cache), in steps that other  *)
(* first packets come between.  A query is one step; QueryServer, Sessions *)
(* and DefaultEndpoint have more of the interleavings, but know a target   *)
(* only as a Pod.  There is one client: what the load balancer sees of     *)
(* several, it sees of one whose session is dropped in between.            *)
(*                                                                         *)
(* HashMaps are functions: of several entries with one key the last stays. *)
(* A JSONPath stands for what it resolves to in a Pod.                     *)
(***************************************************************************)
EXTENDS Integers, Sequences, FiniteSets, FiniteSetsExt

CONSTANTS
  Configs,      \* the configuration files
  Pods,
  Rank,         \* Pod -> its place in the order Kubernetes lists Pods
  FactsOf,      \* Pod -> what can be stored in it
  Addresses,
  Half,         \* 2^63: labels are parsed as i64, which wraps
  MaxSessions,  \* bound: default sessions to one address
  Handlers,     \* bound: first packets handled at a time
  None, NotInt \* nothing there; a label that is no integer

ASSUME TargetsAssumption ==
  /\ Rank \in [Pods -> Nat]
  /\ \A p, q \in Pods : Rank[p] = Rank[q] => p = q
  /\ Half \in Nat \ {0} /\ MaxSessions \in Nat /\ 4 * MaxSessions <= Half
  /\ IsFiniteSet(Handlers)
  /\ None \notin Addresses /\ None \notin Int /\ NotInt \notin Int

DataPort == [name : STRING, key : (0..65535) \X {"udp", "tcp"}]
NumberedPort == [name : STRING, number : Int \cup {None}]
Address == [type : STRING, ip : Addresses]
Service == [ip : Addresses, ports : Seq(NumberedPort)]

\* What serde and the API server see to: lists are lists, a public port is a u16,
\* and what a Pod or a Service has for an address is one.
ASSUME ConfigsAssumption ==
  \A c \in Configs :
    /\ c.dataPorts # None => c.dataPorts \in Seq(DataPort)
    /\ c.mapping # None /\ c.mapping.ports # None =>
         Len(c.mapping.ports) \in Nat /\ DOMAIN c.mapping.ports = 1..Len(c.mapping.ports)

ASSUME FactsAssumption ==
  \A p \in Pods : \A pod \in FactsOf[p] :
    /\ pod.ip \in Addresses \cup {None}
    /\ pod.addresses \in Seq(Address)
    /\ pod.services \in Seq(Service)

VARIABLES
  config,
  pods,     \* Pod -> its facts
  phase,    \* "starting", "running", or "refused" by validate
  counts,   \* session_counts of the data proxy's load balancer
  cache,    \* default_endpoint_cache
  session,  \* the target of the client's session
  handlers, \* the first packets under way in establish_default_session
  told,     \* history: the Success that came with the client's session
  listed    \* history: of counts, the sessions whose backend a list gave

vars == <<config, pods, phase, counts, cache, session, handlers, told, listed>>

Idle == [at |-> "idle", key |-> None, fills |-> FALSE, from |-> "list", target |-> None]

Init ==
  /\ config \in Configs
  /\ pods \in [Pods -> UNION {FactsOf[p] : p \in Pods}]
  /\ \A p \in Pods : pods[p] \in FactsOf[p]
  /\ phase = "starting"
  /\ counts = [a \in Addresses |-> 0]
  /\ cache = None /\ session = None
  /\ handlers = [h \in Handlers |-> Idle]
  /\ told = None
  /\ listed = [a \in Addresses |-> 0]

-----------------------------------------------------------------------------
(* Config *)

Port16 == 0..65535
Names(entries) == {entries[i].name : i \in DOMAIN entries}
Keys(dataPorts) == {dataPorts[i].key : i \in DOMAIN dataPorts}

\* get_data_ports: without a list there is one UDP port.  A key is the public
\* port with its protocol.
DataPorts ==
  LET one(n) == <<[name |-> "default", key |-> <<n, "udp">>]>>
  IN IF config.dataPorts # None THEN config.dataPorts
     ELSE IF config.dataPort # None THEN one(config.dataPort)
     ELSE one(7777)

\* validate; "endpoint" says that the default endpoint has a resource type and a
\* namespace and that there are mappings at all.
Valid ==
  /\ config.demand # None =>
       /\ config.demand.url
       /\ config.demand.bootTimeoutSeconds > 0
       /\ config.demand.identifiers
       /\ config.mapping # None /\ config.mapping.pods
  /\ config.queryPort # 0
  /\ DataPorts # <<>>
  /\ \A i \in DOMAIN DataPorts : DataPorts[i].key[1] # 0 /\ DataPorts[i].name # ""
  /\ config.endpoint

-----------------------------------------------------------------------------
(* K8sClient *)

\* The first entry with that name and a number in it.
FirstNamed(entries, name) ==
  LET hits == {i \in DOMAIN entries : entries[i].name = name /\ entries[i].number # None}
  IN IF hits = {} THEN None ELSE entries[Min(hits)].number

\* Faulty: any number is taken for a port.
U16Unchecked(number) == number

U16(number) == IF number \in Port16 THEN number ELSE None

\* extract_port: a name goes before a path, status.ports before the containers.
PortOf(pod, m) ==
  IF m.portName # None
  THEN IF FirstNamed(pod.statusPorts, m.portName) # None
       THEN U16(FirstNamed(pod.statusPorts, m.portName))
       ELSE U16(FirstNamed(pod.containerPorts, m.portName))
  ELSE IF m.portPath # None THEN U16(pod.at[m.portPath])
  ELSE None

\* Faulty: the ports are filed under their name in the Pod.
PortsByPortName(pod, ms) ==
  IF \E i \in DOMAIN ms : PortOf(pod, ms[i]) = None THEN None
  ELSE [n \in {ms[i].portName : i \in DOMAIN ms} |->
          PortOf(pod, ms[Max({i \in DOMAIN ms : ms[i].portName = n})])]

\* extract_ports: one port that is missing fails them all.
PortsOf(pod, ms) ==
  IF \E i \in DOMAIN ms : PortOf(pod, ms[i]) = None THEN None
  ELSE [n \in Names(ms) |-> PortOf(pod, ms[Max({i \in DOMAIN ms : ms[i].name = n})])]

\* extract_address: a string, or the first of a type in an array.
AddressOf(pod, m) ==
  LET hits == {i \in DOMAIN pod.addresses : pod.addresses[i].type = m.addressType}
  IN IF m.addressType = None /\ m.addressPath = "string" THEN pod.ip
     ELSE IF m.addressType # None /\ m.addressPath = "array" /\ hits # {}
     THEN pod.addresses[Min(hits)].ip
     ELSE None

\* find_service_for_resource: the first Service labelled for the Pod that has the
\* port; its number is only cast.
ServiceOf(pod, portName) ==
  LET hits == {i \in DOMAIN pod.services : FirstNamed(pod.services[i].ports, portName) # None}
      service == pod.services[Min(hits)]
  IN IF hits = {} THEN None
     ELSE [ip |-> service.ip, port |-> FirstNamed(service.ports, portName) % 65536]

-----------------------------------------------------------------------------
(* QueryServer: a target, and the public ports the client is told *)

\* extract_multi_port_target_info, or extract_target_info: when they succeed ...
Extracts(pod, m) ==
  IF m.ports # None
  THEN m.addressPath # None /\ AddressOf(pod, m) # None /\ PortsOf(pod, m.ports) # None
  ELSE IF m.addressPath # None
  THEN AddressOf(pod, m) # None /\ PortOf(pod, m) # None
  ELSE /\ m.serviceLabel # None /\ m.servicePort # None
       /\ ServiceOf(pod, m.servicePort) # None

\* ... and what they find: a single port goes under the name of every data port.
Extracted(pod, m) ==
  LET all(n) == [name \in Names(DataPorts) |-> n]
      service == ServiceOf(pod, m.servicePort)
  IN IF m.ports # None THEN [ip |-> AddressOf(pod, m), ports |-> PortsOf(pod, m.ports)]
     ELSE IF m.addressPath # None
     THEN [ip |-> AddressOf(pod, m), ports |-> all(PortOf(pod, m))]
     ELSE [ip |-> service.ip, ports |-> all(service.port)]

LastOn(key) == Max({i \in DOMAIN DataPorts : DataPorts[i].key = key})
LastNamed(name) == Max({i \in DOMAIN DataPorts : DataPorts[i].name = name})

\* Every data port needs a port of the Pod.
QueryTarget(pod) ==
  LET found == Extracted(pod, config.mapping)
  IN IF config.mapping = None \/ ~config.mapping.pods THEN None
     ELSE IF ~Extracts(pod, config.mapping) THEN None
     ELSE IF ~(Names(DataPorts) \subseteq DOMAIN found.ports) THEN None
     ELSE [ip |-> found.ip,
           routes |-> [key \in Keys(DataPorts) |-> found.ports[DataPorts[LastOn(key)].name]]]

PublicPorts == [name \in Names(DataPorts) |-> DataPorts[LastNamed(name)].key[1]]

-----------------------------------------------------------------------------
(* LoadBalancer *)

\* Subtraction wraps in a release build.
Fits(n) == n \in -Half..(Half - 1)
Wrap(n) == IF Fits(n) THEN n ELSE ((n + Half) % (2 * Half)) - Half

Current(pod) == IF pod.current = None THEN 0 ELSE pod.current
Sessions(pod) == counts[AddressOf(pod, config.mapping)]

Available(pod) == Wrap(pod.max - Current(pod) - Sessions(pod) - config.overlap)

\* Faulty: the documented test, with the new session not counted.
HasRoomForNone(pod) ==
  /\ pod.max \notin {None, NotInt} /\ Current(pod) # NotInt
  /\ Available(pod) >= 0

\* Labels that are there and integers, and more than nothing left.
HasRoom(pod) ==
  /\ pod.max \notin {None, NotInt} /\ Current(pod) # NotInt
  /\ Available(pod) > 0

\* The keys the stable sorts go by; the list's order decides the rest.
Before(p, q) ==
  LET order == Rank[p] <= Rank[q]
      load == <<Current(pods[p]), Current(pods[q])>>
  IN IF config.strategy = "labelArithmetic"
     THEN \/ Available(pods[p]) > Available(pods[q])
          \/ /\ Available(pods[p]) = Available(pods[q])
             /\ load[1] < load[2] \/ (load[1] = load[2] /\ order)
     ELSE \/ Sessions(pods[p]) < Sessions(pods[q])
          \/ Sessions(pods[p]) = Sessions(pods[q]) /\ order

Candidates(found) ==
  {p \in found : /\ AddressOf(pods[p], config.mapping) # None
                 /\ config.strategy = "labelArithmetic" => HasRoom(pods[p])}

\* select_backend
Selected(found, p) ==
  /\ p \in Candidates(found)
  /\ \A q \in Candidates(found) : Before(p, q)

-----------------------------------------------------------------------------
(* DataProxy: a target for a client without a session *)

\* Faulty: only the first data port is mapped when one port serves them all.
DefaultTargetFirstPort(pod) ==
  LET m == config.mapping
      ip == AddressOf(pod, m)
      ports == PortsOf(pod, m.ports)
      covered == {i \in DOMAIN DataPorts : DataPorts[i].name \in DOMAIN ports}
      last(key) == Max({i \in covered : DataPorts[i].key = key})
  IN IF m.addressPath = None \/ ip = None THEN None
     ELSE IF m.ports # None
     THEN IF ports = None THEN None
          ELSE [ip |-> ip, routes |-> [key \in {DataPorts[i].key : i \in covered} |->
                                         ports[DataPorts[last(key)].name]]]
     ELSE IF PortOf(pod, m) = None THEN None
     ELSE [ip |-> ip, routes |-> [key \in {DataPorts[1].key} |-> PortOf(pod, m)]]

\* extract_endpoint_target_multi_port: data ports without a mapping are left out.
DefaultTarget(pod) ==
  LET m == config.mapping
      ip == AddressOf(pod, m)
      ports == PortsOf(pod, m.ports)
      covered == {i \in DOMAIN DataPorts : DataPorts[i].name \in DOMAIN ports}
      last(key) == Max({i \in covered : DataPorts[i].key = key})
  IN IF m.addressPath = None \/ ip = None THEN None
     ELSE IF m.ports # None
     THEN IF ports = None THEN None
          ELSE [ip |-> ip, routes |-> [key \in {DataPorts[i].key : i \in covered} |->
                                         ports[DataPorts[last(key)].name]]]
     ELSE IF PortOf(pod, m) = None THEN None
     ELSE [ip |-> ip, routes |-> [key \in Keys(DataPorts) |-> PortOf(pod, m)]]

-----------------------------------------------------------------------------
(* The director *)

Load ==
  /\ phase = "starting"
  /\ phase' = IF Valid THEN "running" ELSE "refused"
  /\ UNCHANGED <<config, pods, counts, cache, session, handlers, told, listed>>

\* process_access has chosen a Pod: its target becomes the client's session, in
\* place of another.  A query that ends in an error changes nothing.
Query(p) ==
  /\ phase = "running"
  /\ QueryTarget(pods[p]) # None
  /\ session' = QueryTarget(pods[p])
  /\ told' = [pod |-> p, ports |-> PublicPorts]
  /\ UNCHANGED <<config, pods, phase, counts, cache, handlers, listed>>

\* A packet or connection finds no session.
FirstPacket(h, key) ==
  /\ phase = "running" /\ session = None
  /\ handlers[h].at = "idle"
  /\ handlers' = [handlers EXCEPT ![h] = [Idle EXCEPT !.at = "check", !.key = key]]
  /\ UNCHANGED <<config, pods, phase, counts, cache, session, told, listed>>

Unchanged == UNCHANGED <<config, pods, phase>>
Done(h) == handlers' = [handlers EXCEPT ![h] = Idle]

\* With a target that serves the port the handler goes on to its session.
Use(h, target, from) ==
  IF handlers[h].key \in DOMAIN target.routes
  THEN handlers' = [handlers EXCEPT ![h] = [Idle EXCEPT !.at = "insert", !.from = from,
                                                       !.target = target]]
  ELSE Done(h)

Hit(h) == cache # None /\ handlers[h].key \in DOMAIN cache.routes

\* The cached endpoint serves the port; the read guard is kept to the end.
FromCache(h) ==
  /\ handlers[h].at = "check"
  /\ Hit(h)
  /\ Use(h, cache, "cache")
  /\ UNCHANGED <<counts, cache, session, told, listed>> /\ Unchanged

\* Otherwise the guard is dropped and Kubernetes asked for the Pods that match.
CacheMiss(h) ==
  /\ handlers[h].at = "check"
  /\ ~Hit(h)
  /\ handlers' = [handlers EXCEPT ![h].at = "list", ![h].fills = (cache = None)]
  /\ UNCHANGED <<counts, cache, session, told, listed>> /\ Unchanged

\* The list is there: the counts are read and a backend chosen.
FromList(h, found, p) ==
  /\ handlers[h].at = "list"
  /\ config.mapping # None
  /\ config.mapping.addressPath # None
  /\ Selected(found, p)
  /\ LET target == DefaultTarget(pods[p]) IN
     /\ target # None
     /\ IF handlers[h].fills
        THEN handlers' = [handlers EXCEPT ![h].at = "fill", ![h].target = target]
        ELSE Use(h, target, "list")
  /\ UNCHANGED <<counts, cache, session, told, listed>> /\ Unchanged

\* The list fails, nothing in it has room, or the chosen Pod lacks a port.
ListFails(h) ==
  /\ handlers[h].at = "list"
  /\ Done(h)
  /\ UNCHANGED <<counts, cache, session, told, listed>> /\ Unchanged

Unread == \A h \in Handlers : handlers[h].from = "list"

\* What was found while the cache was empty is written to it, whether or not it
\* serves the port, and whatever is there by now.
Fill(h) ==
  /\ handlers[h].at = "fill"
  /\ Unread
  /\ cache' = handlers[h].target
  /\ Use(h, handlers[h].target, "list")
  /\ UNCHANGED <<counts, session, told, listed>> /\ Unchanged

\* upsert_multi_port, in place of a query's route if there is one by now.
Insert(h) ==
  /\ handlers[h].at = "insert"
  /\ session' = handlers[h].target /\ told' = None
  /\ handlers' = [handlers EXCEPT ![h].at = "count"]
  /\ UNCHANGED <<counts, cache, listed>> /\ Unchanged

\* increment_session
Count(h) == LET a == handlers[h].target.ip IN
  /\ handlers[h].at = "count"
  /\ counts[a] < MaxSessions
  /\ counts' = [counts EXCEPT ![a] = @ + 1]
  /\ listed' = IF handlers[h].from = "list" THEN [listed EXCEPT ![a] = @ + 1] ELSE listed
  /\ Done(h)
  /\ UNCHANGED <<cache, session, told>> /\ Unchanged

\* The cleanup of an inactive session; its count stays (see DefaultEndpoint).
Expire ==
  /\ session # None
  /\ session' = None /\ told' = None
  /\ UNCHANGED <<config, pods, phase, counts, cache, handlers, listed>>

\* The resource monitor saw another first Pod.
Invalidate ==
  /\ phase = "running"
  /\ cache # None
  /\ Unread
  /\ cache' = None
  /\ UNCHANGED <<config, pods, phase, counts, session, handlers, told, listed>>

HandlerStep(h) ==
  \/ \E key \in Keys(DataPorts) : FirstPacket(h, key)
  \/ FromCache(h) \/ CacheMiss(h)
  \/ \E found \in SUBSET Pods, p \in Pods : FromList(h, found, p)
  \/ ListFails(h) \/ Fill(h) \/ Insert(h) \/ Count(h)

Next ==
  \/ Load
  \/ \E p \in Pods : Query(p)
  \/ \E h \in Handlers : HandlerStep(h)
  \/ Expire \/ Invalidate

Spec == Init /\ [][Next]_vars

-----------------------------------------------------------------------------
(* Properties *)

IsTarget(t) ==
  /\ t.ip \in Addresses
  /\ DOMAIN t.routes \subseteq Keys(DataPorts)
  /\ \A key \in DOMAIN t.routes : t.routes[key] \in Port16

\* One type invariant; a session leads somewhere, and so does one about to be.
TypeOK ==
  /\ config \in Configs
  /\ \A p \in Pods : pods[p] \in FactsOf[p]
  /\ phase \in {"starting", "running", "refused"}
  /\ counts \in [Addresses -> 0..MaxSessions]
  /\ cache # None => IsTarget(cache)
  /\ session # None => IsTarget(session) /\ session.routes # <<>>
  /\ \A h \in Handlers : LET handler == handlers[h] IN
       /\ handler.at \in {"idle", "check", "list", "fill", "insert", "count"}
       /\ handler.at \in {"fill", "insert", "count"} => IsTarget(handler.target)
       /\ handler.at \in {"insert", "count"} => handler.target.routes # <<>>
  /\ listed \in [Addresses -> 0..MaxSessions]
  /\ told # None => session # None /\ told.pod \in Pods

\* The two pieces of code that turn a Pod into a target agree: a client that asked
\* and one that did not reach the same address and ports of a Pod.  They differ in
\* two ways only: a query can go through a Service, and it fails if a data port has
\* no mapping, where a default route does without that port.
PathsAgree ==
  LET m == config.mapping
      complete == m.ports # None => Names(DataPorts) \subseteq Names(m.ports)
  IN phase = "running" /\ m # None /\ m.pods /\ m.addressPath # None =>
       \A p \in Pods :
         QueryTarget(pods[p]) = IF complete THEN DefaultTarget(pods[p]) ELSE None

Distinct == \A i, j \in DOMAIN DataPorts : i # j =>
  /\ DataPorts[i].name # DataPorts[j].name
  /\ DataPorts[i].key # DataPorts[j].key

\* The port of a Pod that is configured for a data port.
IsConfigured(pod, name, port) ==
  LET m == config.mapping
  IN IF m.ports # None
     THEN \E i \in DOMAIN m.ports : m.ports[i].name = name /\ port = PortOf(pod, m.ports[i])
     ELSE IF m.addressPath # None THEN port = PortOf(pod, m)
     ELSE port = ServiceOf(pod, m.servicePort).port

\* What Success promises: traffic on the public port the client was told under a
\* name goes to the port its Pod has for that name, though names, public ports and
\* the Pod's own port names are three vocabularies.  validate does not see to it
\* that they can be told apart, so this is for configurations where they can.
ToldPortsLead ==
  told # None /\ Distinct =>
    \A i \in DOMAIN DataPorts :
      LET name == DataPorts[i].name
          key == DataPorts[i].key
      IN /\ told.ports[name] = key[1]
         /\ key \in DOMAIN session.routes
         /\ IsConfigured(pods[told.pod], name, session.routes[key])

\* Numbers, and labels, that leave room for the arithmetic.
Small(n) == n \in Nat /\ 4 * n < Half
Sane(label) == label \in {None, NotInt} \/ Small(label)

\* The default sessions to an address whose backend a list gave, counted or not yet.
Waiting(a) ==
  {h \in Handlers : /\ handlers[h].at \in {"fill", "insert", "count"}
                    /\ handlers[h].from = "list"
                    /\ handlers[h].target.ip = a}
Placed(a) == listed[a] + Cardinality(Waiting(a))

\* "This ensures: current + sessions + overlap <= max" - up to the first packets under
\* way.  The count is read before the session is counted, so they can choose one
\* backend side by side; each but the first is one too many at most, whichever labels
\* are missing or no integers.  With one packet at a time the formula is exact.  (A
\* session from the cache is not in it: the cached endpoint takes every new client
\* whatever its labels and counts.)
RoomLeft ==
  /\ config.strategy = "labelArithmetic"
  /\ Small(config.overlap)
  /\ \A p \in Pods : Sane(pods[p].current) /\ Sane(pods[p].max)
  => \A a \in Addresses : Placed(a) > 0 =>
       \E p \in Pods :
         /\ AddressOf(pods[p], config.mapping) = a
         /\ pods[p].max \notin {None, NotInt} /\ Current(pods[p]) # NotInt
         /\ Current(pods[p]) + Placed(a) + config.overlap
              <= pods[p].max + (Cardinality(Handlers) - 1)
=============================================================================
