--------------------------- MODULE Targets_proofs ---------------------------
(***************************************************************************)
(* What holds of Targets for every configuration, every Pod and all sizes  *)
(* of numbers: targets have an address and 16-bit ports, the two ways to a *)
(* target agree, and the label arithmetic keeps the room it promises but   *)
(* for the first packets under way.                                        *)
(***************************************************************************)
EXTENDS Targets, FiniteSetTheorems, WellFoundedInduction, TLAPS

\* A set of indices has a largest one: the natural numbers are well founded.
LEMMA MaxIsLargest ==
  ASSUME NEW n \in Nat, NEW S \in SUBSET (1..n), S # {}
  PROVE  Max(S) \in S /\ \A y \in S : y <= Max(S)
<1> DEFINE T == {n - i : i \in S}
<1>1. T \subseteq Nat /\ T # {}
  OBVIOUS
<1>2. PICK x \in T : \A y \in T : ~(<<y, x>> \in OpToRel(<, Nat))
  <2> HIDE DEF T
  <2> QED BY <1>1, WFMin, NatLessThanWellFounded, Zenon
<1>3. \A y \in T : <<y, x>> \in Nat \X Nat
  BY <1>1
<1>4. \A y \in T : ~(y < x)
  <2> HIDE DEF T
  <2> TAKE y \in T
  <2>1. <<y, x>> \in Nat \X Nat /\ <<y, x>>[1] = y /\ <<y, x>>[2] = x
    BY <1>3
  <2> QED BY <2>1, <1>2, Zenon DEF OpToRel
<1>5. PICK i \in S : x = n - i
  OBVIOUS
<1>6. \A y \in S : i >= y
  <2> TAKE y \in S
  <2>1. n - y \in T /\ ~(n - y < n - i)
    BY <1>4, <1>5
  <2> QED BY <2>1
<1>7. \E j \in S : \A y \in S : j >= y
  BY <1>6
<1> QED BY <1>7 DEF Max

\* What a list holds.
LEMMA Element ==
  ASSUME NEW S, NEW list \in Seq(S)
  PROVE  /\ Len(list) \in Nat /\ DOMAIN list = 1..Len(list)
         /\ \A i \in DOMAIN list : list[i] \in S
         /\ list # <<>> => 1 \in DOMAIN list
OBVIOUS

LEMMA NothingInEmpty == \A i : i \notin DOMAIN <<>>
OBVIOUS

\* The data ports are a sequence.
LEMMA DataPortsAreSequence ==
  ASSUME config \in Configs
  PROVE  \E n \in Nat : DOMAIN DataPorts = 1..n
<1>1. CASE config.dataPorts # None
  <2>1. DataPorts = config.dataPorts
    BY <1>1 DEF DataPorts
  <2> QED BY <1>1, <2>1, ConfigsAssumption, Element
<1>2. CASE config.dataPorts = None
  <2>1. \E x : DataPorts = <<x>>
    BY <1>2 DEF DataPorts
  <2> QED BY <2>1
<1> QED BY <1>1, <1>2

\* Every key is that of a data port, the last one on it.
LEMMA LastOnIsThere ==
  ASSUME config \in Configs, NEW key \in Keys(DataPorts)
  PROVE  LastOn(key) \in DOMAIN DataPorts /\ DataPorts[LastOn(key)].key = key
<1> DEFINE S == {i \in DOMAIN DataPorts : DataPorts[i].key = key}
<1>1. PICK n \in Nat : DOMAIN DataPorts = 1..n
  BY DataPortsAreSequence
<1>2. S # {} /\ S \in SUBSET (1..n)
  BY <1>1 DEF Keys
<1>3. Max(S) \in S
  <2> HIDE DEF S
  <2> QED BY <1>2, MaxIsLargest
<1> QED BY <1>3 DEF LastOn

\* With a port for every data port both ways lead to the same target.
LEMMA CompleteAgrees ==
  ASSUME config \in Configs, NEW pod,
         config.mapping # None, config.mapping.pods, config.mapping.addressPath # None,
         config.mapping.ports # None => Names(DataPorts) \subseteq Names(config.mapping.ports)
  PROVE  QueryTarget(pod) = DefaultTarget(pod)
<1> DEFINE m == config.mapping
           ports == PortsOf(pod, m.ports)
<1>1. CASE AddressOf(pod, m) = None
  BY <1>1 DEF QueryTarget, DefaultTarget, Extracts
<1>2. CASE AddressOf(pod, m) # None /\ m.ports # None /\ ports = None
  BY <1>2 DEF QueryTarget, DefaultTarget, Extracts
<1>3. CASE AddressOf(pod, m) # None /\ m.ports # None /\ ports # None
  <2>1. DOMAIN ports = Names(m.ports)
    BY <1>3 DEF PortsOf
  <2>2. {i \in DOMAIN DataPorts : DataPorts[i].name \in DOMAIN ports} = DOMAIN DataPorts
    BY <1>3, <2>1 DEF Names
  <2>3. QueryTarget(pod) =
          [ip |-> AddressOf(pod, m),
           routes |-> [key \in Keys(DataPorts) |-> ports[DataPorts[LastOn(key)].name]]]
    BY <1>3, <2>1 DEF QueryTarget, Extracts, Extracted
  <2>4. DefaultTarget(pod) =
          [ip |-> AddressOf(pod, m),
           routes |-> [key \in {DataPorts[i].key : i \in DOMAIN DataPorts} |->
             ports[DataPorts[Max({i \in DOMAIN DataPorts : DataPorts[i].key = key})].name]]]
    BY <1>3, <2>2 DEF DefaultTarget
  <2> QED BY <2>3, <2>4 DEF Keys, LastOn
<1>4. CASE AddressOf(pod, m) # None /\ m.ports = None /\ PortOf(pod, m) = None
  BY <1>4 DEF QueryTarget, DefaultTarget, Extracts
<1>5. CASE AddressOf(pod, m) # None /\ m.ports = None /\ PortOf(pod, m) # None
  <2> DEFINE all == [name \in Names(DataPorts) |-> PortOf(pod, m)]
  <2>1. QueryTarget(pod) =
          [ip |-> AddressOf(pod, m),
           routes |-> [key \in Keys(DataPorts) |-> all[DataPorts[LastOn(key)].name]]]
    BY <1>5 DEF QueryTarget, Extracts, Extracted
  <2>2. \A key \in Keys(DataPorts) : all[DataPorts[LastOn(key)].name] = PortOf(pod, m)
    BY LastOnIsThere DEF Names
  <2>3. DefaultTarget(pod) =
          [ip |-> AddressOf(pod, m), routes |-> [key \in Keys(DataPorts) |-> PortOf(pod, m)]]
    BY <1>5 DEF DefaultTarget
  <2> HIDE DEF all
  <2> QED BY <2>1, <2>2, <2>3
<1> QED BY <1>1, <1>2, <1>3, <1>4, <1>5

\* Without one a query fails.
LEMMA IncompleteFails ==
  ASSUME NEW pod,
         config.mapping # None, config.mapping.pods, config.mapping.addressPath # None,
         config.mapping.ports # None, ~(Names(DataPorts) \subseteq Names(config.mapping.ports))
  PROVE  QueryTarget(pod) = None
<1> DEFINE ports == PortsOf(pod, config.mapping.ports)
<1>1. CASE ports = None
  BY <1>1 DEF QueryTarget, Extracts
<1>2. CASE ports # None
  <2>1. DOMAIN ports = Names(config.mapping.ports)
    BY <1>2 DEF PortsOf
  <2> QED BY <2>1 DEF QueryTarget, Extracted
<1> QED BY <1>1, <1>2

\* The configuration and the Pods are given once.
LEMMA SameFiles ==
  ASSUME [Next]_vars
  PROVE  config' = config /\ pods' = pods
BY Zenon DEF Next, vars, Load, Query, HandlerStep, FirstPacket, FromCache, CacheMiss, FromList,
       ListFails, Fill, Insert, Count, Unchanged, Expire, Invalidate

\* For every configuration and every Pod, the director's two ways from a Pod to a
\* target lead to the same address and ports.
THEOREM PathsAlwaysAgree == Spec => []PathsAgree
<1>1. Init => config \in Configs
  BY DEF Init
<1>2. config \in Configs /\ [Next]_vars => (config \in Configs)'
  BY SameFiles
<1>3. config \in Configs => PathsAgree
  BY CompleteAgrees, IncompleteFails DEF PathsAgree
<1> QED BY <1>1, <1>2, <1>3, PTL DEF Spec

-----------------------------------------------------------------------------

\* The port of a Pod filed under a name is that of a mapping with the name.
LEMMA FiledUnderName ==
  ASSUME config \in Configs, config.mapping # None, config.mapping.ports # None,
         NEW pod, PortsOf(pod, config.mapping.ports) # None,
         NEW name \in Names(config.mapping.ports)
  PROVE  \E j \in DOMAIN config.mapping.ports :
           /\ config.mapping.ports[j].name = name
           /\ PortsOf(pod, config.mapping.ports)[name] = PortOf(pod, config.mapping.ports[j])
<1> DEFINE ms == config.mapping.ports
           S == {j \in DOMAIN ms : ms[j].name = name}
<1>1. PICK n \in Nat : DOMAIN ms = 1..n
  BY ConfigsAssumption
<1>2. S # {} /\ S \in SUBSET (1..n)
  BY <1>1 DEF Names
<1>3. Max(S) \in S
  <2> HIDE DEF S
  <2> QED BY <1>2, MaxIsLargest
<1>4. PortsOf(pod, ms)[name] = PortOf(pod, ms[Max(S)])
  BY DEF PortsOf
<1> QED BY <1>3, <1>4

\* When names and public ports can be told apart, a query's target has for each data
\* port what the mapping says.
LEMMA QueryLeads ==
  ASSUME config \in Configs, Distinct, NEW pod, QueryTarget(pod) # None,
         NEW i \in DOMAIN DataPorts
  PROVE  /\ PublicPorts[DataPorts[i].name] = DataPorts[i].key[1]
         /\ DataPorts[i].key \in DOMAIN QueryTarget(pod).routes
         /\ IsConfigured(pod, DataPorts[i].name, QueryTarget(pod).routes[DataPorts[i].key])
<1> DEFINE m == config.mapping
           name == DataPorts[i].name
           key == DataPorts[i].key
           found == Extracted(pod, m)
<1>1. key \in Keys(DataPorts) /\ name \in Names(DataPorts)
  BY DEF Keys, Names
<1>2. LastOn(key) = i
  BY <1>1, LastOnIsThere DEF Distinct
<1>3. LastNamed(name) = i
  <2>1. {j \in DOMAIN DataPorts : DataPorts[j].name = name} = {i}
    BY DEF Distinct
  <2>2. i \in Nat
    BY DataPortsAreSequence
  <2> QED BY <2>1, <2>2 DEF LastNamed, Max
<1>4. PublicPorts[name] = key[1]
  BY <1>1, <1>3 DEF PublicPorts
<1>5. /\ m # None /\ Extracts(pod, m) /\ Names(DataPorts) \subseteq DOMAIN found.ports
      /\ QueryTarget(pod) =
           [ip |-> found.ip,
            routes |-> [k \in Keys(DataPorts) |-> found.ports[DataPorts[LastOn(k)].name]]]
  BY DEF QueryTarget
<1>6. key \in DOMAIN QueryTarget(pod).routes /\ QueryTarget(pod).routes[key] = found.ports[name]
  BY <1>1, <1>2, <1>5
<1>7. IsConfigured(pod, name, found.ports[name])
  <2>1. CASE m.ports # None
    <3>1. found.ports = PortsOf(pod, m.ports) /\ PortsOf(pod, m.ports) # None
      BY <1>5, <2>1 DEF Extracted, Extracts
    <3>2. DOMAIN found.ports = Names(m.ports)
      BY <3>1 DEF PortsOf
    <3> QED BY <1>1, <1>5, <2>1, <3>1, <3>2, FiledUnderName DEF IsConfigured
  <2>2. CASE m.ports = None /\ m.addressPath # None
    BY <1>1, <2>2 DEF Extracted, IsConfigured
  <2>3. CASE m.ports = None /\ m.addressPath = None
    BY <1>1, <2>3 DEF Extracted, IsConfigured
  <2> QED BY <2>1, <2>2, <2>3
<1> QED BY <1>4, <1>6, <1>7

\* The configuration is read once.
LEMMA SameConfigSameTargets ==
  ASSUME config' = config
  PROVE  /\ PublicPorts' = PublicPorts
         /\ \A pod : QueryTarget(pod)' = QueryTarget(pod)
<1>1. DataPorts' = DataPorts
  BY DEF DataPorts
<1>2. PublicPorts' = PublicPorts
  BY <1>1 DEF PublicPorts, LastNamed
<1>3. \A pod : QueryTarget(pod)' = QueryTarget(pod)
  BY <1>1 DEF QueryTarget, Extracts, Extracted, LastOn
<1> QED BY <1>2, <1>3

\* The client was told of the session it has.
ToldOfSession ==
  told # None =>
    /\ session # None
    /\ \E pod : pod = pods[told.pod] /\ session = QueryTarget(pod)
    /\ told.ports = PublicPorts

\* For every configuration whose names and public ports can be told apart, traffic
\* on the ports of a Success goes where the mapping says.
THEOREM ToldPortsAlwaysLead == Spec => []ToldPortsLead
<1> DEFINE Inv == config \in Configs /\ ToldOfSession
<1>1. Init => Inv
  BY DEF Init, ToldOfSession
<1>2. Inv /\ [Next]_vars => Inv'
  <2> SUFFICES ASSUME Inv, [Next]_vars PROVE Inv'
    OBVIOUS
  <2>1. CASE UNCHANGED vars \/ Load \/ Invalidate
    <3>1. UNCHANGED <<config, pods, session, told>>
      BY <2>1 DEF vars, Load, Invalidate
    <3> QED BY <3>1, SameConfigSameTargets DEF ToldOfSession
  <2>2. ASSUME NEW p \in Pods, Query(p) PROVE Inv'
    <3> DEFINE pod == pods[p]
    <3>1. /\ UNCHANGED <<config, pods>> /\ QueryTarget(pod) # None
          /\ session' = QueryTarget(pod) /\ told'.pod = p /\ told'.ports = PublicPorts
      BY <2>2 DEF Query
    <3>2. PICK q : q = pods[p]
      OBVIOUS
    <3>3. session' = QueryTarget(q) /\ session' # None
      BY <3>1, <3>2
    <3>4. QueryTarget(q)' = QueryTarget(q) /\ PublicPorts' = PublicPorts
      BY <3>1, SameConfigSameTargets
    <3> QED BY <3>1, <3>2, <3>3, <3>4 DEF ToldOfSession
  <2>3. ASSUME NEW h \in Handlers, HandlerStep(h), ~Insert(h) PROVE Inv'
    <3>1. UNCHANGED <<config, pods, session, told>>
      BY <2>3 DEF HandlerStep, FirstPacket, FromCache, CacheMiss, FromList, ListFails, Fill,
                  Count, Unchanged
    <3> QED BY <3>1, SameConfigSameTargets DEF ToldOfSession
  <2>4. ASSUME NEW h \in Handlers, Insert(h) PROVE Inv'
    BY <2>4 DEF Insert, Unchanged, ToldOfSession
  <2>5. CASE Expire
    BY <2>5 DEF Expire, ToldOfSession
  <2> QED BY <2>1, <2>2, <2>3, <2>4, <2>5 DEF Next
<1>3. Inv => ToldPortsLead
  BY QueryLeads DEF ToldOfSession, ToldPortsLead
<1> QED BY <1>1, <1>2, <1>3, PTL DEF Spec

-----------------------------------------------------------------------------

\* Handlers are records, and one that is still to choose came by no cache.
Handler(r) ==
  /\ DOMAIN r = {"at", "key", "fills", "from", "target"}
  /\ r.at \in {"check", "list", "fill"} => r.from = "list"
Shape ==
  /\ handlers = [h \in Handlers |-> handlers[h]]
  /\ \A h \in Handlers : Handler(handlers[h])

Others(h) == \A g \in Handlers \ {h} : handlers'[g] = handlers[g]

LEMMA Becomes ==
  ASSUME Shape, NEW h \in Handlers, NEW r, Handler(r), handlers' = [handlers EXCEPT ![h] = r]
  PROVE  Shape' /\ Others(h) /\ handlers'[h] = r
BY DEF Shape, Handler, Others

LEMMA IdleIsHandler == Handler(Idle) /\ Idle.at = "idle"
BY DEF Handler, Idle

LEMMA BecomesIdle ==
  ASSUME Shape, NEW h \in Handlers, Done(h)
  PROVE  Shape' /\ Others(h) /\ handlers'[h].at = "idle"
BY IdleIsHandler, Becomes DEF Done

\* A handler with a target goes on with it, or is done with a target it cannot use.
LEMMA UseMoves ==
  ASSUME Shape, NEW h \in Handlers, NEW target, NEW from, Use(h, target, from)
  PROVE  /\ Shape' /\ Others(h)
         /\ \/ handlers'[h].at = "idle"
            \/ /\ handlers[h].key \in DOMAIN target.routes
               /\ handlers'[h].at = "insert" /\ handlers'[h].from = from
               /\ handlers'[h].target = target
<1>1. CASE handlers[h].key \in DOMAIN target.routes
  <2> DEFINE r == [Idle EXCEPT !.at = "insert", !.from = from, !.target = target]
  <2>1. Handler(r) /\ r.at = "insert" /\ r.from = from /\ r.target = target
    BY DEF Handler, Idle
  <2>2. handlers' = [handlers EXCEPT ![h] = r]
    BY <1>1 DEF Use
  <2> HIDE DEF r
  <2> QED BY <1>1, <2>1, <2>2, Becomes
<1>2. CASE handlers[h].key \notin DOMAIN target.routes
  BY <1>2, BecomesIdle DEF Use
<1> QED BY <1>1, <1>2

\* One lemma for each kind of step: a handler that has chosen nothing before and
\* after it ...
Undecided(h) ==
  /\ handlers[h].at \in {"idle", "check", "list"}
  /\ handlers'[h].at \in {"idle", "check", "list"}
  /\ UNCHANGED <<counts, cache, session, told, listed>>

LEMMA FirstPacketMoves ==
  ASSUME Shape, NEW h \in Handlers, NEW key, FirstPacket(h, key)
  PROVE  Shape' /\ Others(h) /\ Undecided(h)
<1> DEFINE r == [Idle EXCEPT !.at = "check", !.key = key]
<1>1. Handler(r) /\ r.at = "check"
  BY DEF Handler, Idle
<1>2. handlers' = [handlers EXCEPT ![h] = r]
  BY DEF FirstPacket
<1> HIDE DEF r
<1>3. Shape' /\ Others(h) /\ handlers'[h].at = "check"
  BY <1>1, <1>2, Becomes
<1> QED BY <1>3 DEF FirstPacket, Undecided

LEMMA UndecidedMoves ==
  ASSUME Shape, NEW h \in Handlers,
         (\E key \in Keys(DataPorts) : FirstPacket(h, key)) \/ CacheMiss(h) \/ ListFails(h)
  PROVE  Shape' /\ Others(h) /\ Undecided(h)
<1>1. ASSUME NEW key, FirstPacket(h, key) PROVE Shape' /\ Others(h) /\ Undecided(h)
  BY <1>1, FirstPacketMoves
<1>2. CASE CacheMiss(h)
  <2> DEFINE was == handlers[h]
  <2>1. PICK empty : empty = (cache = None)
    OBVIOUS
  <2> DEFINE r == [was EXCEPT !.at = "list", !.fills = empty]
  <2>2. Handler(was) /\ was.at = "check"
    BY <1>2 DEF Shape, CacheMiss
  <2>3. Handler(r) /\ r.at = "list"
    <3> HIDE DEF was
    <3> QED BY <2>2 DEF Handler
  <2>4. handlers' = [handlers EXCEPT ![h] = r]
    BY <1>2, <2>1 DEF CacheMiss
  <2> HIDE DEF r
  <2> QED BY <1>2, <2>3, <2>4, Becomes DEF CacheMiss, Undecided
<1>3. CASE ListFails(h)
  BY <1>3, BecomesIdle DEF ListFails, Undecided
<1> QED BY <1>1, <1>2, <1>3

\* ... one that uses the cached endpoint ...
LEMMA FromCacheMoves ==
  ASSUME Shape, NEW h \in Handlers, FromCache(h)
  PROVE  /\ Shape' /\ Others(h)
         /\ handlers[h].at = "check" /\ cache # None
         /\ \/ handlers'[h].at = "idle"
            \/ /\ handlers[h].key \in DOMAIN cache.routes
               /\ handlers'[h].at = "insert" /\ handlers'[h].from = "cache"
               /\ handlers'[h].target = cache
         /\ UNCHANGED <<counts, cache, session, told, listed>>
<1>1. /\ handlers[h].at = "check" /\ cache # None
      /\ UNCHANGED <<counts, cache, session, told, listed>>
  BY DEF FromCache, Hit
<1>2. Use(h, cache, "cache")
  BY DEF FromCache
<1> QED BY <1>1, <1>2, UseMoves

\* ... one that chooses a Pod ...
LEMMA FromListMoves ==
  ASSUME Shape, NEW h \in Handlers, NEW found, NEW p, FromList(h, found, p)
  PROVE  /\ Shape' /\ Others(h)
         /\ Selected(found, p) /\ config.mapping # None /\ DefaultTarget(pods[p]) # None
         /\ handlers[h].at = "list"
         /\ \/ handlers'[h].at = "idle"
            \/ /\ handlers'[h].at = "fill" /\ handlers'[h].from = "list"
               /\ handlers'[h].target = DefaultTarget(pods[p])
            \/ /\ handlers[h].key \in DOMAIN DefaultTarget(pods[p]).routes
               /\ handlers'[h].at = "insert" /\ handlers'[h].from = "list"
               /\ handlers'[h].target = DefaultTarget(pods[p])
         /\ UNCHANGED <<counts, cache, session, told, listed>>
<1> DEFINE target == DefaultTarget(pods[p])
<1>1. /\ handlers[h].at = "list" /\ Selected(found, p)
      /\ config.mapping # None /\ target # None
      /\ IF handlers[h].fills
         THEN handlers' = [handlers EXCEPT ![h].at = "fill", ![h].target = target]
         ELSE Use(h, target, "list")
      /\ UNCHANGED <<counts, cache, session, told, listed>>
  BY DEF FromList
<1> HIDE DEF target
<1>2. CASE handlers[h].fills
  <2> DEFINE was == handlers[h]
             r == [was EXCEPT !.at = "fill", !.target = target]
  <2>1. Handler(was) /\ was.at = "list"
    BY <1>1 DEF Shape
  <2>2. Handler(r) /\ r.at = "fill" /\ r.from = "list" /\ r.target = target
    <3> HIDE DEF was
    <3> QED BY <2>1 DEF Handler
  <2>3. handlers' = [handlers EXCEPT ![h] = r]
    BY <1>1, <1>2
  <2> HIDE DEF r
  <2> QED BY <1>1, <2>2, <2>3, Becomes DEF target
<1>3. CASE ~handlers[h].fills
  <2>1. Use(h, target, "list")
    BY <1>1, <1>3
  <2> QED BY <1>1, <2>1, UseMoves DEF target
<1> QED BY <1>2, <1>3

\* ... and what it does with the Pod.
LEMMA FillMoves ==
  ASSUME Shape, NEW h \in Handlers, Fill(h)
  PROVE  /\ Shape' /\ Others(h)
         /\ handlers[h].at = "fill" /\ handlers[h].from = "list"
         /\ cache' = handlers[h].target
         /\ \/ handlers'[h].at = "idle"
            \/ /\ handlers[h].key \in DOMAIN handlers[h].target.routes
               /\ handlers'[h].at = "insert" /\ handlers'[h].from = "list"
               /\ handlers'[h].target = handlers[h].target
         /\ UNCHANGED <<counts, session, told, listed>>
<1>1. handlers[h].at = "fill" /\ handlers[h].from = "list"
  BY DEF Fill, Shape, Handler
<1>2. Use(h, handlers[h].target, "list")
  BY DEF Fill
<1> QED BY <1>1, <1>2, UseMoves DEF Fill

LEMMA InsertMoves ==
  ASSUME Shape, NEW h \in Handlers, Insert(h)
  PROVE  /\ Shape' /\ Others(h)
         /\ handlers[h].at = "insert"
         /\ handlers'[h].at = "count" /\ handlers'[h].from = handlers[h].from
         /\ handlers'[h].target = handlers[h].target
         /\ session' = handlers[h].target /\ told' = None
         /\ UNCHANGED <<counts, cache, listed>>
<1> DEFINE r == [handlers[h] EXCEPT !.at = "count"]
<1>1. Handler(r) /\ r.at = "count" /\ r.from = handlers[h].from /\ r.target = handlers[h].target
  BY DEF Handler, Shape
<1>2. handlers' = [handlers EXCEPT ![h] = r]
  BY DEF Insert, Shape
<1> HIDE DEF r
<1> QED BY <1>1, <1>2, Becomes DEF Insert

LEMMA CountMoves ==
  ASSUME Shape, NEW h \in Handlers, Count(h)
  PROVE  /\ Shape' /\ Others(h) /\ handlers[h].at = "count" /\ handlers'[h].at = "idle"
         /\ UNCHANGED <<cache, session, told>>
BY BecomesIdle DEF Count

LEMMA ShapeKept ==
  ASSUME Shape, [Next]_vars
  PROVE  Shape'
<1>1. ASSUME NEW h \in Handlers, HandlerStep(h) PROVE Shape'
  BY <1>1, UndecidedMoves, FromCacheMoves, FromListMoves, FillMoves, InsertMoves, CountMoves
     DEF HandlerStep
<1>2. ASSUME handlers' = handlers PROVE Shape'
  BY <1>2 DEF Shape, Handler
<1> QED BY <1>1, <1>2 DEF Next, vars, Load, Query, Expire, Invalidate

LEMMA ShapeAtFirst == Init => Shape
<1> SUFFICES ASSUME Init PROVE Shape
  OBVIOUS
<1>1. handlers = [h \in Handlers |-> Idle]
  BY DEF Init
<1> QED BY <1>1, IdleIsHandler DEF Shape

\* Counts stay within their bound, and what a list placed is counted.
Counted ==
  /\ counts \in [Addresses -> 0..MaxSessions]
  /\ listed \in [Addresses -> 0..MaxSessions]
  /\ \A a \in Addresses : listed[a] <= counts[a]

LEMMA CountedAtFirst == Init => Counted
BY TargetsAssumption DEF Init, Counted

LEMMA CountedKept ==
  ASSUME Counted, [Next]_vars
  PROVE  Counted'
<1>1. ASSUME NEW h \in Handlers, Count(h) PROVE Counted'
  <2> DEFINE a == handlers[h].target.ip
  <2>1. CASE a \in Addresses
    <3>1. /\ counts[a] \in 0..MaxSessions /\ counts[a] < MaxSessions
          /\ listed[a] \in 0..MaxSessions /\ listed[a] <= counts[a] /\ MaxSessions \in Nat
      BY <1>1, <2>1, TargetsAssumption DEF Counted, Count
    <3>2. counts[a] + 1 \in 0..MaxSessions /\ listed[a] + 1 \in 0..MaxSessions
      BY <3>1
    <3>3. /\ counts' = [counts EXCEPT ![a] = counts[a] + 1]
          /\ listed' = listed \/ listed' = [listed EXCEPT ![a] = listed[a] + 1]
      BY <1>1 DEF Count
    <3> HIDE DEF a
    <3>4. counts' \in [Addresses -> 0..MaxSessions] /\ listed' \in [Addresses -> 0..MaxSessions]
      BY <3>2, <3>3 DEF Counted
    <3>5. ASSUME NEW b \in Addresses PROVE listed'[b] <= counts'[b]
      BY <2>1, <3>1, <3>3 DEF Counted
    <3> QED BY <3>4, <3>5 DEF Counted
  <2>2. CASE a \notin Addresses
    BY <1>1, <2>2 DEF Counted, Count
  <2> QED BY <2>1, <2>2
<1>2. ASSUME counts' = counts, listed' = listed PROVE Counted'
  BY <1>2 DEF Counted
<1> QED BY <1>1, <1>2 DEF Next, vars, Load, Query, HandlerStep, FirstPacket, FromCache, CacheMiss,
             FromList, ListFails, Fill, Insert, Expire, Invalidate

\* Within a quarter of the range nothing wraps.
LEMMA SmallDoesNotWrap ==
  ASSUME NEW max, NEW current, NEW overlap, NEW n \in 0..MaxSessions,
         Small(max), Small(current), Small(overlap)
  PROVE  Wrap(max - current - n - overlap) = max - current - n - overlap
<1>1. /\ max \in Nat /\ current \in Nat /\ overlap \in Nat /\ n \in Nat /\ Half \in Nat
      /\ 4 * max < Half /\ 4 * current < Half /\ 4 * overlap < Half /\ 4 * n <= Half
  BY TargetsAssumption DEF Small
<1>2. /\ max - current - n - overlap \in Int
      /\ -Half <= max - current - n - overlap
      /\ max - current - n - overlap <= Half - 1
  BY <1>1
<1> QED BY <1>1, <1>2 DEF Wrap, Fits

\* A selected Pod has room for one more session.
LEMMA SelectedHasRoom ==
  ASSUME NEW p \in Pods, NEW found, Selected(found, p),
         config.strategy = "labelArithmetic",
         Small(config.overlap),
         Sane(pods[p].current), Sane(pods[p].max),
         Sessions(pods[p]) \in 0..MaxSessions
  PROVE  /\ Current(pods[p]) \in Nat /\ config.overlap \in Nat
         /\ Current(pods[p]) + Sessions(pods[p]) + 1 + config.overlap <= pods[p].max
<1> DEFINE pod == pods[p]
<1>1. HasRoom(pod)
  BY DEF Selected, Candidates
<1>2. Small(pod.max)
  BY <1>1 DEF HasRoom, Sane
<1>3. Small(Current(pod))
  BY <1>1, TargetsAssumption DEF HasRoom, Sane, Small, Current
<1>4. Available(pod) = pod.max - Current(pod) - Sessions(pod) - config.overlap
  <2> HIDE DEF pod
  <2> QED BY <1>2, <1>3, SmallDoesNotWrap DEF Available, pod
<1>5. Available(pod) > 0
  BY <1>1 DEF HasRoom
<1>6. /\ pod.max \in Nat /\ Current(pod) \in Nat /\ config.overlap \in Nat
      /\ Sessions(pod) \in Nat
  BY <1>2, <1>3, TargetsAssumption DEF Small
<1> HIDE DEF pod
<1> QED BY <1>4, <1>5, <1>6 DEF pod

\* There are as many waiting as handlers, at most.
LEMMA FewWait ==
  ASSUME NEW a
  PROVE  /\ Cardinality(Handlers) \in Nat
         /\ IsFiniteSet(Waiting(a)) /\ Cardinality(Waiting(a)) \in Nat
         /\ Cardinality(Waiting(a)) <= Cardinality(Handlers)
<1>1. Waiting(a) \in SUBSET Handlers
  BY DEF Waiting
<1> QED BY <1>1, TargetsAssumption, FS_Subset, FS_CardinalityType

\* The same after a step.
LEMMA FewWaitNext ==
  ASSUME NEW a
  PROVE  /\ IsFiniteSet(Waiting(a)') /\ Cardinality(Waiting(a))' \in Nat
         /\ Cardinality(Waiting(a))' <= Cardinality(Handlers)
<1>1. Waiting(a)' \in SUBSET Handlers
  BY DEF Waiting
<1> QED BY <1>1, TargetsAssumption, FS_Subset, FS_CardinalityType

\* A step after which an address has no more placed on it leaves the room there is.
LEMMA RoomStays ==
  ASSUME Counted, RoomLeft, config' = config, pods' = pods,
         \A a \in Addresses : Placed(a)' \in Nat /\ Placed(a)' <= Placed(a)
  PROVE  RoomLeft'
<1> SUFFICES ASSUME config.strategy = "labelArithmetic", Small(config.overlap),
                    \A p \in Pods : Sane(pods[p].current) /\ Sane(pods[p].max),
                    NEW a \in Addresses, Placed(a)' > 0
             PROVE  \E p \in Pods :
                      /\ AddressOf(pods[p], config.mapping) = a
                      /\ pods[p].max \notin {None, NotInt} /\ Current(pods[p]) # NotInt
                      /\ Current(pods[p]) + Placed(a)' + config.overlap
                           <= pods[p].max + (Cardinality(Handlers) - 1)
  BY DEF RoomLeft, Small, Sane, Current
<1>1. Placed(a) \in Nat /\ Placed(a)' \in Nat /\ Placed(a)' <= Placed(a)
  BY FewWait DEF Placed, Counted
<1>2. PICK p \in Pods :
        /\ AddressOf(pods[p], config.mapping) = a
        /\ pods[p].max \notin {None, NotInt} /\ Current(pods[p]) # NotInt
        /\ Current(pods[p]) + Placed(a) + config.overlap
             <= pods[p].max + (Cardinality(Handlers) - 1)
  BY <1>1 DEF RoomLeft
<1>3. pods[p].max \in Nat /\ Current(pods[p]) \in Nat /\ config.overlap \in Nat
  BY <1>2, TargetsAssumption DEF Sane, Small, Current
<1>4. Cardinality(Handlers) \in Nat
  BY FewWait
<1> QED BY <1>1, <1>2, <1>3, <1>4

\* No handler comes to wait that did not.
LEMMA NobodyJoins ==
  ASSUME Counted, RoomLeft, config' = config, pods' = pods, listed' = listed,
         \A a \in Addresses : Waiting(a)' \subseteq Waiting(a)
  PROVE  RoomLeft'
<1>1. ASSUME NEW a \in Addresses PROVE Placed(a)' \in Nat /\ Placed(a)' <= Placed(a)
  <2>1. Cardinality(Waiting(a))' <= Cardinality(Waiting(a))
    BY <1>1, FewWait, FS_Subset
  <2>2. listed[a] \in Nat
    BY <1>1, TargetsAssumption DEF Counted
  <2> QED BY <2>1, <2>2, FewWait, FewWaitNext DEF Placed
<1> QED BY <1>1, RoomStays

\* The choice of a Pod: of the sessions placed on its address those counted are in
\* the count that was read, and the others are under way.
LEMMA ChoiceLeavesRoom ==
  ASSUME Shape, Counted, RoomLeft, config' = config, pods' = pods,
         NEW h \in Handlers, NEW found \in SUBSET Pods, NEW p \in Pods, FromList(h, found, p)
  PROVE  RoomLeft'
<1> DEFINE b == AddressOf(pods[p], config.mapping)
           N == Cardinality(Handlers)
<1>1. /\ Others(h) /\ Selected(found, p) /\ DefaultTarget(pods[p]) # None
      /\ handlers[h].at = "list"
      /\ \/ handlers'[h].at = "idle"
         \/ handlers'[h].target = DefaultTarget(pods[p])
      /\ listed' = listed
  BY FromListMoves
<1>2. DefaultTarget(pods[p]).ip = b
  BY <1>1, Zenon DEF DefaultTarget
<1>3. ASSUME NEW a \in Addresses, a # b PROVE Waiting(a)' \subseteq Waiting(a)
  BY <1>1, <1>2, <1>3 DEF Waiting, Others
<1>4. ASSUME NEW a \in Addresses, a # b PROVE Placed(a)' \in Nat /\ Placed(a)' <= Placed(a)
  <2>1. Cardinality(Waiting(a))' <= Cardinality(Waiting(a))
    BY <1>3, <1>4, FewWait, FS_Subset
  <2>2. listed[a] \in Nat
    BY <1>4, TargetsAssumption DEF Counted
  <2> QED BY <1>1, <2>1, <2>2, FewWait, FewWaitNext DEF Placed
<1> SUFFICES ASSUME config.strategy = "labelArithmetic", Small(config.overlap),
                    \A q \in Pods : Sane(pods[q].current) /\ Sane(pods[q].max),
                    NEW a \in Addresses, Placed(a)' > 0
             PROVE  \E q \in Pods :
                      /\ AddressOf(pods[q], config.mapping) = a
                      /\ pods[q].max \notin {None, NotInt} /\ Current(pods[q]) # NotInt
                      /\ Current(pods[q]) + Placed(a)' + config.overlap <= pods[q].max + (N - 1)
  BY DEF RoomLeft, Small, Sane, Current
<1>5. CASE a # b
  <2>1. Placed(a) \in Nat /\ Placed(a)' \in Nat /\ Placed(a)' <= Placed(a)
    BY <1>4, <1>5, FewWait DEF Placed, Counted
  <2>2. PICK q \in Pods :
          /\ AddressOf(pods[q], config.mapping) = a
          /\ pods[q].max \notin {None, NotInt} /\ Current(pods[q]) # NotInt
          /\ Current(pods[q]) + Placed(a) + config.overlap <= pods[q].max + (N - 1)
    BY <2>1 DEF RoomLeft
  <2>3. pods[q].max \in Nat /\ Current(pods[q]) \in Nat /\ config.overlap \in Nat /\ N \in Nat
    BY <2>2, FewWait, TargetsAssumption DEF Sane, Small, Current
  <2> QED BY <2>1, <2>2, <2>3
<1>6. CASE a = b
  <2>1. /\ listed[a] \in Nat /\ counts[a] \in 0..MaxSessions /\ counts[a] \in Nat
        /\ listed[a] <= counts[a] /\ Sessions(pods[p]) = counts[a]
    BY <1>6, TargetsAssumption DEF Counted, Sessions
  <2>2. /\ Current(pods[p]) \in Nat /\ config.overlap \in Nat
        /\ Current(pods[p]) + counts[a] + 1 + config.overlap <= pods[p].max
    BY <1>1, <2>1, SelectedHasRoom
  <2>3. HasRoom(pods[p])
    BY <1>1 DEF Selected, Candidates
  <2>4. pods[p].max \notin {None, NotInt} /\ Current(pods[p]) # NotInt /\ pods[p].max \in Nat
    BY <2>3, TargetsAssumption DEF HasRoom, Sane, Small
  <2>5. /\ Placed(a)' = listed[a] + Cardinality(Waiting(a))'
        /\ Cardinality(Waiting(a))' \in Nat /\ Cardinality(Waiting(a))' <= N /\ N \in Nat
    BY <1>1, FewWait, FewWaitNext DEF Placed
  <2>6. Current(pods[p]) + Placed(a)' + config.overlap <= pods[p].max + (N - 1)
    BY <2>1, <2>2, <2>4, <2>5
  <2> QED BY <1>6, <2>4, <2>6
<1> QED BY <1>5, <1>6

\* A session that a list placed is counted: it was waiting and is no more.
LEMMA CountLeavesRoom ==
  ASSUME Shape, Counted, RoomLeft, config' = config, pods' = pods,
         NEW h \in Handlers, Count(h)
  PROVE  RoomLeft'
<1> DEFINE b == handlers[h].target.ip
<1>1. Others(h) /\ handlers[h].at = "count" /\ handlers'[h].at = "idle"
  BY CountMoves
<1>2. ASSUME NEW a \in Addresses PROVE Waiting(a)' = Waiting(a) \ {h}
  BY <1>1 DEF Waiting, Others
<1>3. ASSUME NEW a \in Addresses PROVE Placed(a)' \in Nat /\ Placed(a)' <= Placed(a)
  <2>1. IsFiniteSet(Waiting(a)) /\ Cardinality(Waiting(a)) \in Nat /\ listed[a] \in Nat
    BY <1>3, FewWait, TargetsAssumption DEF Counted
  <2>2. /\ Cardinality(Waiting(a))' \in Nat
        /\ Cardinality(Waiting(a))' = IF h \in Waiting(a) THEN Cardinality(Waiting(a)) - 1
                                      ELSE Cardinality(Waiting(a))
    BY <1>2, <1>3, <2>1, FewWaitNext, FS_RemoveElement
  <2>3. CASE handlers[h].from = "list" /\ a = b
    <3>1. h \in Waiting(a) /\ listed'[a] = listed[a] + 1
      BY <1>1, <1>3, <2>3 DEF Waiting, Count, Counted
    <3> QED BY <2>1, <2>2, <3>1 DEF Placed
  <2>4. CASE ~(handlers[h].from = "list" /\ a = b)
    <3>1. h \notin Waiting(a) /\ listed'[a] = listed[a]
      BY <1>1, <1>3, <2>4 DEF Waiting, Count, Counted
    <3> QED BY <2>1, <2>2, <3>1 DEF Placed
  <2> QED BY <2>3, <2>4
<1> QED BY <1>3, RoomStays

LEMMA RoomKept ==
  ASSUME Shape, Counted, RoomLeft, [Next]_vars
  PROVE  RoomLeft'
<1>1. config' = config /\ pods' = pods
  BY SameFiles
<1>2. ASSUME handlers' = handlers, listed' = listed PROVE RoomLeft'
  <2>1. \A a \in Addresses : Waiting(a)' = Waiting(a)
    BY <1>2 DEF Waiting
  <2> QED BY <1>1, <1>2, <2>1, NobodyJoins
<1>3. ASSUME NEW h \in Handlers, HandlerStep(h) PROVE RoomLeft'
  <2>1. CASE (\E key \in Keys(DataPorts) : FirstPacket(h, key)) \/ CacheMiss(h) \/ ListFails(h)
    <3>1. Others(h) /\ Undecided(h)
      BY <2>1, UndecidedMoves
    <3>2. listed' = listed /\ \A a \in Addresses : Waiting(a)' \subseteq Waiting(a)
      BY <3>1 DEF Waiting, Others, Undecided
    <3> QED BY <1>1, <3>2, NobodyJoins
  <2>2. CASE FromCache(h)
    <3>1. listed' = listed /\ \A a \in Addresses : Waiting(a)' \subseteq Waiting(a)
      BY <2>2, FromCacheMoves DEF Waiting, Others
    <3> QED BY <1>1, <3>1, NobodyJoins
  <2>3. ASSUME NEW found \in SUBSET Pods, NEW p \in Pods, FromList(h, found, p) PROVE RoomLeft'
    BY <1>1, <2>3, ChoiceLeavesRoom
  <2>4. CASE Fill(h)
    <3>1. listed' = listed /\ \A a \in Addresses : Waiting(a)' \subseteq Waiting(a)
      BY <2>4, FillMoves DEF Waiting, Others
    <3> QED BY <1>1, <3>1, NobodyJoins
  <2>5. CASE Insert(h)
    <3>1. listed' = listed /\ \A a \in Addresses : Waiting(a)' \subseteq Waiting(a)
      BY <2>5, InsertMoves DEF Waiting, Others
    <3> QED BY <1>1, <3>1, NobodyJoins
  <2>6. CASE Count(h)
    BY <1>1, <2>6, CountLeavesRoom
  <2> QED BY <1>3, <2>1, <2>2, <2>3, <2>4, <2>5, <2>6 DEF HandlerStep
<1> QED BY <1>2, <1>3 DEF Next, vars, Load, Query, Expire, Invalidate

\* For all labels, counts and overlaps within a quarter of the range of i64, any number
\* of Pods and of first packets at a time: the default sessions that lists placed on an
\* address leave current + sessions + overlap <= max of one of its Pods, up to the first
\* packets under way less one.
THEOREM RoomAlwaysLeft == Spec => []RoomLeft
<1>1. Init => Shape /\ Counted /\ RoomLeft
  <2> SUFFICES ASSUME Init PROVE RoomLeft
    BY ShapeAtFirst, CountedAtFirst
  <2>1. ASSUME NEW a \in Addresses PROVE Placed(a) = 0
    <3>1. Waiting(a) = {} /\ listed[a] = 0
      BY <2>1 DEF Init, Waiting, Idle
    <3> QED BY <3>1, FS_EmptySet DEF Placed
  <2> QED BY <2>1 DEF RoomLeft
<1>2. Shape /\ Counted /\ RoomLeft /\ [Next]_vars => (Shape /\ Counted /\ RoomLeft)'
  BY ShapeKept, CountedKept, RoomKept
<1> QED BY <1>1, <1>2, PTL DEF Spec


-----------------------------------------------------------------------------
(* Types: what is extracted from a Pod is an address and ports *)

\* A set of indices has a smallest one.
LEMMA MinIsThere ==
  ASSUME NEW n \in Nat, NEW S \in SUBSET (1..n), S # {}
  PROVE  Min(S) \in S
<1>1. PICK x \in S : \A y \in S : ~(<<y, x>> \in OpToRel(<, Nat))
  <2>1. S \subseteq Nat
    OBVIOUS
  <2> QED BY <2>1, WFMin, NatLessThanWellFounded, Zenon
<1>2. \A y \in S : x <= y
  <2> TAKE y \in S
  <2>1. <<y, x>> \in Nat \X Nat /\ <<y, x>>[1] = y /\ <<y, x>>[2] = x
    OBVIOUS
  <2>2. ~(y < x)
    BY <2>1, <1>1, Zenon DEF OpToRel
  <2> QED BY <2>2
<1> QED BY <1>2 DEF Min

\* A name has a number in a list, or none.
LEMMA FirstNamedType ==
  ASSUME NEW entries \in Seq(NumberedPort), NEW name
  PROVE  FirstNamed(entries, name) \in Int \cup {None}
<1> DEFINE hits == {i \in DOMAIN entries : entries[i].name = name /\ entries[i].number # None}
<1>1. /\ Len(entries) \in Nat /\ DOMAIN entries = 1..Len(entries)
      /\ \A i \in DOMAIN entries : entries[i] \in NumberedPort
  BY Element
<1>2. CASE hits = {}
  BY <1>2 DEF FirstNamed
<1>3. CASE hits # {}
  <2>1. hits \in SUBSET (1..Len(entries))
    BY <1>1
  <2>2. Min(hits) \in hits
    <3> HIDE DEF hits
    <3> QED BY <1>1, <1>3, <2>1, MinIsThere
  <2>3. FirstNamed(entries, name) = entries[Min(hits)].number
    BY <1>3 DEF FirstNamed
  <2>4. entries[Min(hits)] \in NumberedPort
    BY <1>1, <2>2
  <2> QED BY <2>3, <2>4 DEF NumberedPort
<1> QED BY <1>2, <1>3

LEMMA AddressType ==
  ASSUME NEW p \in Pods, NEW pod \in FactsOf[p], NEW m
  PROVE  AddressOf(pod, m) \in Addresses \cup {None}
<1> DEFINE hits == {i \in DOMAIN pod.addresses : pod.addresses[i].type = m.addressType}
<1>1. pod.ip \in Addresses \cup {None} /\ pod.addresses \in Seq(Address)
  BY FactsAssumption
<1>2. /\ Len(pod.addresses) \in Nat /\ DOMAIN pod.addresses = 1..Len(pod.addresses)
      /\ \A i \in DOMAIN pod.addresses : pod.addresses[i] \in Address
  BY <1>1, Element
<1>3. hits \in SUBSET (1..Len(pod.addresses))
  BY <1>2
<1>4. hits # {} => Min(hits) \in hits
  <2> HIDE DEF hits
  <2> QED BY <1>2, <1>3, MinIsThere
<1>5. ASSUME hits # {} PROVE pod.addresses[Min(hits)].ip \in Addresses
  <2>1. Min(hits) \in DOMAIN pod.addresses
    BY <1>4, <1>5
  <2>2. pod.addresses[Min(hits)] \in Address
    <3> HIDE DEF hits
    <3> QED BY <1>2, <2>1
  <2> QED BY <2>2 DEF Address
<1> QED BY <1>1, <1>5 DEF AddressOf

LEMMA PortType ==
  ASSUME NEW pod, NEW m
  PROVE  PortOf(pod, m) \in Port16 \cup {None}
BY DEF PortOf, U16

\* A cast keeps any integer within 16 bits.
LEMMA CastFits ==
  ASSUME NEW n \in Int
  PROVE  n % 65536 \in Port16
<1>1. 0 <= n % 65536 /\ n % 65536 < 65536
  OBVIOUS
<1>2. n % 65536 \in Int
  OBVIOUS
<1> QED BY <1>1, <1>2 DEF Port16

LEMMA ServiceType ==
  ASSUME NEW p \in Pods, NEW pod \in FactsOf[p], NEW name, ServiceOf(pod, name) # None
  PROVE  ServiceOf(pod, name).ip \in Addresses /\ ServiceOf(pod, name).port \in Port16
<1> DEFINE hits == {i \in DOMAIN pod.services : FirstNamed(pod.services[i].ports, name) # None}
           service == pod.services[Min(hits)]
           port == FirstNamed(service.ports, name)
<1>1. pod.services \in Seq(Service)
  BY FactsAssumption
<1>2. hits # {} /\ ServiceOf(pod, name) = [ip |-> service.ip, port |-> port % 65536]
  BY DEF ServiceOf
<1>3. Min(hits) \in hits
  <2>1. hits \in SUBSET (1..Len(pod.services)) /\ Len(pod.services) \in Nat
    BY <1>1, Element
  <2>2. hits # {}
    BY <1>2
  <2> HIDE DEF hits
  <2> QED BY <2>1, <2>2, MinIsThere
<1>4. service.ip \in Addresses /\ port \in Int
  <2>1. service \in Service
    BY <1>1, <1>3, Element
  <2>2. /\ service.ip \in Addresses
        /\ service.ports \in Seq(NumberedPort)
    BY <2>1 DEF Service
  <2> QED BY <1>3, <2>2, FirstNamedType
<1>5. port % 65536 \in Port16
  <2> HIDE DEF port
  <2> QED BY <1>4, CastFits
<1> QED BY <1>2, <1>4, <1>5

\* The ports that are extracted are ports.
LEMMA PortsType ==
  ASSUME config \in Configs, config.mapping # None, config.mapping.ports # None,
         NEW pod, PortsOf(pod, config.mapping.ports) # None,
         NEW name \in DOMAIN PortsOf(pod, config.mapping.ports)
  PROVE  PortsOf(pod, config.mapping.ports)[name] \in Port16
<1> DEFINE ms == config.mapping.ports
<1>1. DOMAIN PortsOf(pod, ms) = Names(ms)
  BY DEF PortsOf
<1>2. PICK j \in DOMAIN ms : PortsOf(pod, ms)[name] = PortOf(pod, ms[j])
  BY <1>1, FiledUnderName
<1>3. PortOf(pod, ms[j]) # None
  BY DEF PortsOf
<1> QED BY <1>2, <1>3, PortType

LEMMA QueryTargetType ==
  ASSUME config \in Configs, NEW p \in Pods, NEW pod \in FactsOf[p], QueryTarget(pod) # None
  PROVE  IsTarget(QueryTarget(pod)) /\ DOMAIN QueryTarget(pod).routes = Keys(DataPorts)
<1> DEFINE m == config.mapping
           found == Extracted(pod, m)
           t == QueryTarget(pod)
<1>1. /\ m # None /\ Extracts(pod, m) /\ Names(DataPorts) \subseteq DOMAIN found.ports
      /\ t = [ip |-> found.ip,
              routes |-> [k \in Keys(DataPorts) |-> found.ports[DataPorts[LastOn(k)].name]]]
  BY DEF QueryTarget
<1>2. found.ip \in Addresses /\ \A name \in DOMAIN found.ports : found.ports[name] \in Port16
  <2>1. CASE m.ports # None
    <3>1. /\ found = [ip |-> AddressOf(pod, m), ports |-> PortsOf(pod, m.ports)]
          /\ AddressOf(pod, m) # None /\ PortsOf(pod, m.ports) # None
      BY <1>1, <2>1 DEF Extracted, Extracts
    <3> QED BY <1>1, <2>1, <3>1, AddressType, PortsType
  <2>2. CASE m.ports = None /\ m.addressPath # None
    BY <1>1, <2>2, AddressType, PortType DEF Extracted, Extracts
  <2>3. CASE m.ports = None /\ m.addressPath = None
    <3>1. /\ ServiceOf(pod, m.servicePort) # None
          /\ found = [ip |-> ServiceOf(pod, m.servicePort).ip,
                      ports |-> [name \in Names(DataPorts) |->
                                   ServiceOf(pod, m.servicePort).port]]
      BY <1>1, <2>3 DEF Extracted, Extracts
    <3> QED BY <3>1, ServiceType
  <2> QED BY <2>1, <2>2, <2>3
<1>3. \A key \in Keys(DataPorts) : DataPorts[LastOn(key)].name \in DOMAIN found.ports
  BY <1>1, LastOnIsThere DEF Names
<1> HIDE DEF found
<1> QED BY <1>1, <1>2, <1>3 DEF IsTarget

LEMMA DefaultTargetType ==
  ASSUME config \in Configs, config.mapping # None,
         NEW p \in Pods, NEW pod \in FactsOf[p], DefaultTarget(pod) # None
  PROVE  IsTarget(DefaultTarget(pod))
<1> DEFINE m == config.mapping
           ip == AddressOf(pod, m)
           ports == PortsOf(pod, m.ports)
           covered == {i \in DOMAIN DataPorts : DataPorts[i].name \in DOMAIN ports}
           on(key) == {i \in covered : DataPorts[i].key = key}
           keys == {DataPorts[i].key : i \in covered}
           t == DefaultTarget(pod)
<1>1. ip \in Addresses
  BY AddressType DEF DefaultTarget
<1>2. CASE m.ports # None
  <2>1. /\ ports # None
        /\ t = [ip |-> ip, routes |-> [key \in keys |-> ports[DataPorts[Max(on(key))].name]]]
    BY <1>2 DEF DefaultTarget
  <2>2. \A key \in keys : Max(on(key)) \in covered
    <3> SUFFICES ASSUME NEW key \in keys PROVE Max(on(key)) \in on(key)
      OBVIOUS
    <3>1. PICK n \in Nat : DOMAIN DataPorts = 1..n
      BY DataPortsAreSequence
    <3>2. on(key) # {} /\ on(key) \in SUBSET (1..n)
      BY <3>1
    <3> HIDE DEF on
    <3> QED BY <3>2, MaxIsLargest
  <2>3. \A name \in DOMAIN ports : ports[name] \in Port16
    BY <1>2, <2>1, PortsType
  <2>4. keys \subseteq Keys(DataPorts)
    BY DEF Keys
  <2>5. \A key \in keys : ports[DataPorts[Max(on(key))].name] \in Port16
    BY <2>2, <2>3
  <2> HIDE DEF keys, on, ports, ip
  <2> QED BY <1>1, <2>1, <2>4, <2>5 DEF IsTarget
<1>3. CASE m.ports = None
  <2>1. /\ PortOf(pod, m) # None
        /\ t = [ip |-> ip, routes |-> [key \in Keys(DataPorts) |-> PortOf(pod, m)]]
    BY <1>3 DEF DefaultTarget
  <2>2. PortOf(pod, m) \in Port16
    BY <2>1, PortType
  <2> QED BY <1>1, <2>1, <2>2 DEF IsTarget
<1> QED BY <1>2, <1>3

\* A configuration that runs has data ports.
LEMMA ValidHasPorts ==
  ASSUME config \in Configs, Valid
  PROVE  Keys(DataPorts) # {}
<1>1. PICK n \in Nat : DOMAIN DataPorts = 1..n
  BY DataPortsAreSequence
<1>2. CASE config.dataPorts # None
  <2>1. DataPorts # <<>>
    BY Zenon DEF Valid
  <2>2. DataPorts = config.dataPorts
    BY <1>2 DEF DataPorts
  <2>3. DataPorts \in Seq(DataPort)
    BY <1>2, <2>2, ConfigsAssumption
  <2>4. 1 \in DOMAIN DataPorts
    BY <2>1, <2>3, Element
  <2> QED BY <2>4 DEF Keys
<1>3. CASE config.dataPorts = None
  <2>1. \E x : DataPorts = <<x>>
    BY <1>3 DEF DataPorts
  <2>2. 1 \in DOMAIN DataPorts
    BY <2>1
  <2> QED BY <2>2 DEF Keys
<1> QED BY <1>2, <1>3

\* The configuration is read once, and with it what a target is.
LEMMA SameConfig ==
  ASSUME config' = config
  PROVE  /\ DataPorts' = DataPorts /\ (Valid' <=> Valid)
         /\ \A t : IsTarget(t)' <=> IsTarget(t)
<1>1. DataPorts' = DataPorts
  BY DEF DataPorts
<1> QED BY <1>1 DEF Valid, IsTarget

\* The inductive invariant: a director that runs has a valid configuration, handlers
\* are records, and what a list placed is counted.
RunningIsValid == phase = "running" => Valid
TypeInv == TypeOK /\ RunningIsValid /\ Shape /\ Counted

\* What TypeOK says of one handler.
HandlerOK(r) ==
  /\ r.at \in {"idle", "check", "list", "fill", "insert", "count"}
  /\ r.at \in {"fill", "insert", "count"} => IsTarget(r.target)
  /\ r.at \in {"insert", "count"} => r.target.routes # <<>>

\* A target with the port of the packet has a port.
LEMMA ServesAPort ==
  ASSUME NEW t, NEW key \in DOMAIN t.routes
  PROVE  t.routes # <<>>
BY NothingInEmpty, Zenon

LEMMA HandlersKept ==
  ASSUME TypeInv, NEW h \in Handlers, HandlerStep(h)
  PROVE  \A g \in Handlers : HandlerOK(handlers'[g])
<1>1. \A g \in Handlers : HandlerOK(handlers[g])
  BY DEF TypeInv, TypeOK, HandlerOK
<1>2. SUFFICES Others(h) /\ HandlerOK(handlers'[h])
  BY <1>1 DEF Others
<1>3. CASE (\E key \in Keys(DataPorts) : FirstPacket(h, key)) \/ CacheMiss(h) \/ ListFails(h)
  BY <1>3, UndecidedMoves DEF TypeInv, Undecided, HandlerOK
<1>4. CASE FromCache(h)
  <2>1. cache # None => IsTarget(cache)
    BY DEF TypeInv, TypeOK
  <2>2. handlers[h].key \in DOMAIN cache.routes => cache.routes # <<>>
    BY ServesAPort
  <2> QED BY <1>4, <2>1, <2>2, FromCacheMoves DEF TypeInv, HandlerOK
<1>5. ASSUME NEW found \in SUBSET Pods, NEW p \in Pods, FromList(h, found, p)
      PROVE  Others(h) /\ HandlerOK(handlers'[h])
  <2> DEFINE t == DefaultTarget(pods[p])
  <2>1. /\ Others(h) /\ config.mapping # None /\ t # None
        /\ \/ handlers'[h].at = "idle"
           \/ handlers'[h].at = "fill" /\ handlers'[h].target = t
           \/ /\ handlers[h].key \in DOMAIN t.routes
              /\ handlers'[h].at = "insert" /\ handlers'[h].target = t
    BY <1>5, FromListMoves DEF TypeInv
  <2>2. IsTarget(t)
    BY <2>1, DefaultTargetType DEF TypeInv, TypeOK
  <2>3. handlers[h].key \in DOMAIN t.routes => t.routes # <<>>
    BY ServesAPort
  <2> HIDE DEF t
  <2> QED BY <2>1, <2>2, <2>3 DEF HandlerOK
<1>6. CASE Fill(h)
  <2>1. handlers[h].key \in DOMAIN handlers[h].target.routes => handlers[h].target.routes # <<>>
    BY ServesAPort
  <2> QED BY <1>1, <1>6, <2>1, FillMoves DEF TypeInv, HandlerOK
<1>7. CASE Insert(h)
  BY <1>1, <1>7, InsertMoves DEF TypeInv, HandlerOK
<1>8. CASE Count(h)
  BY <1>8, CountMoves DEF TypeInv, HandlerOK
<1> QED BY <1>3, <1>4, <1>5, <1>6, <1>7, <1>8 DEF HandlerStep

LEMMA TypeKept ==
  ASSUME TypeInv, [Next]_vars
  PROVE  TypeInv'
<1>1. config \in Configs /\ config' = config /\ pods' = pods
  BY SameFiles DEF TypeInv, TypeOK
<1>2. \A t : IsTarget(t)' <=> IsTarget(t)
  BY <1>1, SameConfig
<1>3. Valid' <=> Valid
  BY <1>1, SameConfig
<1>4. Shape' /\ Counted'
  BY ShapeKept, CountedKept DEF TypeInv
<1>5. SUFFICES TypeOK' /\ RunningIsValid'
  BY <1>4 DEF TypeInv
<1>6. CASE UNCHANGED vars \/ Load \/ Expire \/ Invalidate
  BY <1>1, <1>2, <1>3, <1>6
     DEF TypeInv, TypeOK, RunningIsValid, vars, Load, Expire, Invalidate
<1>7. ASSUME NEW p \in Pods, Query(p) PROVE TypeOK' /\ RunningIsValid'
  <2> DEFINE t == QueryTarget(pods[p])
  <2>1. /\ phase = "running" /\ t # None /\ session' = t /\ told' = [pod |-> p, ports |-> PublicPorts]
        /\ UNCHANGED <<counts, cache, phase, handlers, listed>>
    BY <1>7 DEF Query
  <2>2. IsTarget(t) /\ DOMAIN t.routes = Keys(DataPorts)
    BY <1>1, <2>1, QueryTargetType DEF TypeInv, TypeOK
  <2>3. DOMAIN t.routes # {}
    BY <1>1, <2>1, <2>2, ValidHasPorts DEF TypeInv, RunningIsValid
  <2>4. t.routes # <<>>
    BY <2>3
  <2> HIDE DEF t
  <2> QED BY <1>1, <1>2, <1>3, <2>1, <2>2, <2>4 DEF TypeInv, TypeOK, RunningIsValid
<1>8. ASSUME NEW h \in Handlers, HandlerStep(h) PROVE TypeOK' /\ RunningIsValid'
  <2>1. \A g \in Handlers : HandlerOK(handlers'[g])
    BY <1>8, HandlersKept
  <2>2. phase' = phase
    BY <1>8 DEF HandlerStep, FirstPacket, FromCache, CacheMiss, FromList, ListFails, Fill,
               Insert, Count, Unchanged
  <2>3. CASE UNCHANGED <<cache, session, told>>
    BY <1>1, <1>2, <1>3, <1>4, <2>1, <2>2, <2>3
       DEF TypeInv, TypeOK, RunningIsValid, HandlerOK, Counted
  <2>4. CASE Fill(h)
    <3>1. /\ cache' = handlers[h].target /\ UNCHANGED <<session, told>>
          /\ IsTarget(handlers[h].target)
      BY <2>4, FillMoves DEF TypeInv, TypeOK
    <3> QED BY <1>1, <1>2, <1>3, <1>4, <2>1, <2>2, <3>1
            DEF TypeInv, TypeOK, RunningIsValid, HandlerOK, Counted
  <2>5. CASE Insert(h)
    <3>1. /\ session' = handlers[h].target /\ told' = None /\ cache' = cache
          /\ IsTarget(handlers[h].target) /\ handlers[h].target.routes # <<>>
      BY <2>5, InsertMoves DEF TypeInv, TypeOK
    <3> QED BY <1>1, <1>2, <1>3, <1>4, <2>1, <2>2, <3>1
            DEF TypeInv, TypeOK, RunningIsValid, HandlerOK, Counted
  <2> QED BY <1>8, <2>3, <2>4, <2>5 DEF HandlerStep, FirstPacket, FromCache, CacheMiss, FromList,
             ListFails, Count
<1> QED BY <1>6, <1>7, <1>8 DEF Next

\* The type invariant: every session and the cached endpoint have an address of a
\* Pod and 16-bit ports behind public ports of the configuration, at least one of
\* them, and what a client was told of is there.
THEOREM TypeCorrect == Spec => []TypeOK
<1>1. Init => TypeInv
  BY ShapeAtFirst, CountedAtFirst, TargetsAssumption DEF TypeInv, Init, TypeOK, RunningIsValid, Idle
<1>2. TypeInv /\ [Next]_vars => TypeInv'
  BY TypeKept
<1> QED BY <1>1, <1>2, PTL DEF Spec, TypeInv
=============================================================================
