----------------------- MODULE DefaultEndpoint_proofs -----------------------
(***************************************************************************)
(* What holds of DefaultEndpoint for any number of Pods, clients, handlers *)
(* and ports: every default session is in the counts the load balancer     *)
(* goes by, but for those of handlers between upsert and increment, and    *)
(* the cache stands still under a read guard.  Each is inductive with the  *)
(* types of the variables.                                                 *)
(***************************************************************************)
EXTENDS DefaultEndpoint, FiniteSetTheorems, TLAPS

\* The initial state is well typed.
LEMMA InitType == Init => TypeOK
BY DefaultEndpointAssumption DEF Init, TypeOK, Idle, Steps, Target

\* A handler's step is well typed, and one that has an endpoint to insert has one
\* that serves its port.
LEMMA WorkType ==
  ASSUME TypeOK, NEW h \in Handlers, Work(h)
  PROVE  TypeOK'
<1> USE DefaultEndpointAssumption
<1> DEFINE Handler == [at : Steps, client : Clients \cup {NoClient},
                       port : Ports \cup {NoPort}, found : SUBSET Pods,
                       pod : Target, fills : BOOLEAN]
           Served(r) == r.at \in {"insert", "count"} => r.port \in PortsOf[r.pod]
<1>1. /\ handlers \in [Handlers -> Handler] /\ handlers[h] \in Handler
      /\ \A g \in Handlers : Served(handlers[g])
      /\ Idle \in Handler /\ Served(Idle)
  BY DEF TypeOK, Idle, Steps, Target
<1>2. SUFFICES /\ cache' \in Target /\ readers' \subseteq Handlers
               /\ routes' \in [Clients -> Target] /\ counts' \in [Pods -> Nat]
               /\ \E r \in Handler : handlers' = [handlers EXCEPT ![h] = r] /\ Served(r)
  <2>1. UNCHANGED <<up, started, last, monitor>>
    BY DEF Work, CacheHit, CacheMiss, Miss, List, ListFails, Select, Fill, Insert, Count,
           CountStep, Unchanged
  <2>2. handlers' \in [Handlers -> Handler] /\ \A g \in Handlers : Served(handlers'[g])
    BY <1>1, <1>2
  <2> QED BY <1>2, <2>1, <2>2 DEF TypeOK
<1>3. CASE CacheHit(h)
  <2> DEFINE r == [handlers[h] EXCEPT !.at = "insert", !.pod = cache]
  <2>1. r \in Handler /\ Served(r)
    BY <1>1, <1>3 DEF CacheHit, Hit, TypeOK, Steps
  <2>2. handlers' = [handlers EXCEPT ![h] = r]
    BY <1>1, <1>3 DEF CacheHit
  <2>3. /\ cache' \in Target /\ readers' \subseteq Handlers
        /\ routes' \in [Clients -> Target] /\ counts' \in [Pods -> Nat]
    BY <1>3 DEF CacheHit, TypeOK
  <2> QED BY <2>1, <2>2, <2>3
<1>4. CASE CacheMiss(h)
  <2> DEFINE r == [handlers[h] EXCEPT !.at = "list", !.fills = (cache = NoPod)]
  <2>1. r \in Handler /\ Served(r)
    BY <1>1 DEF Steps
  <2>2. handlers' = [handlers EXCEPT ![h] = r]
    BY <1>1, <1>4 DEF CacheMiss, Miss
  <2>3. /\ cache' \in Target /\ readers' \subseteq Handlers
        /\ routes' \in [Clients -> Target] /\ counts' \in [Pods -> Nat]
    BY <1>4 DEF CacheMiss, Miss, TypeOK
  <2> QED BY <2>1, <2>2, <2>3
<1>5. CASE List(h)
  <2> DEFINE r == [handlers[h] EXCEPT !.at = "select", !.found = up]
  <2>1. r \in Handler /\ Served(r)
    BY <1>1 DEF Steps, TypeOK
  <2>2. handlers' = [handlers EXCEPT ![h] = r]
    BY <1>1, <1>5 DEF List
  <2>3. /\ cache' \in Target /\ readers' \subseteq Handlers
        /\ routes' \in [Clients -> Target] /\ counts' \in [Pods -> Nat]
    BY <1>5 DEF List, TypeOK
  <2> QED BY <2>1, <2>2, <2>3
<1>6. CASE ListFails(h)
  BY <1>1, <1>6 DEF ListFails, Done, TypeOK
<1>7. ASSUME NEW p \in Pods, Select(h, p)
      PROVE  /\ cache' \in Target /\ readers' \subseteq Handlers
             /\ routes' \in [Clients -> Target] /\ counts' \in [Pods -> Nat]
             /\ \E r \in Handler : handlers' = [handlers EXCEPT ![h] = r] /\ Served(r)
  <2> DEFINE r(step) == [handlers[h] EXCEPT !.at = step, !.pod = p, !.found = {}]
  <2>1. /\ r("fill") \in Handler /\ Served(r("fill"))
        /\ r("insert") \in Handler
        /\ handlers[h].port \in PortsOf[p] => Served(r("insert"))
    BY <1>1 DEF Steps, Target
  <2>2. \/ handlers' = [handlers EXCEPT ![h] = r("fill")]
        \/ handlers' = [handlers EXCEPT ![h] = r("insert")] /\ handlers[h].port \in PortsOf[p]
        \/ handlers' = [handlers EXCEPT ![h] = Idle]
    BY <1>1, <1>7 DEF Select, Done
  <2>3. /\ cache' \in Target /\ readers' \subseteq Handlers
        /\ routes' \in [Clients -> Target] /\ counts' \in [Pods -> Nat]
    BY <1>7 DEF Select, TypeOK
  <2> QED BY <1>1, <2>1, <2>2, <2>3
<1>8. CASE Fill(h)
  <2> DEFINE r == [handlers[h] EXCEPT !.at = "insert"]
  <2>1. r \in Handler /\ (handlers[h].port \in PortsOf[handlers[h].pod] => Served(r))
    BY <1>1 DEF Steps
  <2>2. \/ handlers' = [handlers EXCEPT ![h] = r] /\ handlers[h].port \in PortsOf[handlers[h].pod]
        \/ handlers' = [handlers EXCEPT ![h] = Idle]
    BY <1>1, <1>8 DEF Fill, Done
  <2>3. /\ cache' \in Target /\ readers' \subseteq Handlers
        /\ routes' \in [Clients -> Target] /\ counts' \in [Pods -> Nat]
    BY <1>1, <1>8 DEF Fill, TypeOK
  <2> QED BY <1>1, <2>1, <2>2, <2>3
<1>9. CASE Insert(h)
  <2> DEFINE r == [handlers[h] EXCEPT !.at = "count"]
  <2>1. r \in Handler /\ Served(r)
    BY <1>1, <1>9 DEF Insert, Steps
  <2>2. handlers' = [handlers EXCEPT ![h] = r]
    BY <1>1, <1>9 DEF Insert
  <2>3. /\ cache' \in Target /\ readers' \subseteq Handlers
        /\ routes' \in [Clients -> Target] /\ counts' \in [Pods -> Nat]
    BY <1>1, <1>9 DEF Insert, TypeOK
  <2> QED BY <2>1, <2>2, <2>3
<1>10. CASE Count(h)
  <2>1. counts' \in [Pods -> Nat]
    <3>1. counts \in [Pods -> Nat] /\ counts' = [counts EXCEPT ![handlers[h].pod] = @ + 1]
      BY <1>10 DEF Count, CountStep, TypeOK
    <3>2. ASSUME NEW p \in Pods PROVE counts'[p] \in Nat
      <4>1. counts[p] \in Nat
        BY <3>1
      <4> QED BY <3>1, <4>1
    <3>3. counts' = [p \in Pods |-> counts'[p]]
      BY <3>1
    <3> QED BY <3>2, <3>3
  <2>2. handlers' = [handlers EXCEPT ![h] = Idle]
    BY <1>10 DEF Count, CountStep, Done
  <2>3. cache' \in Target /\ readers' \subseteq Handlers /\ routes' \in [Clients -> Target]
    BY <1>10 DEF Count, CountStep, TypeOK
  <2> QED BY <1>1, <2>1, <2>2, <2>3
<1> QED BY <1>3, <1>4, <1>5, <1>6, <1>7, <1>8, <1>9, <1>10 DEF Work

\* So are a new packet, the monitor, the cleanup and the cluster.
LEMMA StepType ==
  ASSUME TypeOK, [Next]_vars
  PROVE  TypeOK'
<1> USE DefaultEndpointAssumption
<1>1. CASE UNCHANGED vars
  BY <1>1 DEF vars, TypeOK
<1>2. ASSUME NEW h \in Handlers, NEW c \in Clients, NEW port \in Ports, Arrives(h, c, port)
      PROVE  TypeOK'
  <2> DEFINE r == [Idle EXCEPT !.at = "check", !.client = c, !.port = port]
  <2>1. /\ r \in [at : Steps, client : Clients \cup {NoClient}, port : Ports \cup {NoPort},
                  found : SUBSET Pods, pod : Target, fills : BOOLEAN]
        /\ r.at = "check"
    BY DEF Idle, Steps, Target
  <2>2. handlers' = [handlers EXCEPT ![h] = r] /\ started' \in 0..MaxSessions
    BY <1>2 DEF Arrives, TypeOK
  <2>3. UNCHANGED <<up, cache, readers, routes, counts, last, monitor>>
    BY <1>2 DEF Arrives
  <2> HIDE DEF r
  <2> QED BY <2>1, <2>2, <2>3 DEF TypeOK
<1>3. CASE Monitor
  BY <1>3 DEF Monitor, Poll, Invalidate, NoChange, handlerVars, TypeOK, Target
<1>4. ASSUME NEW c \in Clients, Expires(c) PROVE TypeOK'
  BY <1>4 DEF Expires, handlerVars, TypeOK, Target
<1>5. ASSUME NEW p \in Pods, PodChanges(p) PROVE TypeOK'
  BY <1>5 DEF PodChanges, handlerVars, TypeOK
<1> QED BY <1>1, <1>2, <1>3, <1>4, <1>5, WorkType DEF Next

\* All variables keep their types, and an endpoint about to be inserted serves the
\* port of the packet it was looked up for.
THEOREM TypeCorrect == Spec => []TypeOK
BY InitType, StepType, PTL DEF Spec

-----------------------------------------------------------------------------

\* Sessions and handlers can be counted.
LEMMA Finite ==
  ASSUME NEW p
  PROVE  /\ IsFiniteSet(SessionsTo(p)) /\ Cardinality(SessionsTo(p)) \in Nat
         /\ IsFiniteSet(Pending(p)) /\ Cardinality(Pending(p)) \in Nat
<1>1. SessionsTo(p) \subseteq Clients /\ Pending(p) \subseteq Handlers
  BY DEF SessionsTo, Pending
<1> QED BY <1>1, FS_Subset, FS_CardinalityType, DefaultEndpointAssumption

\* Fewer sessions to the same Pods and no count that moves.
LEMMA FewerSessions ==
  ASSUME TypeOK, CountsCoverSessions, UNCHANGED counts,
         \A p \in Pods : SessionsTo(p)' \subseteq SessionsTo(p) /\ Pending(p)' = Pending(p)
  PROVE  CountsCoverSessions'
<1> SUFFICES ASSUME NEW p \in Pods
             PROVE  Cardinality(SessionsTo(p)') <= counts[p] + Cardinality(Pending(p))
  BY DEF CountsCoverSessions
<1>1. Cardinality(SessionsTo(p)') <= Cardinality(SessionsTo(p))
  BY Finite, FS_Subset
<1>2. Cardinality(SessionsTo(p)') \in Nat
  BY Finite, FS_Subset, FS_CardinalityType
<1>3. Cardinality(SessionsTo(p)) <= counts[p] + Cardinality(Pending(p)) /\ counts[p] \in Nat
  BY DEF CountsCoverSessions, TypeOK
<1> QED BY <1>1, <1>2, <1>3, Finite

\* The upsert: one session more, and one handler that will count it.
LEMMA InsertCovers ==
  ASSUME TypeOK, CountsCoverSessions, NEW h \in Handlers, Insert(h)
  PROVE  CountsCoverSessions'
<1> SUFFICES ASSUME NEW p \in Pods
             PROVE  Cardinality(SessionsTo(p)') <= counts[p] + Cardinality(Pending(p)')
  BY DEF CountsCoverSessions, Insert
<1> DEFINE c == handlers[h].client
<1>1. /\ handlers[h].at = "insert" /\ handlers' = [handlers EXCEPT ![h].at = "count"]
      /\ routes' = [routes EXCEPT ![c] = handlers[h].pod]
      /\ routes \in [Clients -> Target]
      /\ \A g \in Handlers : handlers'[g].pod = handlers[g].pod
      /\ \A g \in Handlers \ {h} : handlers'[g].at = handlers[g].at
      /\ handlers'[h].at = "count"
  BY DEF Insert, TypeOK
<1>2. /\ Cardinality(SessionsTo(p)) <= counts[p] + Cardinality(Pending(p))
      /\ counts[p] \in Nat
  BY DEF CountsCoverSessions, TypeOK
<1>3. CASE p = handlers[h].pod
  <2>1. SessionsTo(p)' \subseteq SessionsTo(p) \cup {c}
    BY <1>1 DEF SessionsTo
  <2>2. Pending(p)' = Pending(p) \cup {h} /\ h \notin Pending(p)
    BY <1>1, <1>3 DEF Pending
  <2>3. Cardinality(Pending(p)') = Cardinality(Pending(p)) + 1
    BY <2>2, Finite, FS_AddElement
  <2>4. /\ IsFiniteSet(SessionsTo(p) \cup {c})
        /\ Cardinality(SessionsTo(p) \cup {c}) \in Nat
        /\ Cardinality(SessionsTo(p) \cup {c}) <= Cardinality(SessionsTo(p)) + 1
    <3>1. IsFiniteSet(SessionsTo(p)) /\ Cardinality(SessionsTo(p)) \in Nat
      BY Finite
    <3>2. /\ IsFiniteSet(SessionsTo(p) \cup {c})
          /\ \/ Cardinality(SessionsTo(p) \cup {c}) = Cardinality(SessionsTo(p))
             \/ Cardinality(SessionsTo(p) \cup {c}) = Cardinality(SessionsTo(p)) + 1
      BY <3>1, FS_AddElement, Zenon
    <3> QED BY <3>1, <3>2
  <2>5. /\ Cardinality(SessionsTo(p)') <= Cardinality(SessionsTo(p) \cup {c})
        /\ Cardinality(SessionsTo(p)') \in Nat
    BY <2>1, <2>4, FS_Subset, FS_CardinalityType
  <2> QED BY <1>2, <2>3, <2>4, <2>5, Finite
<1>4. CASE p # handlers[h].pod
  <2>1. SessionsTo(p)' \subseteq SessionsTo(p)
    BY <1>1, <1>4 DEF SessionsTo
  <2>2. Pending(p)' = Pending(p)
    BY <1>1, <1>4 DEF Pending
  <2>3. /\ Cardinality(SessionsTo(p)') <= Cardinality(SessionsTo(p))
        /\ Cardinality(SessionsTo(p)') \in Nat
    BY <2>1, Finite, FS_Subset, FS_CardinalityType
  <2> QED BY <1>2, <2>2, <2>3, Finite
<1> QED BY <1>3, <1>4

\* The increment: the handler's session moves into the count.
LEMMA CountCovers ==
  ASSUME TypeOK, CountsCoverSessions, NEW h \in Handlers, Count(h)
  PROVE  CountsCoverSessions'
<1> SUFFICES ASSUME NEW p \in Pods
             PROVE  Cardinality(SessionsTo(p)) <= counts'[p] + Cardinality(Pending(p)')
  BY DEF CountsCoverSessions, Count, CountStep, SessionsTo
<1>1. /\ handlers[h].at = "count" /\ handlers' = [handlers EXCEPT ![h] = Idle]
      /\ counts' = [counts EXCEPT ![handlers[h].pod] = @ + 1]
      /\ \A g \in Handlers \ {h} : handlers'[g] = handlers[g]
      /\ handlers'[h].at = "idle"
  BY DEF Count, CountStep, Done, TypeOK, Idle
<1>2. /\ Cardinality(SessionsTo(p)) <= counts[p] + Cardinality(Pending(p))
      /\ counts[p] \in Nat /\ counts \in [Pods -> Nat]
  BY DEF CountsCoverSessions, TypeOK
<1>3. CASE p = handlers[h].pod
  <2>1. Pending(p)' = Pending(p) \ {h} /\ h \in Pending(p)
    BY <1>1, <1>3 DEF Pending
  <2>2. Cardinality(Pending(p)') = Cardinality(Pending(p)) - 1
    BY <2>1, Finite, FS_RemoveElement
  <2>3. counts'[p] = counts[p] + 1
    BY <1>1, <1>2, <1>3
  <2> QED BY <1>2, <2>2, <2>3, Finite
<1>4. CASE p # handlers[h].pod
  <2>1. Pending(p)' = Pending(p) /\ counts'[p] = counts[p]
    BY <1>1, <1>2, <1>4 DEF Pending
  <2> QED BY <1>2, <2>1
<1> QED BY <1>3, <1>4

\* Other steps of a handler neither insert nor count.
LEMMA OtherWorkCovers ==
  ASSUME TypeOK, CountsCoverSessions, NEW h \in Handlers,
         Work(h), ~Insert(h), ~Count(h)
  PROVE  CountsCoverSessions'
<1>1. /\ UNCHANGED <<routes, counts>>
      /\ handlers[h].at # "count" /\ handlers'[h].at # "count"
      /\ \A g \in Handlers \ {h} : handlers'[g] = handlers[g]
  <2>1. CASE CacheHit(h) \/ CacheMiss(h) \/ List(h)
    BY <2>1 DEF CacheHit, CacheMiss, Miss, List, TypeOK
  <2>2. CASE ListFails(h) \/ Fill(h)
    BY <2>2 DEF ListFails, Fill, Done, TypeOK, Idle
  <2>3. ASSUME NEW p \in Pods, Select(h, p)
        PROVE  /\ UNCHANGED <<routes, counts>>
               /\ handlers[h].at # "count" /\ handlers'[h].at # "count"
               /\ \A g \in Handlers \ {h} : handlers'[g] = handlers[g]
    BY <2>3 DEF Select, Done, TypeOK, Idle
  <2> QED BY <2>1, <2>2, <2>3 DEF Work
<1>2. \A p \in Pods : SessionsTo(p)' = SessionsTo(p) /\ Pending(p)' = Pending(p)
  BY <1>1 DEF SessionsTo, Pending
<1> QED BY <1>1, <1>2, FewerSessions

\* For any number of Pods, clients and handlers and any order of their steps: the
\* load balancer's counts cover the default sessions that exist.
THEOREM CountsAlwaysCover == Spec => []CountsCoverSessions
<1>1. Init => CountsCoverSessions
  <2> SUFFICES ASSUME Init, NEW p \in Pods
               PROVE  Cardinality(SessionsTo(p)) <= counts[p] + Cardinality(Pending(p))
    BY DEF CountsCoverSessions
  <2>1. SessionsTo(p) = {} /\ Pending(p) = {} /\ counts[p] = 0
    BY DefaultEndpointAssumption DEF Init, SessionsTo, Pending, Idle
  <2> QED BY <2>1, FS_EmptySet
<1>2. TypeOK /\ CountsCoverSessions /\ [Next]_vars => CountsCoverSessions'
  <2> SUFFICES ASSUME TypeOK, CountsCoverSessions, [Next]_vars
               PROVE  CountsCoverSessions'
    OBVIOUS
  <2>1. CASE UNCHANGED vars
    BY <2>1 DEF vars, CountsCoverSessions, SessionsTo, Pending
  <2>2. ASSUME NEW h \in Handlers, Work(h) PROVE CountsCoverSessions'
    BY <2>2, InsertCovers, CountCovers, OtherWorkCovers
  <2>3. ASSUME NEW h \in Handlers, NEW c \in Clients, NEW port \in Ports, Arrives(h, c, port)
        PROVE  CountsCoverSessions'
    <3>1. /\ UNCHANGED <<routes, counts>>
          /\ handlers[h].at # "count" /\ handlers'[h].at # "count"
          /\ \A g \in Handlers \ {h} : handlers'[g] = handlers[g]
      BY <2>3 DEF Arrives, TypeOK, Idle
    <3>2. \A p \in Pods : SessionsTo(p)' = SessionsTo(p) /\ Pending(p)' = Pending(p)
      BY <3>1 DEF SessionsTo, Pending
    <3> QED BY <3>1, <3>2, FewerSessions
  <2>4. ASSUME NEW c \in Clients, Expires(c) PROVE CountsCoverSessions'
    <3>1. \A p \in Pods : SessionsTo(p)' \subseteq SessionsTo(p) /\ Pending(p)' = Pending(p)
      BY <2>4, DefaultEndpointAssumption DEF Expires, handlerVars, SessionsTo, Pending, TypeOK
    <3> QED BY <2>4, <3>1, FewerSessions DEF Expires, handlerVars
  <2>5. CASE Monitor \/ \E p \in Pods : PodChanges(p)
    <3>1. UNCHANGED <<routes, counts, handlers>>
      BY <2>5 DEF Monitor, Poll, Invalidate, NoChange, PodChanges, handlerVars
    <3> QED BY <3>1 DEF CountsCoverSessions, SessionsTo, Pending
  <2> QED BY <2>1, <2>2, <2>3, <2>4, <2>5 DEF Next
<1> QED BY <1>1, <1>2, TypeCorrect, PTL DEF Spec

-----------------------------------------------------------------------------

\* A handler's step keeps what others know of the cache, and its own.
LEMMA WorkGuards ==
  ASSUME TypeOK, GuardedEndpoint, NEW h \in Handlers, Work(h)
  PROVE  GuardedEndpoint'
<1> USE DEF GuardedEndpoint, TypeOK
<1>1. CASE CacheHit(h)
  BY <1>1 DEF CacheHit
<1>2. CASE CacheMiss(h) \/ List(h)
  BY <1>2 DEF CacheMiss, Miss, List
<1>3. CASE ListFails(h)
  BY <1>3 DEF ListFails, Done
<1>4. ASSUME NEW p \in Pods, Select(h, p) PROVE GuardedEndpoint'
  BY <1>4 DEF Select, Done
<1>5. CASE Fill(h)
  BY <1>5 DEF Fill
<1>6. CASE Insert(h)
  BY <1>6 DEF Insert
<1>7. CASE Count(h)
  BY <1>7 DEF Count, CountStep, Done
<1> QED BY <1>1, <1>2, <1>3, <1>4, <1>5, <1>6, <1>7 DEF Work

\* For any number of handlers and Pods: whoever holds the read guard is on its way
\* through upsert and increment, with the endpoint that is still cached.
THEOREM GuardAlwaysHolds == Spec => []GuardedEndpoint
<1>1. Init => GuardedEndpoint
  BY DEF Init, GuardedEndpoint
<1>2. TypeOK /\ GuardedEndpoint /\ [Next]_vars => GuardedEndpoint'
  <2> SUFFICES ASSUME TypeOK, GuardedEndpoint, [Next]_vars PROVE GuardedEndpoint'
    OBVIOUS
  <2>1. ASSUME NEW h \in Handlers, NEW c \in Clients, NEW port \in Ports, Arrives(h, c, port)
        PROVE  GuardedEndpoint'
    BY <2>1 DEF Arrives, GuardedEndpoint, TypeOK
  <2>2. CASE Monitor
    BY <2>2 DEF Monitor, Poll, Invalidate, NoChange, handlerVars, GuardedEndpoint
  <2>3. ASSUME NEW c \in Clients, Expires(c) PROVE GuardedEndpoint'
    BY <2>3 DEF Expires, handlerVars, GuardedEndpoint
  <2>4. ASSUME NEW p \in Pods, PodChanges(p) PROVE GuardedEndpoint'
    BY <2>4 DEF PodChanges, handlerVars, GuardedEndpoint
  <2>5. CASE UNCHANGED vars
    BY <2>5 DEF vars, GuardedEndpoint
  <2> QED BY <2>1, <2>2, <2>3, <2>4, <2>5, WorkGuards DEF Next
<1> QED BY <1>1, <1>2, TypeCorrect, PTL DEF Spec
=============================================================================
