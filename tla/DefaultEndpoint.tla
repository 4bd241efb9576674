-------------------------- MODULE DefaultEndpoint --------------------------
(***************************************************************************)
(* How clients without a route get one: establish_default_session with its *)
(* endpoint cache behind a read-write lock, the least-sessions choice of   *)
(* the load balancer, the session counts it keeps, and the resource        *)
(* monitor that invalidates the cache.                                     *)
(*                                                                         *)
(* A Pod stands for one backend, name and address together.  The route of  *)
(* a client is only the backend it leads to; Sessions has the rest of it.  *)
(***************************************************************************)
EXTENDS Integers, FiniteSets

CONSTANTS
  Pods,
  Rank,         \* Pod -> its place in the order Kubernetes lists Pods
  Ports,        \* the director's data ports
  PortsOf,      \* Pod -> the data ports its port mapping covers
  Clients,
  Handlers,     \* bound: packets of new clients handled at a time
  InitiallyUp,  \* Pods that match the default endpoint at the start
  Faults,       \* which steps of the environment may happen
  MaxSessions,  \* bound: default sessions ever started
  NoPod, NoClient, NoPort

ASSUME DefaultEndpointAssumption ==
  /\ Rank \in [Pods -> Nat]
  /\ \A p, q \in Pods : Rank[p] = Rank[q] => p = q
  /\ PortsOf \in [Pods -> SUBSET Ports]
  /\ NoPod \notin Pods /\ NoClient \notin Clients /\ NoPort \notin Ports
  /\ InitiallyUp \subseteq Pods
  /\ IsFiniteSet(Clients) /\ IsFiniteSet(Handlers) /\ MaxSessions \in Nat

VARIABLES
  up,        \* the Pods a query of the default endpoint returns
  cache,     \* default_endpoint_cache
  readers,   \* handlers that hold the read half of its lock
  handlers,
  routes,    \* client -> the backend of its default session
  counts,    \* session_counts of the data proxy's load balancer
  started,   \* bound: handlers started so far
  last,      \* last_default_endpoint of the monitor
  monitor    \* what the monitor is about to compare with it

vars == <<up, cache, readers, handlers, routes, counts, started, last, monitor>>

Steps == {"idle", "check", "list", "select", "fill", "insert", "count"}
Target == Pods \cup {NoPod}

TypeOK ==
  /\ up \subseteq Pods
  /\ cache \in Target
  /\ readers \subseteq Handlers
  /\ handlers \in [Handlers -> [at : Steps, client : Clients \cup {NoClient},
                                port : Ports \cup {NoPort},
                                found : SUBSET Pods, pod : Target,
                                fills : BOOLEAN]]
  /\ routes \in [Clients -> Target]
  /\ counts \in [Pods -> Nat]
  /\ started \in 0..MaxSessions
  /\ last \in Target
  /\ monitor \in [at : {"rest", "compare"}, pod : Target]
  /\ \A h \in Handlers : handlers[h].at \in {"insert", "count"} =>
                           handlers[h].port \in PortsOf[handlers[h].pod]

Idle == [at |-> "idle", client |-> NoClient, port |-> NoPort, found |-> {},
         pod |-> NoPod, fills |-> FALSE]

Init ==
  /\ up = InitiallyUp
  /\ cache = NoPod
  /\ readers = {}
  /\ handlers = [h \in Handlers |-> Idle]
  /\ routes = [c \in Clients |-> NoPod]
  /\ counts = [p \in Pods |-> 0]
  /\ started = 0
  /\ last = NoPod
  /\ monitor = [at |-> "rest", pod |-> NoPod]

-----------------------------------------------------------------------------
(* establish_default_session *)

\* A packet or connection of a client without a route.
Arrives(h, c, port) ==
  /\ handlers[h].at = "idle"
  /\ routes[c] = NoPod
  /\ started < MaxSessions
  /\ started' = started + 1
  /\ handlers' = [handlers EXCEPT ![h] = [Idle EXCEPT
                    !.at = "check", !.client = c, !.port = port]]
  /\ UNCHANGED <<up, cache, readers, routes, counts, last, monitor>>

Unchanged == UNCHANGED <<up, started, last, monitor>>
Done(h) == handlers' = [handlers EXCEPT ![h] = Idle]

Hit(h) == cache # NoPod /\ handlers[h].port \in PortsOf[cache]

\* The cache has an endpoint for the port.  The read guard lives until the
\* handler is done.
CacheHit(h) ==
  /\ handlers[h].at = "check"
  /\ Hit(h)
  /\ handlers' = [handlers EXCEPT ![h].at = "insert", ![h].pod = cache]
  /\ readers' = readers \cup {h}
  /\ UNCHANGED <<cache, routes, counts>> /\ Unchanged

Miss(h) ==
  /\ handlers[h].at = "check"
  /\ ~Hit(h)
  /\ handlers' = [handlers EXCEPT ![h].at = "list", ![h].fills = (cache = NoPod)]
  /\ UNCHANGED <<cache, routes, counts>> /\ Unchanged

\* Faulty: the read guard outlives the miss as well.
MissKeepingGuard(h) == Miss(h) /\ readers' = readers \cup {h}

\* The cache is empty, or its endpoint lacks the port: the read guard is
\* dropped and Kubernetes asked.  Only an empty cache is filled afterwards.
CacheMiss(h) == Miss(h) /\ UNCHANGED readers

\* query_resources lists the matching Pods ...
List(h) ==
  /\ handlers[h].at = "list"
  /\ handlers' = [handlers EXCEPT ![h].at = "select", ![h].found = up]
  /\ UNCHANGED <<cache, readers, routes, counts>> /\ Unchanged

\* ... or fails, or there are none.
ListFails(h) ==
  /\ \/ handlers[h].at = "list" /\ "apiError" \in Faults
     \/ handlers[h].at = "select" /\ handlers[h].found = {}
  /\ Done(h)
  /\ UNCHANGED <<cache, readers, routes, counts>> /\ Unchanged

\* select_least_sessions: a stable sort by count; the first of the fewest.
LeastSessions(found, p) ==
  /\ p \in found
  /\ \A q \in found : \/ counts[p] < counts[q]
                      \/ counts[p] = counts[q] /\ Rank[p] <= Rank[q]

Select(h, p) ==
  /\ handlers[h].at = "select"
  /\ LeastSessions(handlers[h].found, p)
  /\ IF handlers[h].fills
     THEN handlers' = [handlers EXCEPT ![h].at = "fill", ![h].pod = p, ![h].found = {}]
     ELSE IF handlers[h].port \in PortsOf[p]
     THEN handlers' = [handlers EXCEPT ![h].at = "insert", ![h].pod = p, ![h].found = {}]
     ELSE Done(h)
  /\ UNCHANGED <<cache, readers, routes, counts>> /\ Unchanged

\* Faulty: the endpoint is cached and used without a look at its ports.
FillUnchecked(h) ==
  /\ handlers[h].at = "fill"
  /\ readers = {}
  /\ cache' = handlers[h].pod
  /\ handlers' = [handlers EXCEPT ![h].at = "insert"]
  /\ UNCHANGED <<readers, routes, counts>> /\ Unchanged

\* The result goes into the cache, even if it does not serve this port.
Fill(h) ==
  /\ handlers[h].at = "fill"
  /\ readers = {}
  /\ cache' = handlers[h].pod
  /\ IF handlers[h].port \in PortsOf[handlers[h].pod]
     THEN handlers' = [handlers EXCEPT ![h].at = "insert"]
     ELSE Done(h)
  /\ UNCHANGED <<readers, routes, counts>> /\ Unchanged

\* upsert_multi_port
Insert(h) ==
  /\ handlers[h].at = "insert"
  /\ routes' = [routes EXCEPT ![handlers[h].client] = handlers[h].pod]
  /\ handlers' = [handlers EXCEPT ![h].at = "count"]
  /\ UNCHANGED <<cache, readers, counts>> /\ Unchanged

CountStep(h, more) ==
  /\ handlers[h].at = "count"
  /\ counts' = [counts EXCEPT ![handlers[h].pod] = @ + more]
  /\ readers' = readers \ {h}
  /\ Done(h)
  /\ UNCHANGED <<cache, routes>> /\ Unchanged

\* Faulty: a session from the cache is not counted.
CountMissOnly(h) == CountStep(h, IF h \in readers THEN 0 ELSE 1)

\* increment_session; the handler is done and gives up its guard.
Count(h) == CountStep(h, 1)

-----------------------------------------------------------------------------
(* The resource monitor, the cleanup loop and the cluster *)

handlerVars == <<readers, handlers, counts, started>>

\* check_default_endpoint looks at the first of the listed resources only.
Poll ==
  /\ monitor.at = "rest"
  /\ \E p \in Target :
       /\ IF up = {} THEN p = NoPod
          ELSE p \in up /\ \A q \in up : Rank[p] <= Rank[q]
       /\ monitor' = [at |-> "compare", pod |-> p]
  /\ UNCHANGED <<up, cache, routes, last, handlerVars>>

\* The first resource is another one, appeared or disappeared.
Invalidate ==
  /\ monitor.at = "compare"
  /\ monitor.pod # last
  /\ readers = {}
  /\ cache' = NoPod
  /\ last' = monitor.pod
  /\ monitor' = [at |-> "rest", pod |-> NoPod]
  /\ UNCHANGED <<up, routes, handlerVars>>

NoChange ==
  /\ monitor.at = "compare"
  /\ monitor.pod = last
  /\ monitor' = [at |-> "rest", pod |-> NoPod]
  /\ UNCHANGED <<up, cache, routes, last, handlerVars>>

\* Session cleanup.  Its task runs on a copy of the session manager made before
\* the callback is set, so no count goes down.
Expires(c) ==
  /\ "expiry" \in Faults
  /\ routes[c] # NoPod
  /\ routes' = [routes EXCEPT ![c] = NoPod]
  /\ UNCHANGED <<up, cache, last, monitor, handlerVars>>

PodChanges(p) ==
  /\ "pods" \in Faults
  /\ up' = IF p \in up THEN up \ {p} ELSE up \cup {p}
  /\ UNCHANGED <<cache, routes, last, monitor, handlerVars>>

-----------------------------------------------------------------------------

Work(h) ==
  \/ CacheHit(h) \/ CacheMiss(h)
  \/ List(h) \/ ListFails(h) \/ Fill(h) \/ Insert(h) \/ Count(h)
  \/ \E p \in Pods : Select(h, p)

Monitor == Poll \/ Invalidate \/ NoChange

Next ==
  \/ \E h \in Handlers, c \in Clients, port \in Ports :
       Arrives(h, c, port)
  \/ \E h \in Handlers : Work(h)
  \/ Monitor
  \/ \E c \in Clients : Expires(c)
  \/ \E p \in Pods : PodChanges(p)

Spec == Init /\ [][Next]_vars

\* Handlers and the monitor run on; Kubernetes answers every list.
FairSpec == Spec /\ (\A h \in Handlers : WF_vars(Work(h))) /\ WF_vars(Monitor)

-----------------------------------------------------------------------------
(* Properties *)

SessionsTo(p) == {c \in Clients : routes[c] = p}
Pending(p) == {h \in Handlers : handlers[h].at = "count" /\ handlers[h].pod = p}

\* The load balancer never takes a backend for less loaded than it is: every
\* default session is counted, but for those between the upsert and the
\* increment, whichever way its endpoint was found and however handlers of one
\* client overlap.
CountsCoverSessions ==
  \A p \in Pods :
    Cardinality(SessionsTo(p)) <= counts[p] + Cardinality(Pending(p))

\* A handler that keeps the read half of the cache's lock waits for neither lock nor
\* Kubernetes until it is done, and all the while the cache holds the endpoint it
\* hands out: neither another handler's fill nor the monitor gets in between.
GuardedEndpoint ==
  \A h \in readers : handlers[h].at \in {"insert", "count"} /\ handlers[h].pod = cache

\* Every first packet is dealt with and every invalidation happens: handlers
\* and monitor, which take the cache's lock from both sides, never wait for
\* each other, and no handler waits for its own guard.
NobodyStuck ==
  /\ \A h \in Handlers : (handlers[h].at # "idle") ~> (handlers[h].at = "idle")
  /\ (monitor.at = "compare") ~> (monitor.at = "rest")

\* The counts are those of the sessions that exist, when no handler is at work.
CountsMatchSessions ==
  (\A h \in Handlers : handlers[h].at = "idle") =>
    \A p \in Pods : counts[p] = Cardinality(SessionsTo(p))
=============================================================================
