------------------------------ MODULE Sessions ------------------------------
(***************************************************************************)
(* The data plane of one director: the table of forwarding routes, one per *)
(* client IP, the upstream socket of every UDP flow, and the tasks that    *)
(* work on them side by side.  A task is a query installing its route, the *)
(* handler of one UDP packet, or the handler of one TCP connection; beside *)
(* them run the cleanup loop and one receive task per upstream socket.     *)
(*                                                                         *)
(* A step ends where the code releases the lock of the table's shard or    *)
(* awaits: upsert_multi_port, for one, is two steps.  Packets are not      *)
(* modelled, only where they may go.  A route remembers who installed it   *)
(* ("query" or "default"), which the code does not; no step reads it.      *)
(***************************************************************************)
EXTENDS FiniteSets

CONSTANTS
  Clients,   \* client IPs, the keys of the table
  Flows,     \* a client socket at a data port of the director
  TcpFlows,  \* the flows that are TCP connections
  ClientOf,  \* flow -> its client IP
  Pods,      \* the backends
  Reaches,   \* Pod -> the flows whose data port its port mapping covers
  Sockets,   \* the ephemeral sockets the process can have open
  Tasks,     \* bound: tasks under way at a time
  NoRoute, NoClient, NoFlow, NoPod, NoSocket

\* A session of the table: where it leads, who installed it, whether it has timed
\* out, and the upstream socket of each flow.
Session == [pod : Pods, by : {"query", "default"}, idle : BOOLEAN,
            udp : [Flows -> Sockets \cup {NoSocket}]]

ASSUME SessionsAssumption ==
  /\ TcpFlows \subseteq Flows
  /\ ClientOf \in [Flows -> Clients]
  /\ Reaches \in [Pods -> SUBSET Flows]
  /\ NoClient \notin Clients /\ NoFlow \notin Flows
  /\ NoPod \notin Pods /\ NoSocket \notin Sockets /\ NoRoute \notin Session

VARIABLES
  routes,   \* client -> its Session
  sockets,  \* upstream socket -> its flow, shutdown flag and receive task
  tasks,
  cleanup   \* the cleanup loop: keys it has yet to look at, keys to remove

vars == <<routes, sockets, tasks, cleanup>>

Steps == {"idle", "resolve", "replace", "insert", "forward", "send",
          "connect", "relay", "touch"}

\* One type invariant.  A task that sends has a socket to send with.
TypeOK ==
  /\ routes \in [Clients -> Session \cup {NoRoute}]
  /\ sockets \in [Sockets -> [flow : Flows \cup {NoFlow},
                              signalled : BOOLEAN, receiving : BOOLEAN]]
  /\ tasks \in [Tasks -> [at : Steps, client : Clients \cup {NoClient},
                          flow : Flows \cup {NoFlow},
                          pod : Pods \cup {NoPod},
                          by : {"query", "default", "route"},
                          socket : Sockets \cup {NoSocket}]]
  /\ cleanup \in [unseen : SUBSET Clients, doomed : SUBSET Clients]
  /\ \A t \in Tasks : tasks[t].at = "send" => tasks[t].socket \in Sockets

Idle == [at |-> "idle", client |-> NoClient, flow |-> NoFlow, pod |-> NoPod,
         by |-> "route", socket |-> NoSocket]

Init ==
  /\ routes = [c \in Clients |-> NoRoute]
  /\ sockets = [s \in Sockets |-> [flow |-> NoFlow, signalled |-> FALSE,
                                   receiving |-> FALSE]]
  /\ tasks = [t \in Tasks |-> Idle]
  /\ cleanup = [unseen |-> {}, doomed |-> {}]

-----------------------------------------------------------------------------

NoUdp == [f \in Flows |-> NoSocket]
Routed(c) == routes[c] # NoRoute
Listed(c) == IF Routed(c) THEN {routes[c].udp[f] : f \in Flows} \ {NoSocket} ELSE {}

\* No receive task, no table entry and no task holds the socket: it is closed.
Closed(s) ==
  /\ ~sockets[s].receiving
  /\ \A c \in Clients : s \notin Listed(c)
  /\ \A t \in Tasks : tasks[t].socket # s

\* shutdown_sockets: the receive tasks are told to stop ...
Shutdown(c) ==
  sockets' = [s \in Sockets |-> IF s \in Listed(c)
                                THEN [sockets[s] EXCEPT !.signalled = TRUE]
                                ELSE sockets[s]]

Ends(t) == tasks' = [tasks EXCEPT ![t] = Idle]

\* From here on only the client matters to the task.
GoesOn(t, step) ==
  tasks' = [tasks EXCEPT ![t] = [Idle EXCEPT !.at = step, !.client = tasks[t].client]]

-----------------------------------------------------------------------------
(* A query installs the route of its client. *)

\* The TCP query server calls upsert_multi_port for an allocated server.  Only
\* queries with a character come this far, and they hold the assignment lock from
\* selection to return: one at a time.
QueryAssigned(t, c, p) ==
  /\ tasks[t].at = "idle"
  /\ \A u \in Tasks : tasks[u].by # "query"
  /\ tasks' = [tasks EXCEPT ![t] = [Idle EXCEPT !.at = "replace", !.by = "query",
                                                !.client = c, !.pod = p]]
  /\ UNCHANGED <<routes, sockets, cleanup>>

(* A packet or a connection of a flow arrives. *)

Established(f) == IF f \in TcpFlows THEN "connect" ELSE "forward"

Arrives(t, f) ==
  /\ tasks[t].at = "idle"
  /\ tasks' = [tasks EXCEPT ![t] = [Idle EXCEPT
                 !.client = ClientOf[f], !.flow = f,
                 !.at = IF Routed(ClientOf[f]) THEN Established(f) ELSE "resolve",
                 !.by = IF Routed(ClientOf[f]) THEN "route" ELSE "default"]]
  /\ UNCHANGED <<routes, sockets, cleanup>>

\* establish_default_session found the default endpoint p.
Resolved(t, p) ==
  /\ tasks[t].at = "resolve"
  /\ tasks[t].flow \in Reaches[p]
  /\ tasks' = [tasks EXCEPT ![t].at = "replace", ![t].pod = p]
  /\ UNCHANGED <<routes, sockets, cleanup>>

\* There is none, or it does not serve the port.
ResolveFails(t) ==
  /\ tasks[t].at = "resolve"
  /\ Ends(t)
  /\ UNCHANGED <<routes, sockets, cleanup>>

\* Faulty: the receive tasks are told to stop, their sockets stay listed.
ShutdownListed(t) ==
  /\ tasks[t].at = "replace"
  /\ Shutdown(tasks[t].client)
  /\ tasks' = [tasks EXCEPT ![t].at = "insert"]
  /\ UNCHANGED <<routes, cleanup>>

\* upsert_multi_port, under the first lock: shut down the sockets of the old
\* session.
ShutdownOld(t) == LET c == tasks[t].client IN
  /\ tasks[t].at = "replace"
  /\ Shutdown(c)
  /\ routes' = IF Routed(c) THEN [routes EXCEPT ![c].udp = NoUdp] ELSE routes
  /\ tasks' = [tasks EXCEPT ![t].at = "insert"]
  /\ UNCHANGED cleanup

AfterInsert(t) ==
  IF tasks[t].by = "query"
  THEN Ends(t)
  ELSE tasks' = [tasks EXCEPT ![t].at = Established(tasks[t].flow), ![t].pod = NoPod]

Fresh(t) == [pod |-> tasks[t].pod, by |-> tasks[t].by, idle |-> FALSE, udp |-> NoUdp]

\* Faulty: only the target of an existing session is replaced.
InsertInPlace(t) == LET c == tasks[t].client IN
  /\ tasks[t].at = "insert"
  /\ routes' = [routes EXCEPT ![c] = IF Routed(c) THEN [@ EXCEPT !.pod = tasks[t].pod]
                                                  ELSE Fresh(t)]
  /\ AfterInsert(t)
  /\ UNCHANGED <<sockets, cleanup>>

\* upsert_multi_port, under the second lock: the new session goes in, and
\* whatever is there by now is dropped.
Insert(t) ==
  /\ tasks[t].at = "insert"
  /\ routes' = [routes EXCEPT ![tasks[t].client] = Fresh(t)]
  /\ AfterInsert(t)
  /\ UNCHANGED <<sockets, cleanup>>

-----------------------------------------------------------------------------
(* UDP: proxy_packet_bidirectional. *)

Routable(t) == LET c == tasks[t].client IN
  Routed(c) /\ tasks[t].flow \in Reaches[routes[c].pod]

\* The session is gone again, or has no mapping for the data port.
ForwardFails(t) ==
  /\ tasks[t].at = "forward"
  /\ ~Routable(t)
  /\ Ends(t)
  /\ UNCHANGED <<routes, sockets, cleanup>>

SendsWith(t, s) ==
  tasks' = [tasks EXCEPT ![t].at = "send", ![t].socket = s,
                         ![t].pod = routes[tasks[t].client].pod]

\* The flow has its socket already.
UseSocket(t) == LET s == routes[tasks[t].client].udp[tasks[t].flow] IN
  /\ tasks[t].at = "forward"
  /\ Routable(t)
  /\ s # NoSocket
  /\ SendsWith(t, s)
  /\ UNCHANGED <<routes, sockets, cleanup>>

\* The flow gets a socket of its own, with a receive task.
OpenSocket(t, s) == LET c == tasks[t].client  f == tasks[t].flow IN
  /\ tasks[t].at = "forward"
  /\ Routable(t)
  /\ routes[c].udp[f] = NoSocket
  /\ Closed(s)
  /\ sockets' = [sockets EXCEPT ![s] = [flow |-> f, signalled |-> FALSE,
                                        receiving |-> TRUE]]
  /\ routes' = [routes EXCEPT ![c].udp[f] = s]
  /\ SendsWith(t, s)
  /\ UNCHANGED cleanup

\* Faulty: the error of SessionSocket::new is swallowed.
SendWithoutSocket(t) ==
  /\ tasks[t].at = "forward"
  /\ Routable(t)
  /\ routes[tasks[t].client].udp[tasks[t].flow] = NoSocket
  /\ \A s \in Sockets : ~Closed(s)
  /\ SendsWith(t, NoSocket)
  /\ UNCHANGED <<routes, sockets, cleanup>>

SocketsExhausted(t) ==
  /\ tasks[t].at = "forward"
  /\ Routable(t)
  /\ routes[tasks[t].client].udp[tasks[t].flow] = NoSocket
  /\ \A s \in Sockets : ~Closed(s)
  /\ Ends(t)
  /\ UNCHANGED <<routes, sockets, cleanup>>

\* The packet leaves.  Only a packet that found its route on arrival touches
\* the session afterwards.
Send(t) ==
  /\ tasks[t].at = "send"
  /\ IF tasks[t].by = "route" THEN GoesOn(t, "touch") ELSE Ends(t)
  /\ UNCHANGED <<routes, sockets, cleanup>>

SendFails(t) ==
  /\ tasks[t].at = "send"
  /\ Ends(t)
  /\ UNCHANGED <<routes, sockets, cleanup>>

-----------------------------------------------------------------------------
(* TCP: handle_tcp_connection. *)

Connect(t) ==
  /\ tasks[t].at = "connect"
  /\ Routable(t)
  /\ GoesOn(t, "relay")
  /\ UNCHANGED <<routes, sockets, cleanup>>

\* The session is gone again, has no mapping, or the backend refuses.
ConnectFails(t) ==
  /\ tasks[t].at = "connect"
  /\ Ends(t)
  /\ UNCHANGED <<routes, sockets, cleanup>>

RelayEnds(t) ==
  /\ tasks[t].at = "relay"
  /\ GoesOn(t, "touch")
  /\ UNCHANGED <<routes, sockets, cleanup>>

\* touch_by_addr, after a packet and at the end of a connection.
Touch(t) == LET c == tasks[t].client IN
  /\ tasks[t].at = "touch"
  /\ routes' = IF Routed(c) THEN [routes EXCEPT ![c].idle = FALSE] ELSE routes
  /\ Ends(t)
  /\ UNCHANGED <<sockets, cleanup>>

-----------------------------------------------------------------------------
(* Time, the cleanup loop and the receive tasks. *)

\* session_timeout_seconds have passed since the session was touched.
TimeoutPasses(c) ==
  /\ Routed(c)
  /\ ~routes[c].idle
  /\ routes' = [routes EXCEPT ![c].idle = TRUE]
  /\ UNCHANGED <<sockets, tasks, cleanup>>

CleanupTick ==
  /\ cleanup.unseen = {} /\ cleanup.doomed = {}
  /\ \E c \in Clients : Routed(c)
  /\ cleanup' = [cleanup EXCEPT !.unseen = {c \in Clients : Routed(c)}]
  /\ UNCHANGED <<routes, sockets, tasks>>

\* The iterator reaches a key.
Inspect(c) ==
  /\ c \in cleanup.unseen
  /\ cleanup' = [unseen |-> cleanup.unseen \ {c},
                 doomed |-> IF Routed(c) /\ routes[c].idle
                            THEN cleanup.doomed \cup {c} ELSE cleanup.doomed]
  /\ UNCHANGED <<routes, sockets, tasks>>

RemoveStep(c) ==
  /\ cleanup.unseen = {}
  /\ c \in cleanup.doomed
  /\ cleanup' = [cleanup EXCEPT !.doomed = @ \ {c}]
  /\ routes' = [routes EXCEPT ![c] = NoRoute]
  /\ UNCHANGED tasks

\* Faulty: the session is dropped with its receive tasks running.
RemoveOnly(c) == RemoveStep(c) /\ UNCHANGED sockets

\* The key is removed without a second look at its session, whose sockets are then
\* shut down: nobody else can reach them once it is out of the table.
Remove(c) == RemoveStep(c) /\ Shutdown(c)

\* The loop of the receive task sees the flag within a second.
ReceiverStops(s) ==
  /\ sockets[s].receiving /\ sockets[s].signalled
  /\ sockets' = [sockets EXCEPT ![s].receiving = FALSE]
  /\ UNCHANGED <<routes, tasks, cleanup>>

\* recv_from fails: the task ends, the socket stays listed and still sends.
ReceiverFails(s) ==
  /\ sockets[s].receiving
  /\ sockets' = [sockets EXCEPT ![s].receiving = FALSE]
  /\ UNCHANGED <<routes, tasks, cleanup>>

-----------------------------------------------------------------------------

Arrival(t) ==
  \/ \E c \in Clients, p \in Pods : QueryAssigned(t, c, p)
  \/ \E f \in Flows : Arrives(t, f)

Progress(t) ==
  \/ \E p \in Pods : Resolved(t, p)
  \/ ResolveFails(t) \/ ShutdownOld(t) \/ Insert(t)
  \/ ForwardFails(t) \/ UseSocket(t) \/ SocketsExhausted(t)
  \/ \E s \in Sockets : OpenSocket(t, s)
  \/ Send(t) \/ SendFails(t)
  \/ Connect(t) \/ ConnectFails(t) \/ RelayEnds(t) \/ Touch(t)

Background ==
  \/ \E c \in Clients : TimeoutPasses(c) \/ Inspect(c) \/ Remove(c)
  \/ CleanupTick
  \/ \E s \in Sockets : ReceiverStops(s) \/ ReceiverFails(s)

Next == (\E t \in Tasks : Arrival(t) \/ Progress(t)) \/ Background

Spec == Init /\ [][Next]_vars

\* Time passes, and tokio runs every spawned task that can run.  Nothing makes
\* clients send, a resolution succeed or a connection end.
FairSpec ==
  /\ Spec
  /\ \A c \in Clients : /\ WF_vars(TimeoutPasses(c))
                        /\ WF_vars(Inspect(c))
                        /\ WF_vars(Remove(c))
  /\ WF_vars(CleanupTick)
  /\ \A s \in Sockets : WF_vars(ReceiverStops(s))

-----------------------------------------------------------------------------
(* Properties *)

\* A socket the table lists belongs to the flow it is listed for and its receive
\* task has not been told to stop: no handler that looks its flow up is given a
\* socket whose replies go to another client socket, or one that was shut down
\* with an earlier route, although routes are replaced and removed between any
\* two steps of that handler.
ListedSocketsWork ==
  \A c \in Clients : Routed(c) =>
    \A f \in Flows : LET s == routes[c].udp[f] IN
      s # NoSocket => /\ ClientOf[f] = c
                      /\ sockets[s].flow = f
                      /\ ~sockets[s].signalled

\* An upstream socket the table still lists talks to the backend the table
\* names: a packet on its way to the previous server never shares a socket,
\* and so a reply stream, with packets to the new one.
OneServerPerSocket ==
  \A t \in Tasks, c \in Clients :
    tasks[t].at = "send" /\ tasks[t].socket \in Listed(c)
      => tasks[t].pod = routes[c].pod

AllIdle == \A t \in Tasks : tasks[t].at = "idle"

\* Forwarding state expires: when no task is under way any more, every session
\* and every receive task is gone after a while.
InactiveStateExpires ==
  <>[]AllIdle => <>[](/\ \A c \in Clients : ~Routed(c)
                      /\ \A s \in Sockets : ~sockets[s].receiving)

\* A packet of a client is being forwarded between the two locks of an
\* upsert_multi_port for that client.
Overlap ==
  \E t, u \in Tasks : /\ tasks[t].at = "insert" /\ tasks[u].at = "forward"
                      /\ tasks[t].client = tasks[u].client

\* A receive task that nobody told to stop serves a socket of the table: cleanup and
\* the next route of its client will find it.
ReceiversListed ==
  \A s \in Sockets : sockets[s].receiving /\ ~sockets[s].signalled =>
    \E c \in Clients : s \in Listed(c)

\* Nor is it about to be forgotten: what an insert replaces has no sockets.
InsertsEmpty ==
  \A t \in Tasks, c \in Clients :
    tasks[t].at = "insert" /\ tasks[t].client = c => Listed(c) = {}

\* No step outside that overlap loses a receive task or prepares its loss.
OrphansNeedOverlap ==
  [][ReceiversListed /\ InsertsEmpty /\ ~Overlap => ReceiversListed' /\ InsertsEmpty']_vars

\* That overlap is the only way to leave something behind for ever: without it
\* the sessions and receive tasks of queries, packets and connections all
\* expire, however else they interleave with each other, with cleanup, with
\* receive tasks that fail and with sockets running out.
ExpiresWithoutOverlap == []~Overlap => InactiveStateExpires

\* A route that a query installed goes only when it is inactive or when
\* another query replaces it; the default route never takes its place.
QueryRouteStands ==
  [][\A c \in Clients :
       (Routed(c) /\ routes[c].by = "query" /\ Routed(c)')
         => routes'[c].by = "query"]_vars
=============================================================================
