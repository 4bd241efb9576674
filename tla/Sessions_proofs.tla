--------------------------- MODULE Sessions_proofs ---------------------------
(***************************************************************************)
(* What holds of Sessions for any number of clients, flows, backends,      *)
(* sockets and tasks: the types of the variables, that a listed socket     *)
(* works, that a socket never serves two backends, and that receive tasks  *)
(* are lost in one way only.                                               *)
(*                                                                         *)
(* The first three go together.  OneServerPerSocket needs that no socket *)
(* is listed for two clients, which follows from ListedSocketsWork: a      *)
(* listed socket belongs to its flow, and a flow to one client.            *)
(***************************************************************************)
EXTENDS Sessions, TLAPS

Task == [at : Steps, client : Clients \cup {NoClient}, flow : Flows \cup {NoFlow},
         pod : Pods \cup {NoPod}, by : {"query", "default", "route"},
         socket : Sockets \cup {NoSocket}]
Socket == [flow : Flows \cup {NoFlow}, signalled : BOOLEAN, receiving : BOOLEAN]

\* What a task knows at each step: a task that forwards has a flow of its client,
\* one that installs a session has a backend for it.
Knows(r) ==
  /\ r.at # "idle" => r.client \in Clients
  /\ \/ r.at \in {"resolve", "forward", "connect"}
     \/ r.at \in {"replace", "insert"} /\ r.by = "default"
     => r.flow \in Flows /\ r.client = ClientOf[r.flow]
  /\ r.at = "resolve" => r.by = "default"
  /\ r.at \in {"replace", "insert"} => r.pod \in Pods /\ r.by \in {"query", "default"}
  /\ r.at = "send" => r.socket \in Sockets

AllKnow == \A t \in Tasks : Knows(tasks[t])

IInv == TypeOK /\ AllKnow /\ ListedSocketsWork /\ OneServerPerSocket

\* The invariant holds before the first packet.
LEMMA InitIInv == Init => IInv
<1> SUFFICES ASSUME Init PROVE IInv
  OBVIOUS
<1>1. Idle \in Task /\ Knows(Idle) /\ Idle.at = "idle"
  BY DEF Idle, Task, Knows, Steps
<1>2. \A t \in Tasks : tasks[t] = Idle
  BY DEF Init
<1>3. TypeOK
  BY <1>1, <1>2 DEF Init, TypeOK, Task
<1>4. AllKnow
  BY <1>1, <1>2 DEF AllKnow
<1>5. ListedSocketsWork
  BY DEF Init, ListedSocketsWork, Routed
<1>6. OneServerPerSocket
  BY <1>1, <1>2 DEF OneServerPerSocket
<1> QED BY <1>3, <1>4, <1>5, <1>6 DEF IInv

-----------------------------------------------------------------------------
(* Types *)

TypedTables ==
  /\ routes \in [Clients -> Session \cup {NoRoute}]
  /\ sockets \in [Sockets -> Socket]
  /\ cleanup \in [unseen : SUBSET Clients, doomed : SUBSET Clients]

\* A task becomes r.
Becomes(t, r) == r \in Task /\ Knows(r) /\ tasks' = [tasks EXCEPT ![t] = r]

\* TypeOK and AllKnow, taken apart.
LEMMA Parts ==
  TypeOK /\ AllKnow <=> /\ TypedTables
                        /\ tasks \in [Tasks -> Task]
                        /\ \A t \in Tasks : Knows(tasks[t])
BY DEF TypeOK, AllKnow, TypedTables, Task, Socket, Knows

\* The parts are kept when one task moves on.
LEMMA OneTaskMoves ==
  ASSUME TypeOK, AllKnow, TypedTables', NEW t \in Tasks, NEW r, Becomes(t, r)
  PROVE  TypeOK' /\ AllKnow'
<1>1. tasks' \in [Tasks -> Task]
  BY Parts DEF Becomes
<1>2. \A u \in Tasks : Knows(tasks'[u])
  BY Parts DEF Becomes
<1>3. (TypeOK /\ AllKnow)'
  BY <1>1, <1>2 DEF TypeOK, AllKnow, TypedTables, Task, Socket, Knows
<1> QED BY <1>3

\* Ending, and going on with the client alone.
LEMMA TaskEnds ==
  ASSUME TypeOK, AllKnow, NEW t \in Tasks
  PROVE  /\ Idle \in Task /\ Knows(Idle)
         /\ \A step \in {"relay", "touch"} : tasks[t].at # "idle" =>
              LET r == [Idle EXCEPT !.at = step, !.client = tasks[t].client]
              IN r \in Task /\ Knows(r)
<1>1. tasks[t] \in Task /\ Knows(tasks[t])
  BY Parts
<1> QED BY <1>1 DEF Idle, Task, Knows, Steps

\* Arrivals, and the steps of a task that touch neither table nor sockets.
TaskOnly(t) ==
  \/ Arrival(t)
  \/ \E p \in Pods : Resolved(t, p)
  \/ ResolveFails(t) \/ ForwardFails(t) \/ SocketsExhausted(t) \/ Send(t) \/ SendFails(t)
  \/ Connect(t) \/ ConnectFails(t) \/ RelayEnds(t)

\* Such a step leaves its task with what it knows, and without a new socket.
LEMMA TaskOnlyMoves ==
  ASSUME TypeOK, AllKnow, NEW t \in Tasks, TaskOnly(t)
  PROVE  /\ UNCHANGED <<routes, sockets, cleanup>>
         /\ \E r : Becomes(t, r) /\ r.at # "send"
<1>1. tasks[t] \in Task /\ Knows(tasks[t])
  BY Parts
<1>2. Becomes(t, Idle) <=> Ends(t)
  BY TaskEnds DEF Becomes, Ends
<1>3. CASE Ends(t) /\ UNCHANGED <<routes, sockets, cleanup>>
  BY <1>2, <1>3 DEF Idle
<1>4. ASSUME NEW c \in Clients, NEW p \in Pods, QueryAssigned(t, c, p)
      PROVE  UNCHANGED <<routes, sockets, cleanup>> /\ \E r : Becomes(t, r) /\ r.at # "send"
  <2> DEFINE r == [Idle EXCEPT !.at = "replace", !.by = "query", !.client = c, !.pod = p]
  <2>1. r \in Task /\ Knows(r) /\ r.at # "send"
    BY SessionsAssumption DEF Idle, Task, Knows, Steps
  <2> QED BY <1>4, <2>1 DEF QueryAssigned, Becomes
<1>5. ASSUME NEW f \in Flows, Arrives(t, f)
      PROVE  UNCHANGED <<routes, sockets, cleanup>> /\ \E r : Becomes(t, r) /\ r.at # "send"
  <2> DEFINE r == [Idle EXCEPT !.client = ClientOf[f], !.flow = f,
                     !.at = IF Routed(ClientOf[f]) THEN Established(f) ELSE "resolve",
                     !.by = IF Routed(ClientOf[f]) THEN "route" ELSE "default"]
  <2>1. ClientOf[f] \in Clients
    BY SessionsAssumption
  <2>2. r \in Task /\ Knows(r) /\ r.at # "send"
    BY <2>1 DEF Idle, Task, Knows, Steps, Established
  <2> QED BY <1>5, <2>2 DEF Arrives, Becomes
<1>6. ASSUME NEW p \in Pods, Resolved(t, p)
      PROVE  UNCHANGED <<routes, sockets, cleanup>> /\ \E r : Becomes(t, r) /\ r.at # "send"
  <2> DEFINE r == [tasks[t] EXCEPT !.at = "replace", !.pod = p]
  <2>1. r \in Task /\ Knows(r) /\ r.at # "send"
    BY <1>1, <1>6 DEF Resolved, Task, Knows, Steps
  <2>2. tasks' = [tasks EXCEPT ![t] = r]
    BY <1>6, Parts DEF Resolved
  <2> QED BY <1>6, <2>1, <2>2 DEF Resolved, Becomes
<1>7. ASSUME NEW step \in {"relay", "touch"}, GoesOn(t, step), tasks[t].at # "idle",
             UNCHANGED <<routes, sockets, cleanup>>
      PROVE  UNCHANGED <<routes, sockets, cleanup>> /\ \E r : Becomes(t, r) /\ r.at # "send"
  <2> DEFINE r == [Idle EXCEPT !.at = step, !.client = tasks[t].client]
  <2>1. r \in Task /\ Knows(r)
    BY <1>7, TaskEnds
  <2>2. r.at # "send"
    BY DEF Idle
  <2> QED BY <1>7, <2>1, <2>2 DEF GoesOn, Becomes
<1> QED BY <1>3, <1>4, <1>5, <1>6, <1>7
    DEF TaskOnly, Arrival, ResolveFails, ForwardFails, SocketsExhausted, Send, SendFails,
        Connect, ConnectFails, RelayEnds

\* The two critical sections of upsert_multi_port.
LEMMA ShutdownOldMoves ==
  ASSUME TypeOK, AllKnow, NEW t \in Tasks, ShutdownOld(t)
  PROVE  TypedTables' /\ \E r : Becomes(t, r) /\ r.at # "send"
<1> DEFINE r == [tasks[t] EXCEPT !.at = "insert"]
           c == tasks[t].client
<1>1. tasks[t] \in Task /\ Knows(tasks[t]) /\ TypedTables /\ tasks[t].at = "replace"
  BY Parts DEF ShutdownOld
<1>2. r \in Task /\ Knows(r) /\ r.at # "send"
  BY <1>1 DEF Task, Knows, Steps
<1>3. tasks' = [tasks EXCEPT ![t] = r] /\ cleanup' = cleanup
  BY Parts DEF ShutdownOld
<1>4. sockets' \in [Sockets -> Socket]
  <2>1. \A s \in Sockets : [sockets[s] EXCEPT !.signalled = TRUE] \in Socket
    BY <1>1 DEF TypedTables, Socket
  <2> QED BY <1>1, <2>1 DEF ShutdownOld, Shutdown, TypedTables
<1>5. routes' \in [Clients -> Session \cup {NoRoute}]
  <2>1. Routed(c) => [routes[c] EXCEPT !.udp = NoUdp] \in Session
    BY <1>1 DEF TypedTables, Knows, Routed, Session, NoUdp
  <2>2. routes' = IF Routed(c) THEN [routes EXCEPT ![c] = [routes[c] EXCEPT !.udp = NoUdp]]
                               ELSE routes
    BY <1>1 DEF ShutdownOld, TypedTables
  <2> QED BY <1>1, <2>1, <2>2 DEF TypedTables
<1> QED BY <1>1, <1>2, <1>3, <1>4, <1>5 DEF Becomes, TypedTables

\* The second lock puts in a session for the backend the task was given.
LEMMA InsertMoves ==
  ASSUME TypeOK, AllKnow, NEW t \in Tasks, Insert(t)
  PROVE  TypedTables' /\ \E r : Becomes(t, r) /\ r.at # "send"
<1> DEFINE r == [tasks[t] EXCEPT !.at = Established(tasks[t].flow), !.pod = NoPod]
<1>1. tasks[t] \in Task /\ Knows(tasks[t]) /\ TypedTables /\ tasks[t].at = "insert"
  BY Parts DEF Insert
<1>2. UNCHANGED <<sockets, cleanup>> /\ routes' = [routes EXCEPT ![tasks[t].client] = Fresh(t)]
  BY DEF Insert
<1>3. Fresh(t) \in Session
  BY <1>1 DEF Fresh, Session, Knows, NoUdp
<1>4. TypedTables'
  BY <1>1, <1>2, <1>3 DEF TypedTables, Socket
<1>5. CASE tasks[t].by = "query"
  <2>1. Becomes(t, Idle)
    BY <1>5, TaskEnds DEF Insert, AfterInsert, Ends, Becomes
  <2> QED BY <1>4, <2>1 DEF Idle
<1>6. CASE tasks[t].by # "query"
  <2>1. r \in Task /\ Knows(r) /\ r.at # "send"
    BY <1>1, <1>6 DEF Task, Knows, Steps, Established
  <2>2. tasks' = [tasks EXCEPT ![t] = r]
    BY <1>6, Parts DEF Insert, AfterInsert
  <2> QED BY <1>4, <2>1, <2>2 DEF Becomes
<1> QED BY <1>5, <1>6

\* A forwarding task gets a socket.
LEMMA SendMoves ==
  ASSUME TypeOK, AllKnow, NEW t \in Tasks, NEW s \in Sockets,
         tasks[t].at = "forward", Routable(t), SendsWith(t, s)
  PROVE  LET r == [tasks[t] EXCEPT !.at = "send", !.socket = s,
                                   !.pod = routes[tasks[t].client].pod]
         IN Becomes(t, r)
<1> DEFINE r == [tasks[t] EXCEPT !.at = "send", !.socket = s,
                                 !.pod = routes[tasks[t].client].pod]
<1>1. tasks[t] \in Task /\ Knows(tasks[t]) /\ TypedTables
  BY Parts
<1>2. routes[tasks[t].client].pod \in Pods
  BY <1>1 DEF Routable, Routed, TypedTables, Session, Knows
<1>3. r \in Task /\ Knows(r)
  BY <1>1, <1>2 DEF Task, Knows, Steps
<1>4. tasks' = [tasks EXCEPT ![t] = r]
  BY Parts DEF SendsWith
<1> QED BY <1>3, <1>4 DEF Becomes

\* A new socket is listed for its flow.
LEMMA OpenSocketType ==
  ASSUME TypeOK, AllKnow, NEW t \in Tasks, NEW s \in Sockets, OpenSocket(t, s)
  PROVE  TypedTables'
<1> DEFINE c == tasks[t].client
           f == tasks[t].flow
<1>1. tasks[t] \in Task /\ Knows(tasks[t]) /\ TypedTables /\ tasks[t].at = "forward"
  BY Parts DEF OpenSocket
<1>2. c \in Clients /\ f \in Flows /\ routes[c] \in Session
  BY <1>1 DEF Knows, OpenSocket, Routable, Routed, TypedTables
<1>3. [routes[c] EXCEPT !.udp[f] = s] \in Session
  BY <1>2 DEF Session
<1>4. routes' = [routes EXCEPT ![c] = [routes[c] EXCEPT !.udp[f] = s]] /\ cleanup' = cleanup
  BY <1>1, <1>2 DEF OpenSocket, TypedTables
<1>5. [flow |-> f, signalled |-> FALSE, receiving |-> TRUE] \in Socket
  BY <1>2 DEF Socket
<1>6. sockets' \in [Sockets -> Socket]
  BY <1>1, <1>5 DEF OpenSocket, TypedTables
<1> QED BY <1>1, <1>2, <1>3, <1>4, <1>6 DEF TypedTables

\* Touching changes only when the session was last active.
LEMMA TouchMoves ==
  ASSUME TypeOK, AllKnow, NEW t \in Tasks, Touch(t)
  PROVE  TypedTables' /\ Becomes(t, Idle)
<1> DEFINE c == tasks[t].client
<1>1. tasks[t] \in Task /\ Knows(tasks[t]) /\ TypedTables /\ tasks[t].at = "touch"
  BY Parts DEF Touch
<1>2. c \in Clients
  BY <1>1 DEF Knows
<1>3. Routed(c) => [routes[c] EXCEPT !.idle = FALSE] \in Session
  BY <1>1, <1>2 DEF TypedTables, Routed, Session
<1>4. routes' = IF Routed(c) THEN [routes EXCEPT ![c] = [routes[c] EXCEPT !.idle = FALSE]]
                             ELSE routes
  BY <1>1, <1>2 DEF Touch, TypedTables
<1>5. Becomes(t, Idle)
  BY TaskEnds DEF Touch, Ends, Becomes
<1> QED BY <1>1, <1>2, <1>3, <1>4, <1>5 DEF Touch, TypedTables, Socket

\* Time, cleanup and the receive tasks.
LEMMA BackgroundType ==
  ASSUME TypeOK, AllKnow, Background
  PROVE  TypedTables' /\ UNCHANGED tasks
<1>1. TypedTables
  BY Parts
<1>2. ASSUME NEW c \in Clients, TimeoutPasses(c) PROVE TypedTables' /\ UNCHANGED tasks
  <2>1. [routes[c] EXCEPT !.idle = TRUE] \in Session
    BY <1>1, <1>2 DEF TimeoutPasses, TypedTables, Routed, Session
  <2>2. routes' = [routes EXCEPT ![c] = [routes[c] EXCEPT !.idle = TRUE]]
    BY <1>1, <1>2 DEF TimeoutPasses, TypedTables
  <2> QED BY <1>1, <1>2, <2>1, <2>2 DEF TimeoutPasses, TypedTables, Socket
<1>3. ASSUME NEW c \in Clients, Inspect(c) PROVE TypedTables' /\ UNCHANGED tasks
  BY <1>1, <1>3 DEF Inspect, TypedTables, Session, Socket
<1>4. ASSUME NEW c \in Clients, Remove(c) PROVE TypedTables' /\ UNCHANGED tasks
  <2>1. \A s \in Sockets : [sockets[s] EXCEPT !.signalled = TRUE] \in Socket
    BY <1>1 DEF TypedTables, Socket
  <2>2. sockets' \in [Sockets -> Socket]
    BY <1>1, <1>4, <2>1 DEF Remove, Shutdown, TypedTables
  <2>3. cleanup' \in [unseen : SUBSET Clients, doomed : SUBSET Clients]
    BY <1>1, <1>4 DEF Remove, RemoveStep, TypedTables
  <2>4. routes' \in [Clients -> Session \cup {NoRoute}]
    BY <1>1, <1>4 DEF Remove, RemoveStep, TypedTables
  <2> QED BY <1>4, <2>2, <2>3, <2>4 DEF Remove, RemoveStep, TypedTables
<1>5. CASE CleanupTick
  BY <1>1, <1>5 DEF CleanupTick, TypedTables, Session, Socket
<1>6. ASSUME NEW s \in Sockets, ReceiverStops(s) \/ ReceiverFails(s)
      PROVE  TypedTables' /\ UNCHANGED tasks
  <2>1. [sockets[s] EXCEPT !.receiving = FALSE] \in Socket
    BY <1>1 DEF TypedTables, Socket
  <2>2. sockets' = [sockets EXCEPT ![s] = [sockets[s] EXCEPT !.receiving = FALSE]]
    BY <1>1, <1>6 DEF ReceiverStops, ReceiverFails, TypedTables
  <2> QED BY <1>1, <1>6, <2>1, <2>2 DEF ReceiverStops, ReceiverFails, TypedTables, Session
<1> QED BY <1>2, <1>3, <1>4, <1>5, <1>6 DEF Background

-----------------------------------------------------------------------------
(* Sockets *)

\* A step after which the table lists no socket it did not list, those it still
\* lists being what they were, and no task has just got one.
Quiet ==
  /\ \A c \in Clients, f \in Flows :
       Routed(c)' /\ routes'[c].udp[f] # NoSocket =>
         LET s == routes[c].udp[f]
         IN /\ Routed(c) /\ routes'[c].udp[f] = s /\ routes'[c].pod = routes[c].pod
            /\ sockets'[s].flow = sockets[s].flow
            /\ sockets'[s].signalled = sockets[s].signalled
  /\ \A t \in Tasks : tasks'[t].at = "send" => tasks'[t] = tasks[t]

\* Both properties outlive such a step.
LEMMA QuietKeeps ==
  ASSUME ListedSocketsWork, OneServerPerSocket, Quiet
  PROVE  ListedSocketsWork' /\ OneServerPerSocket'
<1>1. ListedSocketsWork'
  BY DEF ListedSocketsWork, Quiet, Routed
<1>2. OneServerPerSocket'
  <2> SUFFICES ASSUME NEW t \in Tasks, NEW c \in Clients,
                      tasks'[t].at = "send", tasks'[t].socket \in Listed(c)'
               PROVE  tasks'[t].pod = routes'[c].pod
    BY DEF OneServerPerSocket
  <2>1. PICK f \in Flows : Routed(c)' /\ routes'[c].udp[f] = tasks'[t].socket
                           /\ tasks'[t].socket # NoSocket
    BY DEF Listed, Routed
  <2>2. Routed(c) /\ routes[c].udp[f] = tasks'[t].socket /\ routes'[c].pod = routes[c].pod
    BY <2>1 DEF Quiet
  <2>3. tasks[t] = tasks'[t]
    BY DEF Quiet
  <2>4. tasks[t].socket \in Listed(c)
    BY <2>1, <2>2, <2>3 DEF Listed
  <2> QED BY <2>2, <2>3, <2>4 DEF OneServerPerSocket
<1> QED BY <1>1, <1>2

\* No socket is listed for two clients.
LEMMA ListedOnce ==
  ASSUME ListedSocketsWork, NEW c \in Clients, NEW d \in Clients, NEW s,
         s \in Listed(c), s \in Listed(d)
  PROVE  c = d
BY DEF Listed, ListedSocketsWork

\* A task that moves on without a new socket is not sending with one.
LEMMA OthersStay ==
  ASSUME tasks \in [Tasks -> Task], NEW t \in Tasks, NEW r, Becomes(t, r), r.at # "send"
  PROVE  \A u \in Tasks : tasks'[u].at = "send" => tasks'[u] = tasks[u]
BY DEF Becomes

\* What Shutdown leaves alone: the sockets that are listed for another client.
LEMMA ShutdownSpares ==
  ASSUME ListedSocketsWork, TypedTables, NEW c \in Clients, Shutdown(c),
         NEW d \in Clients, d # c, NEW s \in Listed(d)
  PROVE  sockets'[s] = sockets[s]
<1>1. s \notin Listed(c)
  BY ListedOnce
<1>2. s \in Sockets
  BY DEF Listed, TypedTables, Routed, Session
<1> QED BY <1>1, <1>2 DEF Shutdown

\* Both ways a session loses its sockets: emptied by upsert_multi_port, removed by
\* cleanup.
LEMMA ShutdownQuiet ==
  ASSUME ListedSocketsWork, TypedTables, NEW c \in Clients, Shutdown(c),
         \A d \in Clients : d # c => routes'[d] = routes[d],
         Routed(c)' => \A f \in Flows : routes'[c].udp[f] = NoSocket,
         \A t \in Tasks : tasks'[t].at = "send" => tasks'[t] = tasks[t]
  PROVE  Quiet
<1> SUFFICES ASSUME NEW d \in Clients, NEW f \in Flows,
                    Routed(d)', routes'[d].udp[f] # NoSocket
             PROVE  LET s == routes[d].udp[f]
                    IN /\ Routed(d) /\ routes'[d].udp[f] = s /\ routes'[d].pod = routes[d].pod
                       /\ sockets'[s].flow = sockets[s].flow
                       /\ sockets'[s].signalled = sockets[s].signalled
  BY DEF Quiet
<1>1. d # c /\ routes'[d] = routes[d] /\ Routed(d)
  BY DEF Routed
<1>2. routes[d].udp[f] \in Listed(d)
  BY <1>1 DEF Listed
<1>3. sockets'[routes[d].udp[f]] = sockets[routes[d].udp[f]]
  BY <1>1, <1>2, ShutdownSpares
<1> QED BY <1>1, <1>3

\* A fresh session lists no socket.
LEMMA InsertQuiet ==
  ASSUME TypeOK, AllKnow, NEW t \in Tasks, Insert(t)
  PROVE  Quiet
<1>1. TypedTables /\ tasks \in [Tasks -> Task] /\ tasks[t].client \in Clients
  BY Parts DEF Insert, Knows
<1>2. \A f \in Flows : Fresh(t).udp[f] = NoSocket
  BY DEF Fresh, NoUdp
<1>3. \A u \in Tasks : tasks'[u].at = "send" => tasks'[u] = tasks[u]
  BY <1>1, InsertMoves, OthersStay
<1>4. /\ routes' = [routes EXCEPT ![tasks[t].client] = Fresh(t)] /\ sockets' = sockets
      /\ routes \in [Clients -> Session \cup {NoRoute}]
  BY <1>1 DEF Insert, TypedTables
<1> QED BY <1>1, <1>2, <1>3, <1>4 DEF Quiet, Routed

\* A touched session lists the sockets it listed.
LEMMA TouchQuiet ==
  ASSUME TypeOK, AllKnow, NEW t \in Tasks, Touch(t)
  PROVE  Quiet
<1> DEFINE c == tasks[t].client
<1>1. TypedTables /\ tasks \in [Tasks -> Task] /\ c \in Clients
  BY Parts DEF Touch, Knows
<1>2. \A u \in Tasks : tasks'[u].at = "send" => tasks'[u] = tasks[u]
  <2>1. Becomes(t, Idle) /\ Idle.at # "send"
    BY TouchMoves DEF Idle
  <2> QED BY <1>1, <2>1, OthersStay
<1>3. \A d \in Clients : /\ Routed(d)' <=> Routed(d)
                         /\ Routed(d) => /\ routes'[d].udp = routes[d].udp
                                         /\ routes'[d].pod = routes[d].pod
  <2>1. CASE Routed(c)
    <3>1. routes[c] \in Session /\ routes \in [Clients -> Session \cup {NoRoute}]
      BY <1>1, <2>1 DEF TypedTables, Routed
    <3>2. [routes[c] EXCEPT !.idle = FALSE] \in Session
      BY <3>1 DEF Session
    <3>3. routes' = [routes EXCEPT ![c] = [routes[c] EXCEPT !.idle = FALSE]]
      BY <2>1, <3>1 DEF Touch
    <3>4. /\ [routes[c] EXCEPT !.idle = FALSE].udp = routes[c].udp
          /\ [routes[c] EXCEPT !.idle = FALSE].pod = routes[c].pod
      BY <3>1 DEF Session
    <3> QED BY <1>1, <3>1, <3>2, <3>3, <3>4, <2>1, SessionsAssumption DEF Routed
  <2>2. CASE ~Routed(c)
    BY <2>2 DEF Touch, Routed
  <2> QED BY <2>1, <2>2
<1>4. sockets' = sockets
  BY DEF Touch
<1> QED BY <1>2, <1>3, <1>4 DEF Quiet

\* The first lock of upsert_multi_port.
LEMMA ShutdownOldQuiet ==
  ASSUME TypeOK, AllKnow, ListedSocketsWork, NEW t \in Tasks, ShutdownOld(t)
  PROVE  Quiet
<1> DEFINE c == tasks[t].client
<1>1. TypedTables /\ tasks \in [Tasks -> Task] /\ c \in Clients
  BY Parts DEF ShutdownOld, Knows
<1>2. \A u \in Tasks : tasks'[u].at = "send" => tasks'[u] = tasks[u]
  BY <1>1, ShutdownOldMoves, OthersStay
<1>3. routes \in [Clients -> Session \cup {NoRoute}]
  BY <1>1 DEF TypedTables
<1>4. \A d \in Clients : d # c => routes'[d] = routes[d]
  BY <1>1, <1>3 DEF ShutdownOld
<1>5. routes'[c] # NoRoute => \A f \in Flows : routes'[c].udp[f] = NoSocket
  <2>1. CASE Routed(c)
    <3>1. routes' = [routes EXCEPT ![c] = [routes[c] EXCEPT !.udp = NoUdp]]
      BY <2>1, <1>1, <1>3 DEF ShutdownOld
    <3>2. [routes[c] EXCEPT !.udp = NoUdp].udp = NoUdp
      BY <2>1, <1>1, <1>3 DEF Routed, Session
    <3> QED BY <1>1, <1>3, <3>1, <3>2 DEF NoUdp
  <2>2. CASE ~Routed(c)
    BY <2>2 DEF ShutdownOld, Routed
  <2> QED BY <2>1, <2>2
<1>6. Shutdown(c)
  BY DEF ShutdownOld
<1> HIDE DEF c
<1> QED BY <1>1, <1>2, <1>4, <1>5, <1>6, ShutdownQuiet DEF Routed

\* Time, cleanup and the receive tasks hand out no socket.
LEMMA BackgroundQuiet ==
  ASSUME TypeOK, AllKnow, ListedSocketsWork, Background
  PROVE  Quiet
<1>1. TypedTables /\ tasks' = tasks
  BY Parts, BackgroundType
<1>2. /\ routes \in [Clients -> Session \cup {NoRoute}]
      /\ sockets \in [Sockets -> Socket]
  BY <1>1 DEF TypedTables
<1>3. ASSUME NEW c \in Clients, TimeoutPasses(c) PROVE Quiet
  <2>1. routes[c] \in Session /\ sockets' = sockets
    BY <1>2, <1>3 DEF TimeoutPasses, Routed
  <2>2. routes' = [routes EXCEPT ![c] = [routes[c] EXCEPT !.idle = TRUE]]
    BY <1>2, <1>3 DEF TimeoutPasses
  <2>3. /\ [routes[c] EXCEPT !.idle = TRUE].udp = routes[c].udp
        /\ [routes[c] EXCEPT !.idle = TRUE].pod = routes[c].pod
    BY <2>1 DEF Session
  <2>4. \A d \in Clients : Routed(d)' => /\ Routed(d)
                                         /\ routes'[d].udp = routes[d].udp
                                         /\ routes'[d].pod = routes[d].pod
    BY <1>2, <1>3, <2>2, <2>3 DEF TimeoutPasses, Routed
  <2> QED BY <1>1, <2>1, <2>4 DEF Quiet
<1>4. ASSUME UNCHANGED <<routes, sockets>> PROVE Quiet
  BY <1>1, <1>4 DEF Quiet, Routed
<1>5. ASSUME NEW c \in Clients, Remove(c) PROVE Quiet
  <2>1. /\ \A d \in Clients : d # c => routes'[d] = routes[d]
        /\ ~Routed(c)' /\ Shutdown(c)
    BY <1>2, <1>5 DEF Remove, RemoveStep, Routed
  <2> QED BY <1>1, <2>1, ShutdownQuiet
<1>6. ASSUME NEW s \in Sockets, ReceiverStops(s) \/ ReceiverFails(s) PROVE Quiet
  <2>1. routes' = routes /\ sockets' = [sockets EXCEPT ![s] = [sockets[s] EXCEPT !.receiving = FALSE]]
    BY <1>2, <1>6 DEF ReceiverStops, ReceiverFails
  <2>2. \A u \in Sockets : /\ sockets'[u].flow = sockets[u].flow
                           /\ sockets'[u].signalled = sockets[u].signalled
    BY <1>2, <2>1 DEF Socket
  <2>3. \A d \in Clients, f \in Flows :
          Routed(d) /\ routes[d].udp[f] # NoSocket => routes[d].udp[f] \in Sockets
    BY <1>2 DEF Routed, Session
  <2> QED BY <1>1, <2>1, <2>2, <2>3 DEF Quiet, Routed
<1> QED BY <1>3, <1>4, <1>5, <1>6 DEF Background, Inspect, CleanupTick

\* So do the steps of a task that touch neither table nor sockets.
LEMMA TaskOnlyQuiet ==
  ASSUME TypeOK, AllKnow, NEW t \in Tasks, TaskOnly(t)
  PROVE  Quiet
<1>1. tasks \in [Tasks -> Task] /\ UNCHANGED <<routes, sockets>>
  BY Parts, TaskOnlyMoves
<1>2. \A u \in Tasks : tasks'[u].at = "send" => tasks'[u] = tasks[u]
  BY <1>1, TaskOnlyMoves, OthersStay
<1> QED BY <1>1, <1>2 DEF Quiet, Routed

\* A packet takes the socket its flow has: only the route of the flow's client
\* lists that socket, and the packet goes to the backend of that route.
LEMMA UseSocketKeeps ==
  ASSUME IInv, NEW t \in Tasks, UseSocket(t)
  PROVE  TypedTables' /\ (\E r : Becomes(t, r)) /\ ListedSocketsWork' /\ OneServerPerSocket'
<1> DEFINE c == tasks[t].client
           s == routes[c].udp[tasks[t].flow]
           r == [tasks[t] EXCEPT !.at = "send", !.socket = s, !.pod = routes[c].pod]
<1>1. /\ TypeOK /\ AllKnow /\ ListedSocketsWork /\ OneServerPerSocket
      /\ TypedTables /\ tasks \in [Tasks -> Task] /\ Knows(tasks[t])
  BY Parts DEF IInv
<1>2. c \in Clients /\ tasks[t].flow \in Flows /\ Routed(c)
  BY <1>1 DEF UseSocket, Knows, Routable
<1>3. s \in Sockets /\ s \in Listed(c)
  BY <1>1, <1>2 DEF UseSocket, TypedTables, Routed, Session, Listed
<1>4. UNCHANGED <<routes, sockets, cleanup>>
  BY DEF UseSocket
<1>5. Becomes(t, r)
  BY <1>1, <1>3, SendMoves DEF UseSocket
<1>6. ListedSocketsWork'
  BY <1>1, <1>4 DEF ListedSocketsWork, Routed
<1>7. OneServerPerSocket'
  <2> SUFFICES ASSUME NEW u \in Tasks, NEW d \in Clients,
                      tasks'[u].at = "send", tasks'[u].socket \in Listed(d)'
               PROVE  tasks'[u].pod = routes'[d].pod
    BY DEF OneServerPerSocket
  <2>1. tasks'[u].socket \in Listed(d) /\ routes' = routes
    BY <1>4 DEF Listed, Routed
  <2>2. CASE u = t
    <3>1. tasks'[u] = r
      BY <1>1, <1>5, <2>2 DEF Becomes
    <3>2. r.socket = s /\ r.pod = routes[c].pod
      BY <1>1 DEF Task
    <3> QED BY <1>1, <1>2, <1>3, <2>1, <3>1, <3>2, ListedOnce
  <2>3. CASE u # t
    <3>1. tasks'[u] = tasks[u]
      BY <1>5, <1>1, <2>3 DEF Becomes
    <3> QED BY <1>1, <2>1, <3>1 DEF OneServerPerSocket
  <2> QED BY <2>2, <2>3
<1>8. TypedTables'
  BY <1>1, <1>4 DEF TypedTables, Session, Socket
<1> QED BY <1>5, <1>6, <1>7, <1>8

\* A closed socket is opened for the flow: no route lists it and no other task
\* holds it.
LEMMA OpenSocketKeeps ==
  ASSUME IInv, NEW t \in Tasks, NEW s \in Sockets, OpenSocket(t, s)
  PROVE  TypedTables' /\ (\E r : Becomes(t, r)) /\ ListedSocketsWork' /\ OneServerPerSocket'
<1> DEFINE c == tasks[t].client
           f == tasks[t].flow
           r == [tasks[t] EXCEPT !.at = "send", !.socket = s, !.pod = routes[c].pod]
           m == [routes[c] EXCEPT !.udp[f] = s]
<1>1. /\ TypeOK /\ AllKnow /\ ListedSocketsWork /\ OneServerPerSocket
      /\ TypedTables /\ tasks \in [Tasks -> Task] /\ Knows(tasks[t])
  BY Parts DEF IInv
<1>2. c \in Clients /\ f \in Flows /\ Routed(c) /\ c = ClientOf[f]
  BY <1>1 DEF OpenSocket, Knows, Routable
<1>3. /\ routes \in [Clients -> Session \cup {NoRoute}] /\ routes[c] \in Session
      /\ sockets \in [Sockets -> Socket]
  BY <1>1, <1>2 DEF TypedTables, Routed
<1>4. /\ \A d \in Clients : s \notin Listed(d)
      /\ \A u \in Tasks : tasks[u].socket # s
  BY DEF OpenSocket, Closed
<1>5. Becomes(t, r)
  BY <1>1, SendMoves DEF OpenSocket
<1>6. routes' = [routes EXCEPT ![c] = m]
  BY <1>3, <1>2 DEF OpenSocket
<1>7. /\ m.pod = routes[c].pod /\ m \in Session
      /\ \A g \in Flows : m.udp[g] = IF g = f THEN s ELSE routes[c].udp[g]
  BY <1>3, <1>2 DEF Session
<1>8. \A d \in Clients, g \in Flows : Routed(d)' =>
        /\ Routed(d)
        /\ routes'[d].pod = routes[d].pod
        /\ routes'[d].udp[g] = IF d = c /\ g = f THEN s ELSE routes[d].udp[g]
  BY <1>2, <1>3, <1>6, <1>7 DEF Routed
<1>9. /\ sockets'[s] = [flow |-> f, signalled |-> FALSE, receiving |-> TRUE]
      /\ \A x \in Sockets \ {s} : sockets'[x] = sockets[x]
  BY <1>3 DEF OpenSocket
<1>10. ListedSocketsWork'
  <2> SUFFICES ASSUME NEW d \in Clients, NEW g \in Flows,
                      Routed(d)', routes'[d].udp[g] # NoSocket
               PROVE  /\ ClientOf[g] = d
                      /\ sockets'[routes'[d].udp[g]].flow = g
                      /\ ~sockets'[routes'[d].udp[g]].signalled
    BY DEF ListedSocketsWork
  <2>1. CASE d = c /\ g = f
    BY <1>2, <1>8, <1>9, <2>1
  <2>2. CASE ~(d = c /\ g = f)
    <3>1. Routed(d) /\ routes'[d].udp[g] = routes[d].udp[g]
      BY <1>8, <2>2
    <3>2. routes[d].udp[g] \in Sockets \ {s}
      BY <1>3, <1>4, <3>1 DEF Routed, Session, Listed
    <3>3. sockets'[routes[d].udp[g]] = sockets[routes[d].udp[g]]
      BY <1>9, <3>2
    <3> QED BY <1>1, <3>1, <3>3 DEF ListedSocketsWork
  <2> QED BY <2>1, <2>2
<1>11. OneServerPerSocket'
  <2> SUFFICES ASSUME NEW u \in Tasks, NEW d \in Clients,
                      tasks'[u].at = "send", tasks'[u].socket \in Listed(d)'
               PROVE  tasks'[u].pod = routes'[d].pod
    BY DEF OneServerPerSocket
  <2>1. PICK g \in Flows : /\ Routed(d)' /\ routes'[d].udp[g] = tasks'[u].socket
                           /\ tasks'[u].socket # NoSocket
    BY DEF Listed, Routed
  <2>2. CASE u = t
    <3>1. tasks'[u] = r /\ r.socket = s /\ r.pod = routes[c].pod
      BY <1>1, <1>5, <2>2 DEF Becomes, Task
    <3>2. d = c
      <4>1. ASSUME d # c PROVE FALSE
        <5>1. Routed(d) /\ routes[d].udp[g] = s
          BY <1>8, <2>1, <3>1, <4>1
        <5>2. s # NoSocket
          BY <2>1, <3>1
        <5> QED BY <1>4, <5>1, <5>2 DEF Listed
      <4> QED BY <4>1
    <3> QED BY <1>8, <2>1, <3>1, <3>2
  <2>3. CASE u # t
    <3>1. tasks'[u] = tasks[u]
      BY <1>1, <1>5, <2>3 DEF Becomes
    <3>2. tasks[u].socket # s
      BY <1>4
    <3>3. Routed(d) /\ routes[d].udp[g] = tasks[u].socket /\ routes'[d].pod = routes[d].pod
      BY <1>8, <2>1, <3>1, <3>2
    <3>4. tasks[u].socket \in Listed(d)
      BY <2>1, <3>1, <3>3 DEF Listed
    <3> QED BY <1>1, <3>1, <3>3, <3>4 DEF OneServerPerSocket
  <2> QED BY <2>2, <2>3
<1>12. TypedTables'
  BY <1>1, OpenSocketType
<1> QED BY <1>5, <1>10, <1>11, <1>12

-----------------------------------------------------------------------------
(* The invariant, and what follows *)

\* Every step keeps the invariant.
LEMMA NextIInv == IInv /\ [Next]_vars => IInv'
<1> SUFFICES ASSUME IInv, [Next]_vars PROVE IInv'
  OBVIOUS
<1>1. TypeOK /\ AllKnow /\ ListedSocketsWork /\ OneServerPerSocket /\ TypedTables
  BY Parts DEF IInv
<1>2. ASSUME NEW t \in Tasks, NEW r, Becomes(t, r), TypedTables', Quiet PROVE IInv'
  BY <1>1, <1>2, OneTaskMoves, QuietKeeps DEF IInv
<1>3. ASSUME NEW t \in Tasks, TaskOnly(t) PROVE IInv'
  <2>1. TypedTables'
    BY <1>1, <1>3, TaskOnlyMoves DEF TypedTables, Session, Socket
  <2> QED BY <1>1, <1>2, <1>3, <2>1, TaskOnlyMoves, TaskOnlyQuiet
<1>4. ASSUME NEW t \in Tasks, ShutdownOld(t) PROVE IInv'
  BY <1>1, <1>2, <1>4, ShutdownOldMoves, ShutdownOldQuiet
<1>5. ASSUME NEW t \in Tasks, Insert(t) PROVE IInv'
  BY <1>1, <1>2, <1>5, InsertMoves, InsertQuiet
<1>6. ASSUME NEW t \in Tasks, UseSocket(t) PROVE IInv'
  BY <1>1, <1>6, UseSocketKeeps, OneTaskMoves DEF IInv
<1>7. ASSUME NEW t \in Tasks, NEW s \in Sockets, OpenSocket(t, s) PROVE IInv'
  BY <1>1, <1>7, OpenSocketKeeps, OneTaskMoves DEF IInv
<1>8. ASSUME NEW t \in Tasks, Touch(t) PROVE IInv'
  BY <1>1, <1>2, <1>8, TouchMoves, TouchQuiet
<1>9. CASE Background
  <2>1. TypedTables' /\ UNCHANGED tasks
    BY <1>1, <1>9, BackgroundType
  <2>2. TypeOK' /\ AllKnow'
    BY <1>1, <2>1 DEF TypeOK, AllKnow, TypedTables, Knows, Task, Socket
  <2> QED BY <1>1, <1>9, <2>2, BackgroundQuiet, QuietKeeps DEF IInv
<1>10. CASE UNCHANGED vars
  <2>1. UNCHANGED <<routes, sockets, tasks, cleanup>>
    BY <1>10 DEF vars
  <2>2. TypeOK' /\ AllKnow'
    BY <1>1, <2>1 DEF TypeOK, AllKnow, TypedTables, Knows, Task, Socket, Session
  <2>3. Quiet
    BY <2>1 DEF Quiet, Routed
  <2> QED BY <1>1, <2>2, <2>3, QuietKeeps DEF IInv
<1> QED BY <1>3, <1>4, <1>5, <1>6, <1>7, <1>8, <1>9, <1>10
    DEF Next, Progress, TaskOnly

\* The invariant holds of every behaviour.
LEMMA Inductive == Spec => []IInv
BY InitIInv, NextIInv, PTL DEF Spec

\* The table of forwarding routes, the upstream sockets and the tasks of the data
\* plane keep their types, for any number of each; a task that sends always has
\* a socket, as proxy_packet_bidirectional returns before that without one.
THEOREM TypeCorrect == Spec => []TypeOK
<1>1. IInv => TypeOK
  BY DEF IInv
<1> QED BY <1>1, Inductive, PTL

\* Whatever upsert_multi_port, cleanup_inactive and the packet handlers do between
\* each other's steps, a socket that a session lists is that flow's own and has
\* not been shut down.
THEOREM ListedSocketsAlwaysWork == Spec => []ListedSocketsWork
<1>1. IInv => ListedSocketsWork
  BY DEF IInv
<1> QED BY <1>1, Inductive, PTL

\* A packet that proxy_packet_bidirectional is about to send through a socket the
\* session still lists goes to the backend the session names.
THEOREM OneServerAlways == Spec => []OneServerPerSocket
<1>1. IInv => OneServerPerSocket
  BY DEF IInv
<1> QED BY <1>1, Inductive, PTL

-----------------------------------------------------------------------------
(* Receive tasks that nobody will stop.  ReceiversListed is not inductive:  *)
(* Insert forgets the sockets of what it replaces.  Without Overlap there   *)
(* are none, since nobody has opened one after ShutdownOld.                 *)

\* The table lists what it listed, no receive task starts or is forgotten, and no task
\* gets to its insert.
Still ==
  /\ \A c \in Clients : Listed(c)' = Listed(c)
  /\ \A s \in Sockets : sockets'[s].receiving /\ ~sockets'[s].signalled =>
                          sockets[s].receiving /\ ~sockets[s].signalled
  /\ \A t \in Tasks : tasks'[t].at = "insert" =>
       tasks[t].at = "insert" /\ tasks'[t].client = tasks[t].client

LEMMA StillKeeps ==
  ASSUME ReceiversListed, InsertsEmpty, Still
  PROVE  ReceiversListed' /\ InsertsEmpty'
<1>1. ReceiversListed'
  BY DEF ReceiversListed, Still
<1>2. InsertsEmpty'
  BY DEF InsertsEmpty, Still
<1> QED BY <1>1, <1>2

\* When a session was last active says nothing of its sockets.
LEMMA IdleLists ==
  ASSUME TypedTables, NEW c \in Clients, NEW value \in BOOLEAN,
         routes' = IF Routed(c) THEN [routes EXCEPT ![c].idle = value] ELSE routes
  PROVE  \A d \in Clients : Listed(d)' = Listed(d)
<1>1. CASE Routed(c)
  <2>1. routes[c] \in Session /\ routes \in [Clients -> Session \cup {NoRoute}]
    BY <1>1 DEF TypedTables, Routed
  <2>2. routes' = [routes EXCEPT ![c] = [routes[c] EXCEPT !.idle = value]]
    BY <1>1, <2>1
  <2>3. /\ [routes[c] EXCEPT !.idle = value] \in Session
        /\ [routes[c] EXCEPT !.idle = value].udp = routes[c].udp
    BY <2>1 DEF Session
  <2>4. \A d \in Clients : /\ Routed(d)' <=> Routed(d)
                           /\ Routed(d) => routes'[d].udp = routes[d].udp
    BY <1>1, <2>1, <2>2, <2>3, SessionsAssumption DEF Routed
  <2> QED BY <2>4 DEF Listed
<1>2. CASE ~Routed(c)
  BY <1>2 DEF Listed, Routed
<1> QED BY <1>1, <1>2

\* A client whose sockets are shut down and no longer listed leaves none behind.
LEMMA ShutdownForgetsNone ==
  ASSUME TypedTables, ReceiversListed, NEW c \in Clients, Shutdown(c), Listed(c)' = {},
         \A d \in Clients : d # c => Listed(d)' = Listed(d)
  PROVE  ReceiversListed'
<1> SUFFICES ASSUME NEW s \in Sockets, sockets'[s].receiving, ~sockets'[s].signalled
             PROVE  \E d \in Clients : s \in Listed(d)'
  BY DEF ReceiversListed
<1>1. s \notin Listed(c) /\ sockets'[s] = sockets[s]
  BY DEF Shutdown, TypedTables, Socket
<1>2. PICK d \in Clients : s \in Listed(d)
  BY <1>1 DEF ReceiversListed
<1> QED BY <1>1, <1>2

\* The steps of a task that touch neither table nor sockets.
LEMMA TaskOnlyStill ==
  ASSUME TypeOK, AllKnow, NEW t \in Tasks, TaskOnly(t) \/ UseSocket(t)
  PROVE  Still
<1>1. tasks \in [Tasks -> Task] /\ tasks[t] \in Task
  BY Parts
<1>2. UNCHANGED <<routes, sockets>>
  BY TaskOnlyMoves DEF UseSocket
<1>3. \A c \in Clients : Listed(c)' = Listed(c)
  BY <1>2 DEF Listed, Routed
<1>4. tasks'[t].at # "insert" /\ \A u \in Tasks \ {t} : tasks'[u] = tasks[u]
  <2>1. CASE Ends(t)
    BY <1>1, <2>1 DEF Ends, Idle
  <2>2. ASSUME NEW step \in {"touch", "relay"}, GoesOn(t, step)
        PROVE  tasks'[t].at # "insert" /\ \A u \in Tasks \ {t} : tasks'[u] = tasks[u]
    BY <1>1, <2>2 DEF GoesOn, Idle
  <2>3. CASE Arrival(t)
    BY <1>1, <2>3 DEF Arrival, QueryAssigned, Arrives, Idle, Established
  <2>4. CASE \E p \in Pods : Resolved(t, p)
    BY <1>1, <2>4 DEF Resolved, Task
  <2>5. CASE UseSocket(t)
    BY <1>1, <2>5 DEF UseSocket, SendsWith, Task
  <2> QED BY <2>1, <2>2, <2>3, <2>4, <2>5
        DEF TaskOnly, ResolveFails, ForwardFails, SocketsExhausted, Send, SendFails,
            Connect, ConnectFails, RelayEnds
<1>5. \A u \in Tasks : tasks'[u].at = "insert" => tasks'[u] = tasks[u]
  BY <1>4
<1> QED BY <1>2, <1>3, <1>5 DEF Still

\* The first lock of upsert_multi_port.
LEMMA ShutdownOldLists ==
  ASSUME TypeOK, AllKnow, ReceiversListed, InsertsEmpty, NEW t \in Tasks, ShutdownOld(t)
  PROVE  ReceiversListed' /\ InsertsEmpty'
<1>1. TypedTables /\ tasks \in [Tasks -> Task] /\ tasks[t] \in Task
  BY Parts
<1>2. PICK c \in Clients : c = tasks[t].client
  BY DEF ShutdownOld, AllKnow, Knows
<1>3. routes \in [Clients -> Session \cup {NoRoute}]
  BY <1>1 DEF TypedTables
<1>4. \A d \in Clients : d # c => Listed(d)' = Listed(d)
  BY <1>2, <1>3 DEF ShutdownOld, Listed, Routed
<1>5. Listed(c)' = {}
  <2>1. CASE Routed(c)
    <3>1. routes' = [routes EXCEPT ![c] = [routes[c] EXCEPT !.udp = NoUdp]]
      BY <1>2, <1>3, <2>1 DEF ShutdownOld
    <3>2. [routes[c] EXCEPT !.udp = NoUdp].udp = NoUdp
      BY <1>3, <2>1 DEF Routed, Session
    <3>3. \A f \in Flows : routes'[c].udp[f] = NoSocket
      BY <1>3, <3>1, <3>2 DEF NoUdp
    <3> QED BY <3>3 DEF Listed, Routed
  <2>2. CASE ~Routed(c)
    BY <1>2, <2>2 DEF ShutdownOld, Routed, Listed
  <2> QED BY <2>1, <2>2
<1>6. ReceiversListed'
  BY <1>1, <1>2, <1>4, <1>5, ShutdownForgetsNone DEF ShutdownOld
<1>7. \A u \in Tasks : /\ tasks'[u].client = tasks[u].client
                       /\ u # t => tasks'[u].at = tasks[u].at
  BY <1>1 DEF ShutdownOld, Task
<1>8. InsertsEmpty'
  BY <1>2, <1>4, <1>5, <1>7 DEF InsertsEmpty
<1> QED BY <1>6, <1>8

\* The second lock puts a session without sockets where one without sockets was.
LEMMA InsertStill ==
  ASSUME TypeOK, AllKnow, InsertsEmpty, NEW t \in Tasks, Insert(t)
  PROVE  Still
<1>1. TypedTables /\ tasks \in [Tasks -> Task] /\ tasks[t] \in Task
  BY Parts
<1>2. PICK c \in Clients : c = tasks[t].client
  BY DEF Insert, AllKnow, Knows
<1>3. Listed(c) = {}
  BY <1>2 DEF Insert, InsertsEmpty
<1>4. /\ routes' = [routes EXCEPT ![c] = Fresh(t)] /\ sockets' = sockets
      /\ routes \in [Clients -> Session \cup {NoRoute}]
  BY <1>1, <1>2 DEF Insert, TypedTables
<1>5. \A f \in Flows : Fresh(t).udp[f] = NoSocket
  BY DEF Fresh, NoUdp
<1>6. Listed(c)' = {}
  BY <1>4, <1>5 DEF Listed
<1>7. \A d \in Clients : Listed(d)' = Listed(d)
  <2>1. \A d \in Clients : d # c => Listed(d)' = Listed(d)
    BY <1>4 DEF Listed, Routed
  <2> QED BY <1>3, <1>6, <2>1
<1>8. tasks'[t].at # "insert" /\ \A u \in Tasks \ {t} : tasks'[u] = tasks[u]
  <2>1. CASE Ends(t)
    BY <1>1, <2>1 DEF Ends, Idle
  <2>2. CASE tasks' = [tasks EXCEPT ![t].at = Established(tasks[t].flow), ![t].pod = NoPod]
    BY <1>1, <2>2 DEF Established, Task
  <2> QED BY <2>1, <2>2 DEF Insert, AfterInsert
<1> QED BY <1>4, <1>7, <1>8 DEF Still

\* A new socket is listed, and nobody is about to replace the session it is in.
LEMMA OpenSocketLists ==
  ASSUME TypeOK, AllKnow, ReceiversListed, InsertsEmpty, ~Overlap,
         NEW t \in Tasks, NEW s \in Sockets, OpenSocket(t, s)
  PROVE  ReceiversListed' /\ InsertsEmpty'
<1>1. TypedTables /\ tasks \in [Tasks -> Task] /\ tasks[t] \in Task
  BY Parts
<1>2. PICK c \in Clients, f \in Flows : c = tasks[t].client /\ f = tasks[t].flow
  BY DEF OpenSocket, AllKnow, Knows
<1>3. /\ routes \in [Clients -> Session \cup {NoRoute}] /\ routes[c] \in Session
      /\ routes[c].udp[f] = NoSocket /\ tasks[t].at = "forward"
      /\ sockets \in [Sockets -> Socket]
  BY <1>1, <1>2 DEF TypedTables, OpenSocket, Routable, Routed
<1>4. routes' = [routes EXCEPT ![c] = [routes[c] EXCEPT !.udp[f] = s]]
  BY <1>2, <1>3 DEF OpenSocket
<1>5. \A d \in Clients : d # c => Listed(d)' = Listed(d)
  BY <1>3, <1>4 DEF Listed, Routed
<1>6. s \in Listed(c)' /\ Listed(c) \subseteq Listed(c)'
  <2>1. [routes[c] EXCEPT !.udp[f] = s] \in Session
    BY <1>3 DEF Session
  <2>2. /\ routes'[c] # NoRoute
        /\ \A g \in Flows : routes'[c].udp[g] = IF g = f THEN s ELSE routes[c].udp[g]
    BY <1>3, <1>4, <2>1, SessionsAssumption DEF Session
  <2> QED BY <1>3, <2>2, SessionsAssumption DEF Listed, Routed
<1>7. \A x \in Sockets \ {s} : sockets'[x] = sockets[x]
  BY <1>3 DEF OpenSocket
<1>8. ReceiversListed'
  BY <1>5, <1>6, <1>7 DEF ReceiversListed
<1>9. tasks'[t].at # "insert" /\ \A u \in Tasks \ {t} : tasks'[u] = tasks[u]
  BY <1>1 DEF OpenSocket, SendsWith, Task
<1>10. \A u \in Tasks : tasks[u].at = "insert" => tasks[u].client # c
  BY <1>2, <1>3 DEF Overlap
<1>11. InsertsEmpty'
  BY <1>5, <1>9, <1>10 DEF InsertsEmpty
<1> QED BY <1>8, <1>11

\* Time, cleanup and the receive tasks.
LEMMA BackgroundLists ==
  ASSUME TypeOK, AllKnow, ReceiversListed, InsertsEmpty, Background
  PROVE  ReceiversListed' /\ InsertsEmpty'
<1>1. TypedTables /\ tasks' = tasks
  BY Parts, BackgroundType
<1>2. /\ routes \in [Clients -> Session \cup {NoRoute}]
      /\ sockets \in [Sockets -> Socket]
  BY <1>1 DEF TypedTables
<1>3. ASSUME NEW c \in Clients, TimeoutPasses(c) PROVE Still
  <2>1. \A d \in Clients : Listed(d)' = Listed(d)
    BY <1>1, <1>3, IdleLists DEF TimeoutPasses
  <2> QED BY <1>1, <1>3, <2>1 DEF TimeoutPasses, Still
<1>4. ASSUME UNCHANGED <<routes, sockets>> PROVE Still
  BY <1>1, <1>4 DEF Still, Listed, Routed
<1>5. ASSUME NEW c \in Clients, Remove(c) PROVE ReceiversListed' /\ InsertsEmpty'
  <2>1. routes' = [routes EXCEPT ![c] = NoRoute] /\ Shutdown(c)
    BY <1>5 DEF Remove, RemoveStep
  <2>2. Listed(c)' = {} /\ \A d \in Clients : d # c => Listed(d)' = Listed(d)
    BY <1>2, <2>1 DEF Listed, Routed
  <2>3. ReceiversListed'
    BY <1>1, <2>1, <2>2, ShutdownForgetsNone
  <2> QED BY <1>1, <2>2, <2>3 DEF InsertsEmpty
<1>6. ASSUME NEW s \in Sockets, ReceiverStops(s) \/ ReceiverFails(s) PROVE Still
  <2>1. /\ routes' = routes
        /\ sockets' = [sockets EXCEPT ![s] = [sockets[s] EXCEPT !.receiving = FALSE]]
    BY <1>2, <1>6 DEF ReceiverStops, ReceiverFails
  <2>2. \A x \in Sockets : sockets'[x].receiving =>
          sockets'[x] = sockets[x]
    BY <1>2, <2>1 DEF Socket
  <2> QED BY <1>1, <2>1, <2>2 DEF Still, Listed, Routed
<1> QED BY <1>3, <1>4, <1>5, <1>6, StillKeeps DEF Background, Inspect, CleanupTick

LEMMA NextLists ==
  IInv /\ ReceiversListed /\ InsertsEmpty /\ ~Overlap /\ [Next]_vars
    => ReceiversListed' /\ InsertsEmpty'
<1> SUFFICES ASSUME IInv, ReceiversListed, InsertsEmpty, ~Overlap, [Next]_vars
             PROVE  ReceiversListed' /\ InsertsEmpty'
  OBVIOUS
<1>1. TypeOK /\ AllKnow /\ TypedTables
  BY Parts DEF IInv
<1>2. ASSUME NEW t \in Tasks, Touch(t) PROVE Still
  <2>1. PICK c \in Clients : c = tasks[t].client
    BY <1>1, <1>2 DEF Touch, AllKnow, Knows
  <2>2. \A d \in Clients : Listed(d)' = Listed(d)
    BY <1>1, <1>2, <2>1, IdleLists DEF Touch
  <2>3. \A u \in Tasks : tasks'[u].at = "insert" => tasks'[u] = tasks[u]
    BY <1>1, <1>2, Parts DEF Touch, Ends, Idle
  <2> QED BY <1>2, <2>2, <2>3 DEF Touch, Still
<1>3. CASE UNCHANGED vars
  BY <1>3, StillKeeps DEF vars, Still, Listed, Routed
<1> QED BY <1>1, <1>2, <1>3, StillKeeps, TaskOnlyStill, ShutdownOldLists, InsertStill,
           OpenSocketLists, BackgroundLists
        DEF Next, Progress, TaskOnly

\* For any number of clients, flows, sockets and tasks: whatever step is taken, if no
\* packet is about to be forwarded while a task is between the two locks of
\* upsert_multi_port for its client, the step loses no receive task.
THEOREM OrphansOnlyByOverlap == Spec => OrphansNeedOverlap
<1>1. IInv /\ [Next]_vars =>
        [ReceiversListed /\ InsertsEmpty /\ ~Overlap => ReceiversListed' /\ InsertsEmpty']_vars
  BY NextLists
<1> QED BY <1>1, Inductive, PTL DEF Spec, OrphansNeedOverlap

\* A run without that overlap never has a receive task that neither cleanup nor the
\* next route of its client would stop.
THEOREM NoOverlapNoOrphans == Spec => ([]~Overlap => []ReceiversListed)
<1>1. Init => ReceiversListed /\ InsertsEmpty
  BY DEF Init, ReceiversListed, InsertsEmpty, Idle
<1> QED BY <1>1, NextLists, Inductive, PTL DEF Spec
=============================================================================
