# A TLA+ model of udp-director

This directory holds a formal model of udp-director: TLA+ modules translated
from the Rust sources, TLC configurations that check them on small instances,
and proofs, checked by TLAPS, of the query server's guarantees, the reconnect
window, request framing, forwarding sessions, targets and session counts: every
invariant and every safety property that a passing run checks is also a theorem.
`PROJECT.json` lists runs, mutants, findings, hazards and theorems, and maps
every definition to the source lines it stands for.

    tlc -config access_races.cfg MCQueryServer     # model-check one run
    tlapm QueryServer_proofs.tla                   # check the proofs

## 1. The system

udp-director is one process (usually several replicas of it) between game
clients and game server Pods. A client asks it over TCP for a server for its
character; the director chooses a Pod from the labels Kubernetes stores, writes
the character's label on it and installs a route for the client's IP; then it
relays the client's datagrams and connections to that Pod.

| Component | State it keeps | Operations | Correct when |
| --- | --- | --- | --- |
| Query server (`query_server.rs`) | the assignment lock | `query`, `characterList`; list, select, cold wait, guarded patch, route | a server is never over-filled, a draining or unready Pod never assigned, a player never demoted or placed twice; every query is answered; hot queries are not held up |
| Capacity demand (`demand.rs`) | weak map group -> flight | `signal`: join or POST | live cold queries of a group share one POST and deadline |
| Kubernetes client (`k8s_client.rs`) | none | list with version, watch from a version, patch with a version | no change between list and watch is missed; a stale patch is refused |
| Characters (`characters.rs`) | none | labels and timestamps -> visible characters | the 120 s reconnect window is respected |
| Session manager (`session.rs`) | client IP -> session; upstream sockets, receive tasks | lookup, replace, touch, cleanup, clear | flows stay apart, active routes stay, inactive ones go with all their sockets |
| Data proxy (`proxy.rs`) | default endpoint cache | UDP packet, TCP connection, first packet, default route | packets follow the client's route; a default route is only a fallback |
| Load balancer (`load_balancer.rs`) | backend -> session count | select, increment, decrement | counts are those of the live sessions, new clients go to the least loaded Pod |
| Resource monitor (`resource_monitor.rs`) | last seen endpoint | poll, invalidate | a cached endpoint that is gone is dropped |
| Main (`main.rs`) | wiring | start-up, cleanup callback, shutdown | callbacks reach the state they are for |
| Configuration (`config.rs`) | read once | parse, validate | invalid files are refused at start; what it names is what traffic reaches |
| Metrics (`metrics.rs`, `metrics_server.rs`) | counters | scrape | - |

Interactions. The query server calls capacity demand and the Kubernetes client
and, last, the session manager; the data proxy calls the session manager, the
Kubernetes client, the load balancer and the shared cache; the resource monitor
writes that cache; the cleanup task of the session manager runs on its own.
Everything of one process shares memory and runs on a multi-threaded runtime:
any two tasks interleave between two locks, and between two awaits at least.
Directors share nothing but the Pods, which controllers write too.

Hard behaviours, each listed with its line under `hazards`: decisions on a list
that others overtake; the label write as the only guard between directors and
controllers; answers lost after they took effect; watches that could start too
late; a lock that must be let go during a wait; one deadline over four awaits;
route replacement in two critical sections; cleanup in two passes; a default
route decided before an await and written after it; a read-write lock taken
from both sides; counts kept by one object and decremented in another; a window
measured on two clocks; a byte stream without message boundaries; one target
worked out by two pieces of code.

## 2. Modules

| Module | Contents |
| --- | --- |
| `Cluster` | Pods, versions, how the director reads a Pod, and the steps of everybody else who writes Pods (external) |
| `Assignment` | the contract: a character is placed in one atomic step on a serving Pod with room, never over a connected player |
| `QueryServer` | `process_access`, capacity demand and the Kubernetes calls, for any number of directors |
| `Reconnect` | labels, disconnect timestamps and two clocks: `characters_on_pod` in full, implementing `Assignment` |
| `Requests` | one query connection: `read_request`, the cold wait's `wait_for_disconnect`, the answer |
| `Sessions` | route table, upstream sockets, receive tasks, UDP and TCP handlers, cleanup of one director |
| `DefaultEndpoint` | default routes, endpoint cache and its lock, least-sessions choice, counts, resource monitor |
| `Targets` | configuration and Pods to addresses and ports, on both paths; label arithmetic |
| `QueryServer_proofs`, `Reconnect_proofs`, `Requests_proofs`, `Sessions_proofs`, `DefaultEndpoint_proofs`, `Targets_proofs` | theorems about the module they are named for |
| `ColdWait_proofs`, `Placement_proofs` | more theorems about `QueryServer`: its lock, flights and wake-ups; where characters end up |
| `MCQueryServer`, `MCSessions`, `MCDefaultEndpoint`, `MCTargets` | instances for TLC |

How they fit together. `QueryServer` extends `Assignment` and `Cluster` and
takes a Pod's target and a parsed request for granted; `Targets` says what the
target is, `Requests` how a request comes about, and `Reconnect` when a label is
what `Cluster` calls `Expired`. `Sessions` and `DefaultEndpoint` share the first
packet: the one follows it into the table, the other into the cache and counts.

Each module with a state machine also holds, beside the definition it deviates
from and marked "faulty", the variant with a plausible bug that its mutant uses.

### QueryServer

One process per query; `pc` names where its task is.

| `pc` | Code (`query_server.rs`) |
| --- | --- |
| `lock`, `list` | `assignments.lock()` (218-223), first list (224) |
| `patch` | candidate chosen (227-331), `allocate_character` about to run (336) |
| `written`, `route` | label written, or Used already; target and route to come (340) |
| `post`, `watch`, `relock`, `relist` | the four awaits of a cold wait (282-290) |
| `orphan` | the query is over, its patch may still be applied |

The list and the selection that uses it are one step, because what is selected
from is the listed snapshot; only the Pod's name, its version and whether the
character is Used there outlive the step. The list is read at one instant: the
API server serves it from one version. Target extraction has no effect of its
own; its failure is `ReadFails`. The guard is held until the function returns,
as the code's guard variable is, and dropped for a cold wait. A flight is named
by the query that created it and lives while some query refers to it, as the
`Arc` behind the `Weak` does. `timeout_at` covers the four awaits, so the
deadline can end a query in each of them.

A label has five values. `Expired` stands for what `characters_on_pod` skips,
above all a Disconnected label whose 120 s have passed: this happens by the
clock, without a Pod event and without a new version. That matters twice. The
version guard cannot see it, and need not: it only makes room. And it wakes no
watch: `NoMissedWakeup` counts such a label as occupying, since the controller
removes it (and wakes the watch then). A label that becomes visible again
without a write, because clocks disagree, is `Reconnect`'s business.

`Crash` forgets all of a process: its connections, lock, flights and routes. A
patch already sent stays possible (`OrphanApplied`), as it does when the
connection to the API server breaks (`AllocateUnanswered`).

The query server writes a route but does not own the table: `RouteTaken` drops a
client's route or puts any Pod in its place at any time, as `cleanup_loop` and
the upsert of a default session do (`Sessions` has them in full). So Success is
a statement about its own step: `SuccessMeansReady` says that the step which
says it has installed the route, to a Pod that carries the label now.

Assumed of the rest of the cluster: the API server gives every effective update
a new version and refuses a patch whose version is not the current one; no
other party makes a character visible on a Pod except by writing the Pod;
controllers move labels Allocated/Disconnected -> Used -> Disconnected and
remove expired ones. Different Pods have different uids.

### Sessions

A task is a query that installs its route, the handler of a packet, or the
handler of a TCP connection. `at` names the next step; a step ends where the
code releases the shard lock of the table or awaits:

| `at` | Code |
| --- | --- |
| `resolve` | `establish_default_session` up to the upsert (`proxy.rs` 298-361) |
| `replace`, `insert` | the two critical sections of `upsert_multi_port` (`session.rs` 332-334, 336-337) |
| `forward`, `send`, `touch` | `proxy_packet_bidirectional` under the lock (`proxy.rs` 582-594), after it (604), and `touch_by_addr` (266) |
| `connect`, `relay` | `handle_tcp_connection` (215-224, 231) |

An upstream socket is closed when no receive task, table entry or task holds it
(the `Arc`s of `SessionSocket`), and only then can be opened again; when none
is closed, opening fails. Exact-socket keys are looked up by the code but never
inserted, so a session is keyed by client IP alone. Whether a session was
installed by a query or by default is remembered for the properties only.
One query at a time installs its session (`QueryAssigned` waits for the others):
`process_access` holds the assignment mutex from before its list until after the
upsert. Default sessions know no such lock. `Remove` takes a session out of the table
and shuts its sockets down in one step: the code does the second to a session it
owns by then, which no other task can look up.

### DefaultEndpoint

The read guard of a cache hit lives to the end of `establish_default_session`;
on a miss it is dropped before Kubernetes is asked, and the write guard is taken
for the fill. A cached endpoint without the port asks Kubernetes too but does
not fill the cache. The monitor polls, then compares and possibly invalidates.
`Expires` leaves the counts alone because the cleanup task runs on a copy of
the session manager made before the callback is set.

### Reconnect

Labels and timestamps are separate, as they are in a Pod: the controller writes
both, the director's merge patch only the label. `now` is the controller's
clock, `now + Lead` the directors'. `Place` is list, reading of the clock,
selection and guarded patch in one step; what may pass between the reading and
the write is time alone (a write would change the version, which is what
`QueryServer` shows), so the reading is any instant since the listed version was
stored. `PodsNow` reads the Pods at the directors' present clock and turns what
`characters_on_pod` skips into `Expired`: it is the refinement mapping onto
`Assignment`, in which time passing is the step `WindowsPass` of `Cluster`.

`ReconnectAssumption` says what the controller has to keep to:
`ReturnWindow + Lead <= Window` (it lets nobody back in for longer than the
director keeps the place) and `Window <= Retention + Lead` (it does not remove a
label the director still counts, which keeps the two models' removals the same).
`Lead` is not negative: a controller whose clock is ahead makes a player who has
just left invisible (`now < at`) until the director catches up, and visible
again without a write. The place can be given away meanwhile, and both
properties fail. The same holds for two directors whose clocks differ.

### Requests

Bytes are told apart by what the JSON parser does with them. `ReadMore` takes
what has arrived, up to a chunk, checks the length and parses everything read so
far, in the order of the code. Outside the cold wait nobody reads from the
connection; in it `wait_for_disconnect` discards 64 bytes at a time until the
close or an error ends the query without an answer. Deserialization errors
(unknown fields, wrong types) are the byte `bad`.

### Targets

A query is one step. A first packet takes the steps of
`establish_default_session`, one handler per packet, with the others in between:

| `at` | Code (`proxy.rs`) |
| --- | --- |
| `check` | the cache is about to be read (310-313); `from` says whether its read guard is kept |
| `list` | Kubernetes is asked; then counts are read and a Pod chosen (380-444) |
| `fill` | the cache is about to be written (340-345); `Fill` waits for readers |
| `insert`, `count` | `upsert_multi_port` (364-366), `increment_session` (369) to come |

So `counts` moves between a handler's choice and its own `Count`. `listed` (how
many of an address's counted sessions a list placed) and `told` are history, for
the properties only. There is one client: several differ, for the counts, from
one whose session expires in between by nothing. A hash map is a function in which the last entry for a key stays; a JSONPath
stands for what it resolves to. `QueryTarget` and `DefaultTarget` are translated
from `process_access` and `extract_endpoint_target_multi_port` independently, so
that their agreement says something. `Wrap` is the subtraction of a release
build, where `i64` wraps; a debug build panics.

## 3. What the runs show

Passing runs. Deadlock is checked in `MCSessions` and `MCDefaultEndpoint`, whose
background tasks never stop. It is not where the system may really stop: the
finite set of queries of `MCQueryServer` ends, a connection of `Requests` ends,
a refused configuration of `MCTargets` ends the director, and `Reconnect` stops
at the bounds of its clock and of the controllers' writes.

| Run | Instance | Shows |
| --- | --- | --- |
| `access_races` | 2 directors, 3 queries, 1 Pod with 1 place, all environment steps, 4 external writes | types; capacity; what was listed is still true when the patch can take effect; the contract `Assignment` is implemented; Used is never demoted |
| `one_director` | 1 director, a repeated query and another player behind the same address, 2 Pods with 2 places that start up, clients that leave, deadlines, routes dropped and replaced | one server per character; Success is only said in a step that installs a route to a Pod with the label; living cold queries of a group share one flight |
| `cold_answers` | 2 players of one map, 1 Pod with 1 place, every failure | the assignment lock is never lost or left taken; no wake-up is missed between list and watch; every query is answered; a place whose window has passed wakes a sleeping query once its label is removed |
| `hot_and_cold` | 2 queries for a Pod that starts or never does, 1 query for a ready Pod of another map | the hot query succeeds whatever the others wait for; once the Pod has started both waiters succeed |
| `reconnect` | 3 characters, 2 places, window 3, clock lead 1 | types; `Assignment` is implemented in the presence of clocks; whoever may return has a place |
| `requests` | all streams of up to 4 bytes, limit 3, reads of up to 2 bytes | one valid document is never refused and whatever is accepted begins with one, however it is split; a waiting query is cancelled only by its client leaving; a decided request is read; a client that left is noticed |
| `data_plane` | 2 tasks, 2 UDP flows and a TCP flow of one client, 2 backends, 2 sockets | types; a listed socket belongs to its flow and is not shut down; a socket never serves two backends; no receive task is lost and all forwarding state expires, unless a packet falls between the two locks of a route replacement |
| `default_routes` | 2 handlers, 2 clients, 2 ports, 2 Pods that come and go | types; every default session is counted; a handler with the read guard waits for nothing and uses what is cached; handlers and monitor never block each other |
| `targets` | 31 configurations, 10 of them refused, 7 kinds of Pod, every pair of them under label arithmetic, 2 first packets at a time | types and port ranges; both paths reach one target; the ports a client is told lead to the ports of that name; label arithmetic keeps its formula up to one session |

Runs that end in a counterexample, each against a sentence of the repository
(`findings` quotes it):

| Run | What happens |
| --- | --- |
| `orphan_socket` | a packet between the two critical sections of `upsert_multi_port` opens a socket that is never shut down; its receive task outlives everything |
| `default_over_query` | a first packet, waiting for Kubernetes, overwrites the route a query has installed meanwhile |
| `counts_only_grow` | an expired session stays counted |

`ExpiresWithoutOverlap` and `OrphansNeedOverlap` of `data_plane` are the other side of `orphan_socket`: that one overlap is the
only way to leave a receive task behind.

More follow from the code, can be read off the definitions named here and have
no run of their own. Behaviour:

- Cleanup collects inactive sessions in one pass and removes them by key in
  another (`session.rs` 397-416; `Inspect`, `Remove` of `Sessions`): a route that
  a query installs between the passes is removed with the old one's key.
- A TCP connection touches its session only when it closes (`proxy.rs` 247;
  `Touch` follows `RelayEnds`): cleanup may remove the session of a connection in
  use, whose client's next packet takes the default route.
- A cached endpoint takes every new default client without asking the load
  balancer (`proxy.rs` 311; `FromCache` of `Targets`), where
  `Docs/load-balancing.md` 25-26 has each new client go to the least loaded one
  and line 38 speaks of "preventing backends from exceeding capacity". `RoomLeft`
  leaves these sessions out (`from`, `listed`) and would not hold of them.
- First packets side by side overfill a Pod. The count is read at
  `load_balancer.rs` 253 and raised at `proxy.rs` 369, with the cache and the
  session table awaited in between and no lock held (`FromList` and `Count` of
  `Targets`): of N packets that find the cache empty and one place left, all N
  choose it, and `current + sessions + overlap` ends N - 1 above `max`. The
  comment at `load_balancer.rs` 256 ("This ensures ... <= max") and
  `Docs/load-balancing.md` 38 and 64 do not say so. `RoomLeft` states the bound
  with N - 1 in it; without it run `targets` finds the two packets.
- First packets of one client side by side each count a session, though the
  client has one (`Count` of `DefaultEndpoint`, twice). `CountsCoverSessions` is a
  lower bound and says nothing of it.
- The monitor compares the first listed resource with the first one of the poll
  before (`resource_monitor.rs` 112; `Poll` of `DefaultEndpoint`), never the
  cached endpoint with the list: a cached Pod that is gone can stay cached.
- The load balancer counts default sessions only; players who came by a query
  are in neither `sessions` nor, unless their server says so, `current`.
- In a release build the subtraction wraps, so that a Pod with a large negative
  maximum is selected; `RoomLeft` without `Sane` is violated so.
- Whether bytes after a valid document are an error depends on how TCP delivers
  them (`BeginsWithRequest` is weaker than `OneRequest`); bytes left unread at the
  close may also turn it into a reset, which can destroy the answer.

Words:

- `Docs/load-balancing.md` 64 and the comment at `load_balancer.rs` 256 say
  `current + sessions + overlap <= max`, the code wants more than zero left. That
  is the same formula with the new session counted, as `RoomLeft` states it.
- `Docs/load-balancing.md` and `config.loadbalancing.example.yaml` put `type` and
  the labels directly under `loadBalancing`; `LoadBalancingConfig` has them under
  `strategy`, a field with a default, so a file written as documented selects
  `leastSessions` without a word.
- `Docs/TechnicalReference.md` 57-67 writes `expectedValue`, the code reads the
  list `expectedValues`, which is required.
- `validate` accepts data ports with one name or one public port and mappings
  that lack a data port (then every query fails), and the Service path takes
  `clusterIP: None` and casts its port to 16 bits.

### Bounds, and why they are enough

- `MaxRevision` bounds the writes of other parties. The hazards need at most
  three between a list and a patch (drain and undrain; connect, disconnect and
  expiry); `access_races` allows four, the director's own writes not counted.
- Two directors and three queries give every pair of competing patches, with a
  third query that repeats one of them. One place per server makes capacity bite.
- Two tasks give every pairing of handlers around one route; three or more add
  no new pair of adjacent critical sections. Two sockets for two flows and a
  replaced route make exhaustion happen.
- `MaxSessions` of `DefaultEndpoint` bounds the default sessions ever started:
  two suffice for a miss and a hit, two misses, and a session that expires and
  returns. In `Targets` two fill a Pod with `current` 1 and `max` 3, and two
  `Handlers` overfill one, the second by the place the first one took; they are
  alike, hence the symmetry.
- `reconnect` counts time in ticks: windows of 3, 2 and 2 with a lead of 1 meet
  both assumptions with equality, and `MaxTime` 6 is two windows. Eight external
  writes let both places be left, returned to or lost, and given away.
- `requests`: four bytes with reads of two and a limit of three have every
  length on either side of the limit and of a read. Constants of the code
  (65536, 4096, 64) matter only by their order.
- `targets`: each configuration and each Pod differs from a plain one in one
  way (missing, out of range, duplicate, swapped, not an integer). Half is 16 in
  place of 2^63: only which numbers wrap depends on it. `MCSpec` starts with every
  pair of Pods where Pods compete by labels, and with two plain ones once for
  least sessions; elsewhere a second Pod adds nothing to what the first one
  shows, and has no address.

Every disjunct of every next-state relation is taken in some passing run, and
each property has a mutant that it refutes.

### Fairness

A spawned task that can run is run by tokio: weak fairness of the steps of the
code. The assignment lock is tokio's FIFO mutex, so a waiter is not passed over
for ever: strong fairness of taking it. The cache lock is fair towards writers
and, in the model, readers come in bounded number: weak fairness suffices.
Kubernetes calls are answered in the end; this is an assumption, since the
first list and the patch have no timeout in the code. The clock reaches session
timeouts; that it reaches startup deadlines is a premise
(`DeadlinesPass`) of `EveryQueryAnswered` alone, and `ExpiredPlaceWakes` shows
what holds without it. A watch is fair only once a Pod has changed: a silent one
need never return, and the deadline is then what ends the wait. Nothing is
assumed of clients or controllers, except by `WaitersAllServed`, whose premise
`StartsUp` says that the controller answers the POST and that what is starting
becomes ready, and by `ExpiredPlaceWakes`, whose premise `ExpiredRemoved` says
that the controller removes expired labels.

In `Requests` the network delivers what was sent. `Discard` and `NoticeClose`
are strongly fair: a cold wait may leave and enter the wait for ever, and the
read is interrupted each time, but each round polls it at least once while the
watch goes out to the API server, and what has arrived by then is not lost. A
client that neither sends nor closes is never assumed to do either. In
`Sessions` only time, cleanup and the receive tasks' flag check are fair:
nothing makes clients send, a resolution succeed or a connection end.

## 4. What is proved

For every value of the constants, from the assumptions named in each module.

| Module | Theorem | States |
| --- | --- | --- |
| `QueryServer_proofs` | `TypeCorrect` | `Spec => []TypeOK` |
| | `ListAlwaysTrue` | `Spec => []ListStillTrue` |
| | `CapacityAlwaysRespected` | `Spec => []CapacityRespected` |
| | `Implementation` | `Spec => ImplementsAssignment` |
| | `NeverDemoted` | `Spec => UsedNeverDemoted` |
| `ColdWait_proofs` | `LockAlwaysAccounted` | `Spec => []LockAccounted` |
| | `FlightAlwaysShared` | `Spec => []FlightShared` |
| | `NoWakeupMissed` | `Spec => []NoMissedWakeup` |
| `Placement_proofs` | `OneIsFirst` | `Eligible(q) # {}` => exactly one Pod is `Selected` |
| | `OneServerEach` | `Spec => []OneServerPerCharacter`, under three hypotheses |
| | `SuccessIsReady` | `Spec => SuccessMeansReady`, while labels stay |
| `Reconnect_proofs` | `TypeCorrect` | `Spec => []TypeOK` |
| | `Implementation` | `Spec => ImplementsAssignment` |
| | `RoomAlwaysForReturners` | `Spec => []RoomForReturners` |
| `Requests_proofs` | `TypeCorrect` | `Spec => []TypeOK` |
| | `SplitsNeverMatter` | `Spec => []SplitsDoNotMatter` |
| | `NeverCancelledAlone` | `Spec => []CancelledOnlyByClose` |
| `Sessions_proofs` | `TypeCorrect` | `Spec => []TypeOK` |
| | `ListedSocketsAlwaysWork` | `Spec => []ListedSocketsWork` |
| | `OneServerAlways` | `Spec => []OneServerPerSocket` |
| | `OrphansOnlyByOverlap` | `Spec => OrphansNeedOverlap` |
| | `NoOverlapNoOrphans` | `Spec => ([]~Overlap => []ReceiversListed)` |
| `DefaultEndpoint_proofs` | `TypeCorrect` | `Spec => []TypeOK` |
| | `CountsAlwaysCover` | `Spec => []CountsCoverSessions` |
| | `GuardAlwaysHolds` | `Spec => []GuardedEndpoint` |
| `Targets_proofs` | `TypeCorrect` | `Spec => []TypeOK` |
| | `PathsAlwaysAgree` | `Spec => []PathsAgree` |
| | `ToldPortsAlwaysLead` | `Spec => []ToldPortsLead` |
| | `RoomAlwaysLeft` | `Spec => []RoomLeft` |

### QueryServer

From `ClusterAssumption` and `QueryServerAssumption` (finitely many characters,
request table well formed).

`CapacityRespected` is not inductive: that a label write fits is known only
from the list it follows. `ListStillTrue` says that whatever was concluded from
the list holds while the listed version is current, and to preserve it one must
know that later writes use new versions (`VersionsKnown`). The inductive
invariant is

    IInv == TypeOK /\ TargetChosen /\ VersionsKnown /\ CapacityRespected /\ ListStillTrue

Its proof has two halves. `ClusterMoves` sums up what any step may do to the
cluster: each Pod either keeps its version, and then phase, drain marker and
Used labels, and gains no occupant; or it gets the version `revision + 1`, which
nobody has listed. `StoreMoves`, `WindowsPassMoves` and `EnvironmentMoves` show
it for each writer. `ListKept` and `VersionsKept` then carry the invariant over
any step that moves the cluster so, and `SelectLists` over the one step that
lists anew. `WriteIsAssignment` shows that a patch that takes effect is a step
of the contract, from which capacity and `Implementation` follow. The
refinement mapping is the identity: `Assignment` speaks of the Pods alone.

### QueryServer: lock, flights and wake-ups (`ColdWait_proofs`)

`OthersStaySame` says that a query's step changes no other query's own state, so
that each argument needs one query and one director.

- `LockAccounted` is inductive beside `TypeOK`: every step of a query takes the
  lock on its way into the critical section, keeps it, or gives it back on its
  way out (`LockKinds`), and a crash gives back what died (`CrashAccounts`).
  `MutualExclusion` follows.
- `FlightShared` follows from `Registered` (a flight some query holds is the one
  registered for its group) beside `ColdHasFlight` (a query has a flight from
  its cold wait to its end and no earlier). The hard case is a query that finds
  the registered flight dead: then nobody of its group holds it, so registering
  a new one orphans nobody (`JoinRegisters`).
- `NoMissedWakeup` needs `IInv` and `SinceKnown` (nobody has listed a version
  that has not been given out). The core is `RoomWakes`: a Pod that begins to
  serve, or loses a label, gets a version newer than every list. A window that
  passes loses none, which is why the property counts expired labels; and a Pod
  without room at the list has none with them counted either (`RoomIsRoom`).

### QueryServer: where characters end up (`Placement_proofs`)

`OneIsFirst` is a fact of the sort key alone: minimise its four parts one after
the other (`LeastMeasured`, by well-foundedness); uids differ, so one Pod is left.

`OneServerEach` adds to `IInv` and `LockAccounted` the invariant

    Placement == OccupiedServes /\ NoOrphans /\ FoundNowhereElse /\ OneServerPerCharacter

`FoundNowhereElse` says of a query between its list and its patch that no other
server of the map has its character. Another query of the director would have to
write meanwhile, which `MutualExclusion` excludes. Its hypotheses are those of
the run: `OneDirector` (the version guard is per Pod, two directors place one
character twice), `ServersStay` (a server that drains or becomes unready while it
holds the character is not listed, and the repeat goes elsewhere) and
`PatchesSettle` (a patch applied after its query ended may follow a repeat's).
Each describes a behaviour the code has; section 5 lists them as such.

`SuccessIsReady` holds for any number of directors, with stops, drains, crashes,
lost answers, lost and replaced routes, and players who share an address:
`RoutesLabelled` carries the label from the patch to the step that installs the
route. Its one hypothesis is that labels stay (`LabelsStay`: nobody removes one
or deletes a Pod), because the route is installed after the write without another
look. It says nothing of the route after that step, and cannot: finding
`default_over_query` takes it away.

### Reconnect

The mapping is `pods <- PodsNow`; versions, drain markers and phases map to
themselves. Each write is a write of `Cluster` on the mapped Pods
(`PhaseSteps`, `DrainStep`, `DeleteStep`, `OccupancySteps`), a tick is
`WindowsPass` or a stutter (`TickStep`), and a placement is `Assign` because an
unexpired label at the present reading was unexpired at the older one: timestamps
are not newer than the version (`Dated` in `TypeOK`), and windows only end. For
`RoomForReturners` that is not enough, as players who may return are counted by
the controller's clock. `RoomAtWrite` is the strengthening: at the director's
reading of the instant the version was written, the occupants fit. Afterwards
they only get fewer (`OccupantsShrink`, `RoomLater`), and
`ReturnWindow + Lead <= Window` makes whoever may return one of them.

### Requests

`SplitsDoNotMatter` speaks of verdicts only; while none is reached, the parser
must have seen no end of a document within the limit. The inductive invariant is

    Inv == TypeOK /\ StillOpen /\ ClosedAtEnd /\ SplitsDoNotMatter

`OneRequestParses` is its core: every prefix of a valid stream is "eof" or "ok".
`CancelledOnlyByClose` is inductive on its own: a close or a reset is never undone.

### Sessions

From `SessionsAssumption`, for any number of clients, flows, sockets and tasks.
The inductive invariant is

    IInv == TypeOK /\ AllKnow /\ ListedSocketsWork /\ OneServerPerSocket

`AllKnow` is what a task knows at each step: one that forwards has a flow of its
client, one that installs a session has a backend. `OneServerPerSocket` needs
that no socket is listed for two clients (`ListedOnce`), which follows from
`ListedSocketsWork`: a listed socket belongs to its flow, and a flow to one
client. `ListedSocketsWork` needs the same when a session's sockets are shut
down (`ShutdownSpares`). Every step but two is `Quiet`: it adds no socket to the
table, leaves those it keeps as they were, and gives no task a socket. The two
are `UseSocket`, where `ListedOnce` is used again, and `OpenSocket`, where the
socket was closed: listed nowhere and held by no task.

`ReceiversListed` (every unsignalled receive task serves a listed socket) is not
inductive even outside `Overlap`, since `Insert` forgets the sockets of what it
replaces. `InsertsEmpty` is what is missing: while a task is about to insert, its
client's entry lists no socket. `ShutdownOld` makes it so, and only the overlap
could list one again (`OpenSocketLists`). `OrphansNeedOverlap` says that of each
step, `NoOverlapNoOrphans` of a whole run, relating two boxes.

### DefaultEndpoint

`TypeOK /\ CountsCoverSessions` is inductive: an insert adds one session and one
handler about to count (`InsertCovers`), the count turns the one into the other
(`CountCovers`), and nothing else adds a session or takes from a count.
`GuardedEndpoint` is inductive beside the types: fill and invalidation wait for
the readers, and a miss drops its guard.

### Targets

From `TargetsAssumption`, `ConfigsAssumption` and `FactsAssumption`. The last two
say what serde and the API server see to: lists are lists, a configured public
port is a `u16`, what stands for an address is one; port numbers inside Pods and
Services may be any integer or none. `TypeOK` is inductive beside `RunningIsValid`
(a director that runs has passed `validate`), which a query needs to answer with
at least one port. It puts the range checks to use: whatever the JSON holds, a
route leads to a 16-bit port, or the target is refused (`PortType`,
`ServiceType`, `PortsType`).

`PathsAgree` and `LastOn` rest on the largest index of a key, whose existence is
proved by well-founded induction (`MaxIsLargest`). `ToldPortsLead` needs that the
session of a client that was told is still the target of that Pod
(`ToldOfSession`), and that a default session in its place was told to nobody.

`RoomLeft` is inductive beside `Shape` (what a handler carries at each step) and
`Counted` (what lists placed is part of the counts). A choice is the only step
that places a session (`ChoiceLeavesRoom`): small numbers do not wrap
(`SmallDoesNotWrap`), so the chosen Pod had room for one more than its count
(`SelectedHasRoom`); of the sessions lists have placed there those counted are in
that count, and those not counted are handlers, N at most (`FewWait`). To count
one moves it from the second kind to the first (`CountLeavesRoom`); any other
step only gives up handlers (`NobodyJoins`).

### Only model-checked

Liveness, because fairness means ENABLED, which is beyond the prover:
`EveryQueryAnswered`, `ExpiredPlaceWakes`, `HotQueriesServed`,
`WaitersAllServed`, `DecidedIsRead`, `ClosedIsNoticed`, `NobodyStuck` and
`ExpiresWithoutOverlap`. The safety they rest on is proved: `LockAccounted`,
`NoMissedWakeup`, `CancelledOnlyByClose`, `OrphansNeedOverlap` and
`GuardedEndpoint`.

## 5. What is not modelled

- Players that share one public IP share a route: documented as a limitation.
- Two directors asked for the same character at the same time may each place
  it, and so may a patch that is applied after its query ended, or a repeat
  while the first server drains or is unready; `OneServerPerCharacter` is
  therefore checked and proved for one director, without these.
- `characterList` changes no state. JSONPath syntax, status and annotation
  filters and YAML parsing are inputs: what a path resolves to, which Pods match.
- `clear_all` and the 500 ms before the process ends; start-up checks, which
  only log; metrics; the single-port extraction marked as dead code.
- Real time, but for the reconnect window: deadlines and timeouts pass at any
  time after they start. The director's clock does not jump, and directors share
  one (`Lead`).
- A client that changes its source port lets sockets accumulate in its session:
  the flows of `Sessions` are fixed, and no limit is documented.

## 6. Plan

Done: `Cluster`, `Assignment`, `QueryServer`, `Reconnect`, `Requests`,
`Sessions`, `DefaultEndpoint` and `Targets`, all with proofs. In this order next:

1. `Placement`: which parts of `OneServerEach` survive several directors, and
   what a repeat finds after a lost answer.
2. `Drain`: the controller's side of the drain and delete protocol as documented,
   composed with `QueryServer`: no deletion of an assigned player.
3. `Director`: query server, sessions and default endpoint composed, for
   properties from the label to the route (Success, then the first datagram).
4. Shutdown and `clear_all` in `Sessions`; exact-socket lookups.
