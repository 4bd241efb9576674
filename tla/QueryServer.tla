---------------------------- MODULE QueryServer ----------------------------
(***************************************************************************)
(* The TCP query server: process_access for "query" requests, with the     *)
(* assignment lock, capacity demand, the cold wait and the guarded label   *)
(* write, run by any number of director processes against one cluster.     *)
(*                                                                         *)
(* A step of a query is the code between two awaits at which another task, *)
(* director or controller can act.  The list and the selection that uses   *)
(* it are one step: what is selected from is the listed snapshot, and only *)
(* its name, version and "already Used" verdict outlive the step.          *)
(***************************************************************************)
EXTENDS Assignment

CONSTANTS
  Directors, Queries, Clients, Maps, Groups,
  Request,          \* query -> its director, client IP, map, character, friends
  MapOf,            \* Pod -> value of its map label
  GroupOf,          \* map -> backend group (config.backend_groups, else itself)
  UidRank,          \* Pod -> rank of its uid in string order
  CapacityDemand,   \* TRUE when config.capacity_demand is set
  NoQuery, NoPod    \* no holder, no flight; no route

ASSUME QueryServerAssumption ==
  /\ Request \in [Queries -> [director : Directors, client : Clients,
                              map : Maps, character : Characters,
                              friends : SUBSET Characters]]
  /\ MapOf \in [Pods -> Maps]
  /\ GroupOf \in [Maps -> Groups]
  /\ UidRank \in [Pods -> Nat]
  /\ \A a, b \in Pods : UidRank[a] = UidRank[b] => a = b
  /\ CapacityDemand \in BOOLEAN
  /\ NoQuery \notin Queries /\ NoPod \notin Pods

VARIABLES
  pc,           \* query -> where its task is
  outcome,      \* query -> what its client was told
  target,       \* query -> candidates[0]: its name ...
  seen,         \* ... and resource version in the snapshot
  since,        \* query -> resource version of its last list
  assignments,  \* director -> holder of the assignment lock
  flights,      \* director -> group -> registered flight, named by its creator
  flight,       \* query -> the flight it keeps alive
  accepted,     \* flight -> result of its shared POST
  expired,      \* flight -> its deadline has passed
  sessions      \* director -> client IP -> Pod its datagrams are forwarded to

taskVars == <<pc, outcome, target, seen, since, flight>>
sharedVars == <<assignments, flights, accepted, expired, sessions>>
vars == <<clusterVars, taskVars, sharedVars>>

DirectorOf(q)  == Request[q].director
CharacterOf(q) == Request[q].character
GroupOfQuery(q) == GroupOf[Request[q].map]
Listed(q) == {p \in Pods : MapOf[p] = Request[q].map}

Waiting == {"post", "watch", "relock", "relist"}
Steps   == Waiting \cup {"idle", "lock", "list", "patch", "written", "route",
                         "orphan", "done"}
Outcomes == {"None", "Success", "NoServer", "NoRoute", "Refused", "Timeout",
             "Cancelled", "Lost"}

TypeOK ==
  /\ ClusterTypeOK
  /\ pc \in [Queries -> Steps]
  /\ outcome \in [Queries -> Outcomes]
  /\ target \in [Queries -> Pods \cup {NoPod}]
  /\ seen \in [Queries -> Nat]
  /\ since \in [Queries -> Nat]
  /\ assignments \in [Directors -> Queries \cup {NoQuery}]
  /\ flights \in [Directors -> [Groups -> Queries \cup {NoQuery}]]
  /\ flight \in [Queries -> Queries \cup {NoQuery}]
  /\ accepted \in [Queries -> {"None", "pending", "ok", "error"}]
  /\ expired \in [Queries -> BOOLEAN]
  /\ sessions \in [Directors -> [Clients -> Pods \cup {NoPod}]]

Init ==
  /\ ClusterInit
  /\ pc = [q \in Queries |-> "idle"]
  /\ outcome = [q \in Queries |-> "None"]
  /\ target = [q \in Queries |-> NoPod]
  /\ seen = [q \in Queries |-> 0]
  /\ since = [q \in Queries |-> 0]
  /\ assignments = [d \in Directors |-> NoQuery]
  /\ flights = [d \in Directors |-> [g \in Groups |-> NoQuery]]
  /\ flight = [q \in Queries |-> NoQuery]
  /\ accepted = [q \in Queries |-> "None"]
  /\ expired = [q \in Queries |-> FALSE]
  /\ sessions = [d \in Directors |-> [c \in Clients |-> NoPod]]

-----------------------------------------------------------------------------
(* Selection *)

Eligible(q) ==
  {p \in Listed(q) : Serving(p) /\ HasRoom(p, CharacterOf(q))}

\* The sort key: an existing assignment, most friends, fewest occupants, uid.
SortKey(q, p) ==
  << IF CharacterOf(q) \in CharactersOn(p) THEN 0 ELSE 1,
     - Cardinality(CharactersOn(p) \cap Request[q].friends),
     Cardinality(CharactersOn(p)),
     UidRank[p] >>

SortsBefore(a, b) ==
  \E i \in 1..4 : a[i] < b[i] /\ \A j \in 1..(i - 1) : a[j] = b[j]

\* p is candidates[0].
Selected(q, p) ==
  /\ p \in Eligible(q)
  /\ \A other \in Eligible(q) \ {p} : SortsBefore(SortKey(q, p), SortKey(q, other))

-----------------------------------------------------------------------------
(* The assignment lock, held from acquisition to the end of the function   *)
(* except across a cold wait.                                              *)

NoMutex(d) == TRUE \* faulty: selections are not serialized

LockFree(d) == assignments[d] = NoQuery

Lock(q, step) ==
  /\ LockFree(DirectorOf(q))
  /\ assignments' = [assignments EXCEPT ![DirectorOf(q)] = q]
  /\ pc' = [pc EXCEPT ![q] = step]

Released(q) == [assignments EXCEPT
                  ![DirectorOf(q)] = IF @ = q THEN NoQuery ELSE @]

\* The function returns: guard and flight are dropped, the client answered.
Return(q, result, step) ==
  /\ pc' = [pc EXCEPT ![q] = step]
  /\ outcome' = [outcome EXCEPT ![q] = result]
  /\ flight' = [flight EXCEPT ![q] = NoQuery]
  /\ assignments' = Released(q)
  /\ UNCHANGED <<target, seen, since, flights, accepted, expired>>

Answer(q, result) ==
  /\ Return(q, result, "done")
  /\ UNCHANGED <<clusterVars, sessions>>

-----------------------------------------------------------------------------
(* Capacity demand *)

\* Faulty: a flight ends with the query that started it.
LiveWithCreator(f) == f \in Queries /\ flight[f] = f

\* strong_count() > 0: some query still holds the flight.
Live(f) == f \in Queries /\ \E q \in Queries : flight[q] = f

\* signal: join the live flight of the group, or register one and POST.
Signal(q) ==
  LET d == DirectorOf(q)
      g == GroupOfQuery(q)
      kept == [h \in Groups |-> IF Live(flights[d][h]) THEN flights[d][h] ELSE NoQuery]
  IN IF kept[g] # NoQuery
     THEN /\ flights' = [flights EXCEPT ![d] = kept]
          /\ flight' = [flight EXCEPT ![q] = kept[g]]
          /\ UNCHANGED <<accepted, expired>>
     ELSE /\ flights' = [flights EXCEPT ![d] = [kept EXCEPT ![g] = q]]
          /\ flight' = [flight EXCEPT ![q] = q]
          /\ accepted' = [accepted EXCEPT ![q] = "pending"]
          /\ expired' = [expired EXCEPT ![q] = FALSE]

\* flight.get_or_insert_with: a query signals at most once.
JoinFlight(q) ==
  IF flight[q] # NoQuery
  THEN UNCHANGED <<flights, flight, accepted, expired>>
  ELSE Signal(q)

-----------------------------------------------------------------------------
(* The steps of a query *)

\* A valid query request arrives and asks for the assignment lock.
Submit(q) ==
  /\ pc[q] = "idle"
  /\ pc' = [pc EXCEPT ![q] = "lock"]
  /\ UNCHANGED <<clusterVars, outcome, target, seen, since, flight, sharedVars>>

LockAssignments(q) ==
  /\ pc[q] = "lock"
  /\ Lock(q, "list")
  /\ UNCHANGED <<clusterVars, outcome, target, seen, since, flight,
                 flights, accepted, expired, sessions>>

\* Faulty: a connected player is written again.
SelectIgnoringUsed(q) ==
  /\ pc[q] \in {"list", "relist"}
  /\ \E p \in Pods :
       /\ Selected(q, p)
       /\ target' = [target EXCEPT ![q] = p]
       /\ seen' = [seen EXCEPT ![q] = pods[p].version]
       /\ pc' = [pc EXCEPT ![q] = "patch"]
  /\ UNCHANGED <<clusterVars, outcome, since, flight, sharedVars>>

\* The snapshot has a candidate.  A character that is Used there is not
\* written again; the query goes on to its route.
Select(q) ==
  /\ pc[q] \in {"list", "relist"}
  /\ \E p \in Pods :
       /\ Selected(q, p)
       /\ target' = [target EXCEPT ![q] = p]
       /\ seen' = [seen EXCEPT ![q] = pods[p].version]
       /\ pc' = [pc EXCEPT ![q] = IF pods[p].label[CharacterOf(q)] = "Used"
                                  THEN "route" ELSE "patch"]
  /\ UNCHANGED <<clusterVars, outcome, since, flight, sharedVars>>

\* Nothing is eligible and no demand is configured.
NoServerAvailable(q) ==
  /\ pc[q] \in {"list", "relist"}
  /\ Eligible(q) = {}
  /\ ~CapacityDemand
  /\ Answer(q, "NoServer")

\* Nothing is eligible: the demand flight is joined, the lock left to others.
ColdWait(q, lock) ==
  /\ pc[q] \in {"list", "relist"}
  /\ Eligible(q) = {}
  /\ CapacityDemand
  /\ JoinFlight(q)
  /\ assignments' = lock
  /\ since' = [since EXCEPT ![q] = revision]
  /\ pc' = [pc EXCEPT ![q] = "post"]
  /\ UNCHANGED <<clusterVars, outcome, target, seen, sessions>>

ColdWaitHoldingLock(q) == ColdWait(q, assignments) \* faulty: guard not dropped

StartColdWait(q) == ColdWait(q, Released(q))

\* Faulty: the watch starts from now, not from the last list.
WatchFromNow(q) ==
  /\ pc[q] = "post"
  /\ accepted[flight[q]] = "ok"
  /\ pc' = [pc EXCEPT ![q] = "watch"]
  /\ since' = [since EXCEPT ![q] = revision]
  /\ UNCHANGED <<clusterVars, outcome, target, seen, flight, sharedVars>>

\* accepted.clone().await
DemandAccepted(q) ==
  /\ pc[q] = "post"
  /\ accepted[flight[q]] = "ok"
  /\ pc' = [pc EXCEPT ![q] = "watch"]
  /\ UNCHANGED <<clusterVars, outcome, target, seen, since, flight, sharedVars>>

DemandRefused(q) ==
  /\ pc[q] = "post"
  /\ accepted[flight[q]] = "error"
  /\ Answer(q, "Refused")

\* Faulty: only a change of readiness wakes.
PodUnready(q) ==
  \E p \in Listed(q) : pods[p].version > since[q] /\ pods[p].phase # "ready"

\* wait_for_pod_change: any Pod of the map written since the last list; or
\* the watch ends by itself (stream closed, HTTP 410).
PodChanged(q) == \E p \in Listed(q) : pods[p].version > since[q]

WatchReturns(q) ==
  /\ pc[q] = "watch"
  /\ PodChanged(q) \/ "watchEnd" \in Faults
  /\ pc' = [pc EXCEPT ![q] = "relock"]
  /\ UNCHANGED <<clusterVars, outcome, target, seen, since, flight, sharedVars>>

RelockAssignments(q) ==
  /\ pc[q] = "relock"
  /\ Lock(q, "relist")
  /\ UNCHANGED <<clusterVars, outcome, target, seen, since, flight,
                 flights, accepted, expired, sessions>>

\* Faulty: the deadline bounds the POST only.
TimeoutOfPostOnly(q) == pc[q] = "post" /\ expired[flight[q]] /\ Answer(q, "Timeout")

\* timeout_at(deadline) covers POST, watch, lock and list of a cold wait.
StartupTimeout(q) ==
  /\ pc[q] \in Waiting
  /\ expired[flight[q]]
  /\ Answer(q, "Timeout")

\* wait_for_disconnect wins the select.
ClientLeaves(q) ==
  /\ "cancel" \in Faults
  /\ pc[q] \in Waiting
  /\ Answer(q, "Cancelled")

\* The list or the watch fails, or the snapshot has no usable address or
\* port: the error ends the query.
ReadFails(q) ==
  /\ "apiError" \in Faults
  /\ pc[q] \in {"list", "watch", "relist", "patch", "route"}
  /\ Answer(q, "NoRoute")

\* allocate_character: the API server applies the label only to the version
\* that was listed.
VersionIgnored(q) == pods[target[q]].phase # "absent" \* faulty: plain merge patch

VersionMatches(q) ==
  pods[target[q]].phase # "absent" /\ pods[target[q]].version = seen[q]

AllocateCharacter(q) ==
  /\ pc[q] = "patch"
  /\ VersionMatches(q)
  /\ SetLabel(target[q], CharacterOf(q), "Allocated")
  /\ pc' = [pc EXCEPT ![q] = "written"]
  /\ UNCHANGED <<outcome, target, seen, since, flight, sharedVars>>

\* Faulty: a failed patch is logged and the route installed all the same.
ConflictIgnored(q) ==
  /\ pc[q] = "patch"
  /\ ~VersionMatches(q)
  /\ pc' = [pc EXCEPT ![q] = "written"]
  /\ UNCHANGED <<clusterVars, outcome, target, seen, since, flight, sharedVars>>

AllocateConflict(q) ==
  /\ pc[q] = "patch"
  /\ ~VersionMatches(q)
  /\ Answer(q, "NoRoute")

\* The connection to the API server breaks: the query fails although its
\* request may still be applied.
AllocateUnanswered(q) ==
  /\ "apiError" \in Faults
  /\ pc[q] = "patch"
  /\ Return(q, "NoRoute", "orphan")
  /\ UNCHANGED <<clusterVars, sessions>>

OrphanApplied(q) ==
  /\ pc[q] = "orphan"
  /\ VersionMatches(q)
  /\ SetLabel(target[q], CharacterOf(q), "Allocated")
  /\ pc' = [pc EXCEPT ![q] = "done"]
  /\ UNCHANGED <<outcome, target, seen, since, flight, sharedVars>>

OrphanDropped(q) ==
  /\ pc[q] = "orphan"
  /\ pc' = [pc EXCEPT ![q] = "done"]
  /\ UNCHANGED <<clusterVars, outcome, target, seen, since, flight, sharedVars>>

\* upsert_multi_port and the answer: the last step of the function.
InstallRoute(q) ==
  /\ pc[q] \in {"written", "route"}
  /\ sessions' = [sessions EXCEPT ![DirectorOf(q)][Request[q].client] = target[q]]
  /\ Return(q, "Success", "done")
  /\ UNCHANGED clusterVars

-----------------------------------------------------------------------------
(* The capacity controller's answer, the clock, and the process *)

PostAnswered(f) ==
  /\ Live(f)
  /\ accepted[f] = "pending"
  /\ \E result \in {"ok"} \cup (IF "refuse" \in Faults THEN {"error"} ELSE {}) :
       accepted' = [accepted EXCEPT ![f] = result]
  /\ UNCHANGED <<clusterVars, taskVars, assignments, flights, expired, sessions>>

DeadlinePasses(f) ==
  /\ "deadline" \in Faults
  /\ Live(f)
  /\ ~expired[f]
  /\ expired' = [expired EXCEPT ![f] = TRUE]
  /\ UNCHANGED <<clusterVars, taskVars, assignments, flights, accepted, sessions>>

\* The process dies and a new one takes its place: connections, lock,
\* flights and routes are gone; a patch already sent is not.
Crash(d) ==
  LET running == {q \in Queries : DirectorOf(q) = d /\ pc[q] \notin {"idle", "orphan", "done"}}
  IN /\ "crash" \in Faults
     /\ pc' = [q \in Queries |-> IF q \notin running THEN pc[q]
                                 ELSE IF pc[q] = "patch" THEN "orphan" ELSE "done"]
     /\ outcome' = [q \in Queries |-> IF q \in running THEN "Lost" ELSE outcome[q]]
     /\ flight' = [q \in Queries |-> IF q \in running THEN NoQuery ELSE flight[q]]
     /\ assignments' = [assignments EXCEPT ![d] = NoQuery]
     /\ flights' = [flights EXCEPT ![d] = [g \in Groups |-> NoQuery]]
     /\ sessions' = [sessions EXCEPT ![d] = [c \in Clients |-> NoPod]]
     /\ UNCHANGED <<clusterVars, target, seen, since, accepted, expired>>

\* The session table serves packets too: a client's first packet may leave a
\* default session there, over a route even, and cleanup_loop drops what is idle.
RouteTaken(d, c) ==
  /\ "routeTaken" \in Faults
  /\ \E p \in Pods \cup {NoPod} : sessions' = [sessions EXCEPT ![d][c] = p]
  /\ UNCHANGED <<clusterVars, taskVars, assignments, flights, accepted, expired>>

QueryStep(q) ==
  \/ Submit(q) \/ LockAssignments(q) \/ Select(q)
  \/ NoServerAvailable(q) \/ StartColdWait(q)
  \/ DemandAccepted(q) \/ DemandRefused(q)
  \/ WatchReturns(q) \/ RelockAssignments(q)
  \/ StartupTimeout(q) \/ ClientLeaves(q) \/ ReadFails(q)
  \/ AllocateCharacter(q) \/ AllocateConflict(q) \/ AllocateUnanswered(q)
  \/ OrphanApplied(q) \/ OrphanDropped(q) \/ InstallRoute(q)
  \/ PostAnswered(q) \/ DeadlinePasses(q)

EnvironmentStep == Environment /\ UNCHANGED <<taskVars, sharedVars>>

Next ==
  \/ EnvironmentStep
  \/ \E q \in Queries : QueryStep(q)
  \/ \E d \in Directors : Crash(d)
  \/ \E d \in Directors, c \in Clients : RouteTaken(d, c)

Spec == Init /\ [][Next]_vars

-----------------------------------------------------------------------------
(* Fairness.  A task that can run is run (tokio), every Kubernetes call is  *)
(* answered in the end, a watch delivers what happened, and the assignment  *)
(* lock is handed out in the order it was asked for (tokio's Mutex is       *)
(* FIFO), so no waiter is passed over for ever.  Nothing is assumed of      *)
(* clients, controllers or the clock, nor that a silent watch ever ends.    *)

Advance(q) ==
  \/ Select(q) \/ NoServerAvailable(q) \/ StartColdWait(q)
  \/ DemandAccepted(q) \/ DemandRefused(q)
  \/ AllocateCharacter(q) \/ AllocateConflict(q) \/ InstallRoute(q)

ServerFairness ==
  \A q \in Queries :
    /\ WF_vars(Advance(q)) /\ WF_vars(StartupTimeout(q))
    /\ WF_vars(PodChanged(q) /\ WatchReturns(q))
    /\ SF_vars(LockAssignments(q)) /\ SF_vars(RelockAssignments(q))

FairSpec == Spec /\ ServerFairness

-----------------------------------------------------------------------------
(* Properties *)

\* Whatever list, lock, patch and controllers interleave, each step of the
\* director is an atomic assignment or changes no Pod (process_access and
\* allocate_character: "an intervening drain update makes that patch fail").
ImplementsAssignment == AssignmentSpec

\* What a query concluded from its list is still true whenever its label write
\* can take effect: the version guard stands in for every check it made.
ListStillTrue ==
  \A q \in Queries : pc[q] \in {"patch", "orphan"} /\ VersionMatches(q) =>
    /\ Serving(target[q])
    /\ pods[target[q]].label[CharacterOf(q)] # "Used"
    /\ Cardinality(CharactersOn(target[q]) \ {CharacterOf(q)}) < MaxCharactersPerServer

\* A connected player is never demoted: a Used label leaves Used only by the
\* player disconnecting or the Pod going ("A repeated query must not demote
\* an actual connected player").
UsedNeverDemoted ==
  [][\A p \in Pods, c \in Characters :
       pods[p].label[c] = "Used" =>
         \/ pods'[p].label[c] \in {"Used", "Disconnected"}
         \/ pods'[p].phase = "absent"]_vars

\* One director never places a character on two servers of a map: selection
\* and label write are serialized by the assignment lock, each on a fresh list.
\* It can where a server stops or drains under its players (a drained one is no
\* candidate, so the next query goes elsewhere), where a patch was applied whose
\* answer was lost, and with several directors.
OneServerPerCharacter ==
  \A c \in Characters, a, b \in Pods :
    c \in CharactersOn(a) /\ c \in CharactersOn(b) /\ MapOf[a] = MapOf[b] => a = b

\* "Allocated means the character assignment and forwarding route are ready": a
\* query answers Success in the step that leads its client's route to a Pod of the
\* map that carries its character's label, although list, label write and route
\* are awaits apart.  Neither is promised for later: the route may be dropped or
\* overwritten, the label removed.
SuccessMeansReady ==
  [][\A q \in Queries : outcome[q] # "Success" /\ outcome'[q] = "Success" =>
       LET p == sessions'[DirectorOf(q)][Request[q].client]
       IN p \in Listed(q) /\ pods'[p].label[CharacterOf(q)] # "None"]_vars

\* A cold wait cannot sleep on capacity: while no Pod of the map has been
\* written since the last list, none could be selected.  A label whose window
\* has passed still fills its place here: the clock wakes nobody, the
\* controller's removal of the label does (query_resources_snapshot: "cold-
\* start watches cannot miss a readiness change").
RoomEvenIfExpiredCounted(q, p) ==
  \/ CharacterOf(q) \in CharactersOn(p)
  \/ Cardinality({c \in Characters : pods[p].label[c] # "None"}) < MaxCharactersPerServer

NoMissedWakeup ==
  \A q \in Queries : pc[q] \in {"post", "watch"} /\ ~PodChanged(q) =>
    \A p \in Listed(q) : ~(Serving(p) /\ RoomEvenIfExpiredCounted(q, p))

\* The assignment lock is held by the query that lists, selects, writes or
\* routes and by nobody else: no error, deadline, client that leaves, crash or
\* cold wait loses it or leaves it taken ("Serialize local selection and label
\* writes using a fresh Pod snapshot").
Critical == {"list", "relist", "patch", "written", "route"}

LockAccounted ==
  \A d \in Directors, q \in Queries :
    assignments[d] = q <=> DirectorOf(q) = d /\ pc[q] \in Critical

\* Cold queries of one director and group share one flight, hence one POST
\* and one deadline, however they come and go (CapacityDemand::signal).
FlightShared ==
  \A a, b \in Queries :
    /\ flight[a] # NoQuery /\ flight[b] # NoQuery
    /\ DirectorOf(a) = DirectorOf(b) /\ GroupOfQuery(a) = GroupOfQuery(b)
    => flight[a] = flight[b]

\* The clock reaches every deadline.
DeadlinesPass == \A f \in Queries : WF_vars(DeadlinePasses(f))

\* Every query is answered, at the latest at its startup deadline.
EveryQueryAnswered ==
  DeadlinesPass => \A q \in Queries : pc[q] = "lock" ~> outcome[q] # "None"

ExpiredOn(p) == {c \in Characters : pods[p].label[c] = "Expired"}

\* The controller removes the labels whose window has passed.  (Bound: where one
\* is left, the environment has not used up its writes.)
ExpiredRemoved ==
  /\ [](\A p \in Pods : ExpiredOn(p) = {} \/ revision < MaxRevision)
  /\ \A p \in Pods, c \in Characters :
       WF_vars(RemoveExpired(p, c) /\ UNCHANGED <<taskVars, sharedVars>>)

\* A place that a reconnect window kept does not leave a cold query asleep until
\* its deadline: no Pod event tells that the window has passed, the removal of
\* the label does.
ExpiredPlaceWakes ==
  ExpiredRemoved /\ [](\A f \in Queries : ~expired[f]) => \A q \in Queries :
    (pc[q] = "watch" /\ \E p \in Listed(q) : ExpiredOn(p) # {}) ~> pc[q] # "watch"

\* "Startup waits must not block other assignments": a query whose map keeps
\* room is served although other maps stay cold for ever.
HotQueriesServed ==
  \A q \in Queries :
    pc[q] = "lock" /\ [](Eligible(q) # {} \/ pc[q] = "done") ~> outcome[q] = "Success"

\* The controller answers every POST and what is starting becomes ready.
StartsUp ==
  /\ \A f \in Queries : WF_vars(PostAnswered(f))
  /\ \A p \in Pods : WF_vars(BecomeReady(p) /\ UNCHANGED <<taskVars, sharedVars>>)

\* "Players waiting for the same starting server can all receive
\* assignments": once it has started, none of the waiters has lost to another
\* one's label write.
WaitersAllServed ==
  StartsUp => \A q \in Queries : pc[q] = "lock" ~> outcome[q] = "Success"
=============================================================================
