--------------------------- MODULE ColdWait_proofs ---------------------------
(***************************************************************************)
(* What holds of the tasks of QueryServer among themselves, for any number *)
(* of directors, queries and Pods and whatever fails: the assignment lock  *)
(* is never lost nor left behind, the cold queries of a group share one    *)
(* flight, and none of them sleeps on capacity.                            *)
(***************************************************************************)
EXTENDS QueryServer_proofs

\* A query's own state.
Same(r) ==
  /\ pc'[r] = pc[r] /\ outcome'[r] = outcome[r] /\ target'[r] = target[r]
  /\ seen'[r] = seen[r] /\ since'[r] = since[r] /\ flight'[r] = flight[r]

OthersSame(q) == \A r \in Queries \ {q} : Same(r)

\* Joining or starting a flight changes the flight of one query only.
LEMMA JoinFlightOthers ==
  ASSUME TypeOK, NEW q \in Queries, JoinFlight(q)
  PROVE  \A r \in Queries \ {q} : flight'[r] = flight[r]
BY DEF JoinFlight, Signal, TypeOK

\* A query's step changes no other query.
LEMMA OthersStaySame ==
  ASSUME TypeOK, NEW q \in Queries, QueryStep(q)
  PROVE  OthersSame(q)
<1> USE DEF OthersSame, Same, TypeOK
<1>1. CASE Submit(q) \/ DemandAccepted(q) \/ WatchReturns(q) \/ OrphanDropped(q)
  BY <1>1 DEF Submit, DemandAccepted, WatchReturns, OrphanDropped
<1>2. CASE LockAssignments(q) \/ RelockAssignments(q)
  BY <1>2 DEF LockAssignments, RelockAssignments, Lock
<1>3. CASE Select(q)
  BY <1>3 DEF Select
<1>4. CASE \E result \in Outcomes : Answer(q, result)
  BY <1>4 DEF Answer, Return
<1>5. CASE StartColdWait(q)
  BY <1>5, JoinFlightOthers DEF StartColdWait, ColdWait
<1>6. CASE AllocateCharacter(q) \/ OrphanApplied(q)
  BY <1>6 DEF AllocateCharacter, OrphanApplied
<1>7. CASE AllocateUnanswered(q) \/ InstallRoute(q)
  BY <1>7 DEF AllocateUnanswered, InstallRoute, Return
<1>8. CASE PostAnswered(q) \/ DeadlinePasses(q)
  BY <1>8 DEF PostAnswered, DeadlinePasses, taskVars
<1> QED
  BY <1>1, <1>2, <1>3, <1>4, <1>5, <1>6, <1>7, <1>8
     DEF QueryStep, NoServerAvailable, DemandRefused, StartupTimeout, ClientLeaves,
         ReadFails, AllocateConflict, Outcomes

-----------------------------------------------------------------------------
(* The assignment lock *)

\* What a step of a query is to the lock: taken, kept, given back, or none of
\* its business.
LEMMA LockKinds ==
  ASSUME TypeOK, NEW q \in Queries, QueryStep(q)
  PROVE  \/ /\ LockFree(DirectorOf(q)) /\ pc[q] \notin Critical /\ pc'[q] \in Critical
            /\ assignments' = [assignments EXCEPT ![DirectorOf(q)] = q]
         \/ /\ pc'[q] \notin Critical /\ assignments' = Released(q)
         \/ /\ assignments' = assignments
            /\ pc[q] \in Critical <=> pc'[q] \in Critical
<1> USE DEF TypeOK, Critical, Waiting
<1>1. CASE Submit(q) \/ DemandAccepted(q) \/ WatchReturns(q) \/ OrphanDropped(q)
  BY <1>1 DEF Submit, DemandAccepted, WatchReturns, OrphanDropped, sharedVars
<1>2. CASE LockAssignments(q) \/ RelockAssignments(q)
  BY <1>2 DEF LockAssignments, RelockAssignments, Lock
<1>3. CASE Select(q)
  BY <1>3 DEF Select, sharedVars
<1>4. CASE \E result \in Outcomes : Answer(q, result)
  BY <1>4 DEF Answer, Return
<1>5. CASE StartColdWait(q)
  BY <1>5 DEF StartColdWait, ColdWait
<1>6. CASE AllocateCharacter(q) \/ OrphanApplied(q)
  BY <1>6 DEF AllocateCharacter, OrphanApplied, sharedVars
<1>7. CASE AllocateUnanswered(q) \/ InstallRoute(q)
  BY <1>7 DEF AllocateUnanswered, InstallRoute, Return
<1>8. CASE PostAnswered(q) \/ DeadlinePasses(q)
  BY <1>8 DEF PostAnswered, DeadlinePasses, taskVars
<1> QED
  BY <1>1, <1>2, <1>3, <1>4, <1>5, <1>6, <1>7, <1>8
     DEF QueryStep, NoServerAvailable, DemandRefused, StartupTimeout, ClientLeaves,
         ReadFails, AllocateConflict, Outcomes

\* A step of a query keeps the account of the lock.
LEMMA QueryStepAccounts ==
  ASSUME TypeOK, LockAccounted, NEW q \in Queries, QueryStep(q)
  PROVE  LockAccounted'
<1> SUFFICES ASSUME NEW d \in Directors, NEW r \in Queries
             PROVE  assignments'[d] = r <=> DirectorOf(r) = d /\ pc'[r] \in Critical
  BY DEF LockAccounted, DirectorOf
<1> DEFINE e == DirectorOf(q)
<1>1. /\ e \in Directors /\ NoQuery \notin Queries
      /\ assignments \in [Directors -> Queries \cup {NoQuery}]
  BY RequestType, QueryServerAssumption DEF TypeOK
<1>2. r # q => pc'[r] = pc[r]
  BY OthersStaySame DEF OthersSame, Same
<1>3. /\ assignments[d] = r <=> DirectorOf(r) = d /\ pc[r] \in Critical
      /\ assignments[e] = q <=> pc[q] \in Critical
      /\ assignments[e] = r <=> DirectorOf(r) = e /\ pc[r] \in Critical
      /\ assignments[d] = q <=> e = d /\ pc[q] \in Critical
  BY <1>1 DEF LockAccounted
<1> HIDE DEF e
<1>4. CASE /\ LockFree(e) /\ pc[q] \notin Critical /\ pc'[q] \in Critical
           /\ assignments' = [assignments EXCEPT ![e] = q]
  BY <1>1, <1>2, <1>3, <1>4 DEF LockFree, e
<1>5. CASE pc'[q] \notin Critical /\ assignments' = Released(q)
  <2>1. assignments' = [assignments EXCEPT ![e] = IF assignments[e] = q THEN NoQuery
                                                  ELSE assignments[e]]
    BY <1>5 DEF Released, e
  <2> QED BY <1>1, <1>2, <1>3, <1>5, <2>1 DEF e
<1>6. CASE assignments' = assignments /\ (pc[q] \in Critical <=> pc'[q] \in Critical)
  BY <1>2, <1>3, <1>6
<1> QED BY <1>4, <1>5, <1>6, LockKinds DEF e

\* The process takes its lock with it.
LEMMA CrashAccounts ==
  ASSUME TypeOK, LockAccounted, NEW d \in Directors, Crash(d)
  PROVE  LockAccounted'
<1> SUFFICES ASSUME NEW e \in Directors, NEW r \in Queries
             PROVE  assignments'[e] = r <=> DirectorOf(r) = e /\ pc'[r] \in Critical
  BY DEF LockAccounted, DirectorOf
<1>1. /\ assignments' = [assignments EXCEPT ![d] = NoQuery]
      /\ assignments \in [Directors -> Queries \cup {NoQuery}] /\ NoQuery \notin Queries
  BY QueryServerAssumption DEF Crash, TypeOK
<1>2. assignments[e] = r <=> DirectorOf(r) = e /\ pc[r] \in Critical
  BY DEF LockAccounted
<1>3. CASE DirectorOf(r) # d
  <2>1. pc'[r] = pc[r]
    BY <1>3 DEF Crash
  <2> QED BY <1>1, <1>2, <1>3, <2>1
<1>4. CASE DirectorOf(r) = d
  <2>1. pc'[r] \notin Critical
    BY <1>4 DEF Crash, Critical
  <2> QED BY <1>1, <1>2, <1>4, <2>1
<1> QED BY <1>3, <1>4

\* The account of the lock is inductive, given types.
LEMMA AccountKept == TypeOK /\ LockAccounted /\ [Next]_vars => LockAccounted'
<1> SUFFICES ASSUME TypeOK, LockAccounted, [Next]_vars PROVE LockAccounted'
  OBVIOUS
<1>1. CASE EnvironmentStep
  BY <1>1 DEF EnvironmentStep, LockAccounted, taskVars, sharedVars, DirectorOf
<1>2. CASE UNCHANGED vars \/ \E d \in Directors, c \in Clients : RouteTaken(d, c)
  BY <1>2 DEF vars, RouteTaken, LockAccounted, taskVars, sharedVars, DirectorOf
<1> QED BY <1>1, <1>2, QueryStepAccounts, CrashAccounts DEF Next

\* Whatever fails in process_access, the guard of the assignment lock is dropped
\* with the query, and for a cold wait, and not before.
THEOREM LockAlwaysAccounted == Spec => []LockAccounted
<1>1. Init => LockAccounted
  BY QueryServerAssumption DEF Init, LockAccounted, Critical
<1> QED BY <1>1, AccountKept, TypeCorrect, PTL DEF Spec

\* Two queries of one director never list, select, write or route at a time.
LEMMA MutualExclusion ==
  ASSUME LockAccounted, NEW a \in Queries, NEW b \in Queries, DirectorOf(a) = DirectorOf(b),
         pc[a] \in Critical, pc[b] \in Critical
  PROVE  a = b
BY RequestType DEF LockAccounted

-----------------------------------------------------------------------------
(* The flights of capacity demand *)

\* A flight that a query keeps alive is the one registered for its group.
Registered ==
  \A q \in Queries : flight[q] # NoQuery =>
    flights[DirectorOf(q)][GroupOfQuery(q)] = flight[q]

\* A query has a flight from its cold wait to its end.
ColdHasFlight ==
  \A q \in Queries :
    /\ pc[q] \in {"idle", "lock", "list", "orphan", "done"} => flight[q] = NoQuery
    /\ pc[q] \in Waiting => flight[q] # NoQuery

\* What a step of a query is to its flight: dropped at the end, joined for a cold
\* wait, or kept.
LEMMA FlightKinds ==
  ASSUME TypeOK, NEW q \in Queries, QueryStep(q)
  PROVE  \/ /\ pc'[q] \in {"orphan", "done"} /\ flight'[q] = NoQuery /\ flights' = flights
         \/ /\ JoinFlight(q) /\ pc'[q] = "post"
         \/ /\ flights' = flights /\ flight'[q] = flight[q]
            /\ pc'[q] \in {"idle", "lock", "list", "orphan", "done"}
                 => pc[q] \in {"idle", "lock", "list", "orphan", "done"}
            /\ pc'[q] \in Waiting => pc[q] \in Waiting
<1> USE DEF TypeOK, Waiting
<1>1. CASE Submit(q) \/ DemandAccepted(q) \/ WatchReturns(q) \/ OrphanDropped(q)
  BY <1>1 DEF Submit, DemandAccepted, WatchReturns, OrphanDropped, sharedVars
<1>2. CASE LockAssignments(q) \/ RelockAssignments(q)
  BY <1>2 DEF LockAssignments, RelockAssignments, Lock
<1>3. CASE Select(q)
  BY <1>3 DEF Select, sharedVars
<1>4. CASE \E result \in Outcomes : Answer(q, result)
  BY <1>4 DEF Answer, Return
<1>5. CASE StartColdWait(q)
  BY <1>5 DEF StartColdWait, ColdWait
<1>6. CASE AllocateCharacter(q) \/ OrphanApplied(q)
  BY <1>6 DEF AllocateCharacter, OrphanApplied, sharedVars
<1>7. CASE AllocateUnanswered(q) \/ InstallRoute(q)
  BY <1>7 DEF AllocateUnanswered, InstallRoute, Return
<1>8. CASE PostAnswered(q) \/ DeadlinePasses(q)
  BY <1>8 DEF PostAnswered, DeadlinePasses, taskVars
<1> QED
  BY <1>1, <1>2, <1>3, <1>4, <1>5, <1>6, <1>7, <1>8
     DEF QueryStep, NoServerAvailable, DemandRefused, StartupTimeout, ClientLeaves,
         ReadFails, AllocateConflict, Outcomes

\* signal forgets only flights nobody holds, so that the one it returns is the
\* only one of the group that anybody holds.
LEMMA JoinRegisters ==
  ASSUME TypeOK, Registered, NEW q \in Queries, JoinFlight(q)
  PROVE  Registered' /\ flight'[q] # NoQuery
<1> DEFINE d == DirectorOf(q)
           g == GroupOfQuery(q)
           kept == [h \in Groups |-> IF Live(flights[d][h]) THEN flights[d][h] ELSE NoQuery]
<1>1. /\ d \in Directors /\ g \in Groups /\ NoQuery \notin Queries
      /\ flight \in [Queries -> Queries \cup {NoQuery}]
      /\ flights \in [Directors -> [Groups -> Queries \cup {NoQuery}]]
  BY RequestType, QueryServerAssumption DEF TypeOK
<1>2. CASE flight[q] # NoQuery
  BY <1>2 DEF JoinFlight, Registered, DirectorOf, GroupOfQuery
<1>3. CASE flight[q] = NoQuery
  <2>1. Signal(q)
    BY <1>3 DEF JoinFlight
  <2>2. \A r \in Queries : flight[r] # NoQuery =>
          /\ DirectorOf(r) \in Directors /\ GroupOfQuery(r) \in Groups
          /\ flights[DirectorOf(r)][GroupOfQuery(r)] = flight[r] /\ Live(flight[r])
    BY <1>1, RequestType DEF Registered, Live
  <2>3. \A r \in Queries : flight[r] # NoQuery /\ DirectorOf(r) = d =>
          kept[GroupOfQuery(r)] = flight[r]
    BY <2>2
  <2>4. kept \in [Groups -> Queries \cup {NoQuery}]
    BY <1>1
  <2>5. PICK f \in Queries, own \in [Groups -> Queries \cup {NoQuery}] :
          /\ flights' = [flights EXCEPT ![d] = own]
          /\ flight' = [flight EXCEPT ![q] = f]
          /\ own[g] = f
          /\ \A h \in Groups : kept[h] # NoQuery => own[h] = kept[h]
    <3>1. CASE kept[g] # NoQuery
      <4>1. /\ flights' = [flights EXCEPT ![d] = kept]
            /\ flight' = [flight EXCEPT ![q] = kept[g]]
            /\ kept[g] \in Queries
        BY <1>1, <2>1, <2>4, <3>1 DEF Signal
      <4> QED BY <2>4, <4>1
    <3>2. CASE kept[g] = NoQuery
      <4>1. /\ flights' = [flights EXCEPT ![d] = [kept EXCEPT ![g] = q]]
            /\ flight' = [flight EXCEPT ![q] = q]
        BY <2>1, <3>2 DEF Signal
      <4>2. /\ [kept EXCEPT ![g] = q] \in [Groups -> Queries \cup {NoQuery}]
            /\ [kept EXCEPT ![g] = q][g] = q
            /\ \A h \in Groups : kept[h] # NoQuery => [kept EXCEPT ![g] = q][h] = kept[h]
        BY <1>1, <2>4, <3>2
      <4> QED BY <4>1, <4>2
    <3> QED BY <3>1, <3>2
  <2> HIDE DEF kept, d, g
  <2>6. ASSUME NEW r \in Queries, flight'[r] # NoQuery
        PROVE  flights'[DirectorOf(r)][GroupOfQuery(r)] = flight'[r]
    <3>1. CASE r = q
      BY <1>1, <2>5, <3>1 DEF d, g
    <3>2. CASE r # q
      <4>1. flight'[r] = flight[r]
        BY <1>1, <2>5, <3>2
      <4>2. CASE DirectorOf(r) = d
        <5>1. kept[GroupOfQuery(r)] = flight[r] /\ GroupOfQuery(r) \in Groups
          BY <2>2, <2>3, <2>6, <4>1, <4>2
        <5>2. flights'[d] = own
          BY <1>1, <2>5
        <5> QED BY <2>5, <2>6, <4>1, <4>2, <5>1, <5>2
      <4>3. CASE DirectorOf(r) # d
        <5>1. flights'[DirectorOf(r)] = flights[DirectorOf(r)]
          BY <1>1, <2>2, <2>5, <2>6, <4>1, <4>3
        <5> QED BY <2>2, <2>6, <4>1, <5>1
      <4> QED BY <4>2, <4>3
    <3> QED BY <3>1, <3>2
  <2>7. flight'[q] # NoQuery
    BY <1>1, <2>5
  <2> QED BY <2>6, <2>7 DEF Registered, DirectorOf, GroupOfQuery
<1> QED BY <1>2, <1>3

\* A step of a query keeps the register.
LEMMA QueryStepRegisters ==
  ASSUME TypeOK, Registered, ColdHasFlight, NEW q \in Queries, QueryStep(q)
  PROVE  Registered' /\ ColdHasFlight'
<1>1. \A r \in Queries \ {q} : pc'[r] = pc[r] /\ flight'[r] = flight[r]
  BY OthersStaySame DEF OthersSame, Same
<1>2. CASE pc'[q] \in {"orphan", "done"} /\ flight'[q] = NoQuery /\ flights' = flights
  BY <1>1, <1>2 DEF Registered, ColdHasFlight, Waiting, DirectorOf, GroupOfQuery
<1>3. CASE JoinFlight(q) /\ pc'[q] = "post"
  BY <1>1, <1>3, JoinRegisters DEF ColdHasFlight
<1>4. CASE /\ flights' = flights /\ flight'[q] = flight[q]
           /\ pc'[q] \in {"idle", "lock", "list", "orphan", "done"}
                => pc[q] \in {"idle", "lock", "list", "orphan", "done"}
           /\ pc'[q] \in Waiting => pc[q] \in Waiting
  <2>1. \A r \in Queries : flight'[r] = flight[r]
    BY <1>1, <1>4
  <2>2. Registered'
    BY <1>4, <2>1 DEF Registered, DirectorOf, GroupOfQuery
  <2> QED BY <1>1, <1>4, <2>1, <2>2 DEF ColdHasFlight
<1> QED BY <1>2, <1>3, <1>4, FlightKinds

\* A crash drops the flights of its director's queries and their register.
LEMMA CrashRegisters ==
  ASSUME TypeOK, Registered, ColdHasFlight, NEW d \in Directors, Crash(d)
  PROVE  Registered' /\ ColdHasFlight'
<1>1. ASSUME NEW r \in Queries, DirectorOf(r) = d
      PROVE  flight'[r] = NoQuery /\ pc'[r] \in {"idle", "orphan", "done"}
  BY <1>1 DEF Crash, ColdHasFlight
<1>2. ASSUME NEW r \in Queries, DirectorOf(r) # d
      PROVE  /\ flight'[r] = flight[r] /\ pc'[r] = pc[r]
             /\ flights'[DirectorOf(r)] = flights[DirectorOf(r)]
  BY <1>2, RequestType DEF Crash, TypeOK
<1>3. Registered'
  BY <1>1, <1>2 DEF Registered, DirectorOf, GroupOfQuery
<1>4. ColdHasFlight'
  BY <1>1, <1>2 DEF ColdHasFlight, Waiting
<1> QED BY <1>3, <1>4

\* Nothing else touches flights.
LEMMA RegisteredKept ==
  TypeOK /\ Registered /\ ColdHasFlight /\ [Next]_vars => Registered' /\ ColdHasFlight'
<1> SUFFICES ASSUME TypeOK, Registered, ColdHasFlight, [Next]_vars
             PROVE  Registered' /\ ColdHasFlight'
  OBVIOUS
<1>1. CASE \/ EnvironmentStep \/ UNCHANGED vars
           \/ \E d \in Directors, c \in Clients : RouteTaken(d, c)
  BY <1>1 DEF EnvironmentStep, vars, RouteTaken, taskVars, sharedVars, Registered,
              ColdHasFlight, DirectorOf, GroupOfQuery
<1> QED BY <1>1, QueryStepRegisters, CrashRegisters DEF Next

\* Both hold in every reachable state.
LEMMA FlightsRegistered == Spec => [](Registered /\ ColdHasFlight)
<1>1. Init => Registered /\ ColdHasFlight
  BY DEF Init, Registered, ColdHasFlight, Waiting
<1> QED BY <1>1, RegisteredKept, TypeCorrect, PTL DEF Spec

\* The cold queries of one director and group hold one flight: CapacityDemand::signal
\* never starts a second POST or a second deadline beside a flight in use.
THEOREM FlightAlwaysShared == Spec => []FlightShared
<1>1. Registered => FlightShared
  BY DEF Registered, FlightShared
<1> QED BY <1>1, FlightsRegistered, PTL

-----------------------------------------------------------------------------
(* No missed wake-up *)

\* No query has listed a version that has not been given out.
SinceKnown == \A q \in Queries : since[q] <= revision

\* A Pod as a cold wait sees it: a version it keeps means that no place came free,
\* but for labels whose window has passed.
NoRoomGained(p) ==
  /\ pods'[p].version = pods[p].version
  /\ Serving(p)' => Serving(p)
  /\ CharactersOn(p)' \subseteq CharactersOn(p)
  /\ \A c \in Characters : pods'[p].label[c] # "None" <=> pods[p].label[c] # "None"

NewVersion(p) == pods'[p].version = revision + 1 /\ revision' = revision + 1

\* A store gives its Pod a new version and leaves the others alone.
LEMMA StoreWakes ==
  ASSUME ClusterTypeOK, NEW t \in Pods, NEW object \in Pod, Store(t, object),
         NEW p \in Pods
  PROVE  NoRoomGained(p) \/ NewVersion(p)
<1>1. CASE UNCHANGED clusterVars
  BY <1>1 DEF clusterVars, NoRoomGained, Serving, CharactersOn
<1>2. CASE /\ revision' = revision + 1
           /\ pods' = [pods EXCEPT ![t] = [object EXCEPT !.version = revision + 1]]
  <2>1. [object EXCEPT !.version = revision + 1].version = revision + 1
    BY DEF Pod
  <2>2. pods'[p] = IF p = t THEN [object EXCEPT !.version = revision + 1] ELSE pods[p]
    BY <1>2 DEF ClusterTypeOK
  <2> QED BY <1>2, <2>1, <2>2 DEF NoRoomGained, NewVersion, Serving, CharactersOn
<1> QED BY <1>1, <1>2 DEF Store

\* Whoever moves the cluster, a Pod that gains room gets a new version.
LEMMA RoomWakes ==
  ASSUME ClusterTypeOK, [AssignmentNext]_clusterVars, NEW p \in Pods
  PROVE  NoRoomGained(p) \/ NewVersion(p)
<1>1. CASE EnvironmentWrite
  BY <1>1, StoreWakes DEF EnvironmentWrite
<1>2. ASSUME NEW gone \in [Pods -> SUBSET Characters], WindowsPass(gone)
      PROVE  NoRoomGained(p)
  BY <1>2, WindowsPassEffect DEF NoRoomGained, Serving, CharactersOn, VisibleLabels
<1>3. ASSUME NEW t \in Pods, NEW c \in Characters, Assign(t, c)
      PROVE  NoRoomGained(p) \/ NewVersion(p)
  <2>1. [pods[t] EXCEPT !.label[c] = "Allocated"] \in Pod
    BY DEF ClusterTypeOK, Pod, Labels
  <2> QED BY <1>3, <2>1, StoreWakes DEF Assign, SetLabel
<1>4. CASE UNCHANGED clusterVars
  BY <1>4 DEF clusterVars, NoRoomGained, Serving, CharactersOn
<1> QED BY <1>1, <1>2, <1>3, <1>4, EnvironmentWrites DEF AssignmentNext

\* A query sleeps because it slept before, with the version of the same list, or
\* because its list had nothing for it.
LEMMA WhoSleeps ==
  ASSUME TypeOK, [Next]_vars, NEW q \in Queries
  PROVE  \/ StartColdWait(q) /\ since'[q] = revision
         \/ /\ since'[q] = since[q]
            /\ pc'[q] \in {"post", "watch"} => pc[q] \in {"post", "watch"}
<1>1. ASSUME NEW r \in Queries, QueryStep(r), r # q
      PROVE  since'[q] = since[q] /\ pc'[q] = pc[q]
  BY <1>1, OthersStaySame DEF OthersSame, Same
<1>2. CASE StartColdWait(q)
  BY <1>2 DEF StartColdWait, ColdWait, TypeOK
<1>3. CASE QueryStep(q) /\ ~StartColdWait(q)
  <2> USE DEF TypeOK
  <2>1. CASE Submit(q) \/ DemandAccepted(q) \/ WatchReturns(q) \/ OrphanDropped(q)
    BY <2>1 DEF Submit, DemandAccepted, WatchReturns, OrphanDropped
  <2>2. CASE LockAssignments(q) \/ RelockAssignments(q)
    BY <2>2 DEF LockAssignments, RelockAssignments, Lock
  <2>3. CASE Select(q)
    BY <2>3 DEF Select
  <2>4. CASE \E result \in Outcomes : Answer(q, result)
    BY <2>4 DEF Answer, Return
  <2>5. CASE AllocateCharacter(q) \/ OrphanApplied(q)
    BY <2>5 DEF AllocateCharacter, OrphanApplied
  <2>6. CASE AllocateUnanswered(q) \/ InstallRoute(q)
    BY <2>6 DEF AllocateUnanswered, InstallRoute, Return
  <2>7. CASE PostAnswered(q) \/ DeadlinePasses(q)
    BY <2>7 DEF PostAnswered, DeadlinePasses, taskVars
  <2> QED
    BY <1>3, <2>1, <2>2, <2>3, <2>4, <2>5, <2>6, <2>7
       DEF QueryStep, NoServerAvailable, DemandRefused, StartupTimeout, ClientLeaves,
           ReadFails, AllocateConflict, Outcomes
<1>4. CASE \E d \in Directors : Crash(d)
  BY <1>4 DEF Crash, TypeOK
<1>5. CASE \/ EnvironmentStep \/ UNCHANGED vars
           \/ \E d \in Directors, c \in Clients : RouteTaken(d, c)
  BY <1>5 DEF EnvironmentStep, vars, RouteTaken, taskVars
<1> QED BY <1>1, <1>2, <1>3, <1>4, <1>5 DEF Next

\* Counting labels whose window has passed leaves less room, not more.
LEMMA RoomIsRoom ==
  ASSUME ClusterTypeOK, NEW q \in Queries, NEW p \in Pods, RoomEvenIfExpiredCounted(q, p)
  PROVE  HasRoom(p, CharacterOf(q))
<1> DEFINE labelled == {c \in Characters : pods[p].label[c] # "None"}
<1>1. CASE CharacterOf(q) \in CharactersOn(p)
  BY <1>1 DEF HasRoom
<1>2. CASE Cardinality(labelled) < MaxCharactersPerServer
  <2>1. IsFiniteSet(labelled) /\ CharactersOn(p) \in SUBSET labelled
    BY ClusterAssumption, FS_Subset DEF CharactersOn, VisibleLabels
  <2>2. /\ Cardinality(CharactersOn(p)) <= Cardinality(labelled)
        /\ Cardinality(CharactersOn(p)) \in Nat /\ Cardinality(labelled) \in Nat
    BY <2>1, FS_Subset, FS_CardinalityType
  <2> QED BY <1>2, <2>2, ClusterAssumption DEF HasRoom
<1> QED BY <1>1, <1>2 DEF RoomEvenIfExpiredCounted

\* What keeps its version has no more room for a query than it had.
LEMMA RoomStays ==
  ASSUME NEW q \in Queries, NEW p \in Pods, NoRoomGained(p), RoomEvenIfExpiredCounted(q, p)'
  PROVE  RoomEvenIfExpiredCounted(q, p)
<1>1. {c \in Characters : pods'[p].label[c] # "None"}
        = {c \in Characters : pods[p].label[c] # "None"}
  BY DEF NoRoomGained
<1> QED BY <1>1 DEF NoRoomGained, RoomEvenIfExpiredCounted, CharacterOf

\* No step lets a cold wait sleep on capacity.
LEMMA WakeupKept == IInv /\ SinceKnown /\ NoMissedWakeup /\ [Next]_vars => NoMissedWakeup'
<1> SUFFICES ASSUME IInv, SinceKnown, NoMissedWakeup, [Next]_vars,
                    NEW q \in Queries, pc'[q] \in {"post", "watch"}, ~PodChanged(q)',
                    NEW p \in Pods, p \in Listed(q),
                    Serving(p)', RoomEvenIfExpiredCounted(q, p)'
             PROVE  FALSE
  BY DEF NoMissedWakeup, Listed
<1>1. TypeOK /\ ClusterTypeOK /\ revision \in Nat /\ since[q] \in Nat /\ since[q] <= revision
  BY DEF IInv, TypeOK, ClusterTypeOK, SinceKnown
<1>2. CASE StartColdWait(q)
  <2>1. Eligible(q) = {} /\ UNCHANGED clusterVars
    BY <1>2 DEF StartColdWait, ColdWait
  <2>2. Serving(p) /\ RoomEvenIfExpiredCounted(q, p)
    BY <2>1 DEF clusterVars, Serving, RoomEvenIfExpiredCounted, CharactersOn, CharacterOf
  <2> QED BY <1>1, <2>1, <2>2, RoomIsRoom DEF Eligible
<1>3. CASE since'[q] = since[q] /\ pc[q] \in {"post", "watch"}
  <2>1. \A r \in Listed(q) : ~(pods'[r].version > since[q])
    BY <1>3 DEF PodChanged, Listed
  <2>2. \A r \in Listed(q) : NoRoomGained(r)
    <3> TAKE r \in Listed(q)
    <3>1. r \in Pods
      BY DEF Listed
    <3>2. ~NewVersion(r)
      BY <1>1, <2>1 DEF NewVersion
    <3> QED BY <1>1, <3>1, <3>2, RoomWakes, StepImplements
  <2>3. ~PodChanged(q)
    BY <2>1, <2>2 DEF PodChanged, NoRoomGained
  <2>4. Serving(p) /\ RoomEvenIfExpiredCounted(q, p)
    BY <2>2, RoomStays DEF NoRoomGained
  <2> QED BY <1>3, <2>3, <2>4 DEF NoMissedWakeup
<1> QED BY <1>1, <1>2, <1>3, WhoSleeps

\* Versions a query has listed stay given out.
LEMMA SinceKept == IInv /\ SinceKnown /\ [Next]_vars => SinceKnown'
<1> SUFFICES ASSUME IInv, SinceKnown, [Next]_vars, NEW q \in Queries
             PROVE  since'[q] <= revision'
  BY DEF SinceKnown
<1>1. TypeOK /\ TypeOK'
  BY NextType DEF IInv
<1>2. ClusterMoves
  <2>1. CASE Environment
    BY <1>1, <2>1, EnvironmentMoves DEF TypeOK
  <2>2. CASE \E t \in Pods, c \in Characters : Assign(t, c)
    BY <1>1, <2>2, SetLabelMoves DEF Assign, TypeOK
  <2>3. CASE UNCHANGED clusterVars
    BY <1>1, <2>3, StillMoves DEF TypeOK
  <2> QED BY <2>1, <2>2, <2>3, StepImplements DEF AssignmentNext
<1>3. /\ revision \in Nat /\ revision' \in Nat /\ revision <= revision'
      /\ since[q] \in Nat /\ since'[q] \in Nat /\ since[q] <= revision
  BY <1>1, <1>2 DEF TypeOK, ClusterTypeOK, ClusterMoves, SinceKnown
<1>4. since'[q] = since[q] \/ since'[q] = revision
  BY <1>1, WhoSleeps
<1> QED BY <1>3, <1>4

\* A cold query that is asleep has not missed anything: query_resources_snapshot
\* returns the version of its list, the watch starts from it, and every change
\* that makes room has a later one.
THEOREM NoWakeupMissed == Spec => []NoMissedWakeup
<1>1. Init => NoMissedWakeup /\ SinceKnown
  BY DEF Init, NoMissedWakeup, SinceKnown, ClusterInit
<1> QED BY <1>1, WakeupKept, SinceKept, Inductive, PTL DEF Spec
=============================================================================
