-------------------------- MODULE Placement_proofs --------------------------
(***************************************************************************)
(* What holds of the servers QueryServer places characters on: selection   *)
(* always names one of the eligible Pods and only one; one director never  *)
(* has a character on two servers of a map; and a Success stands for a     *)
(* label and a route.  The last two hold under conditions on what happens  *)
(* around the director; they are hypotheses of the theorems.               *)
(***************************************************************************)
EXTENDS ColdWait_proofs, WellFoundedInduction

-----------------------------------------------------------------------------
(* Selection *)

\* Somewhere a natural number is least.
LEMMA LeastMeasured ==
  ASSUME NEW S, S # {}, NEW f, \A s \in S : f[s] \in Nat
  PROVE  \E m \in S : \A s \in S : f[m] <= f[s]
<1> DEFINE T == {f[s] : s \in S}
<1>1. T \subseteq Nat /\ T # {}
  OBVIOUS
<1>2. PICK x \in T : \A y \in T : ~(<<y, x>> \in OpToRel(<, Nat))
  <2> HIDE DEF T
  <2> QED BY <1>1, WFMin, NatLessThanWellFounded, Zenon
<1>3. \A y \in T : ~(y < x)
  <2> HIDE DEF T
  <2> TAKE y \in T
  <2>1. <<y, x>> \in Nat \X Nat /\ <<y, x>>[1] = y /\ <<y, x>>[2] = x
    BY <1>1
  <2> QED BY <2>1, <1>2, Zenon DEF OpToRel
<1>4. PICK m \in S : x = f[m]
  OBVIOUS
<1>5. \A s \in S : f[m] <= f[s]
  <2> TAKE s \in S
  <2>1. f[s] \in T /\ f[s] \in Nat /\ f[m] \in Nat
    OBVIOUS
  <2>2. ~(f[s] < f[m])
    BY <1>3, <1>4, <2>1
  <2> QED BY <2>1, <2>2
<1> QED BY <1>5

\* The four parts of a sort key are numbers, the second one bounded below.
LEMMA KeyType ==
  ASSUME NEW q \in Queries, NEW p \in Pods
  PROVE  LET k == SortKey(q, p)
         IN /\ k[1] \in Nat /\ k[2] \in Int /\ k[3] \in Nat /\ k[4] \in Nat
            /\ k[1] = IF CharacterOf(q) \in CharactersOn(p) THEN 0 ELSE 1
            /\ k[2] + Cardinality(Characters) \in Nat
            /\ k[4] = UidRank[p]
<1> DEFINE met == CharactersOn(p) \cap Request[q].friends
<1>1. Cardinality(CharactersOn(p)) \in Nat
  BY OccupantsFinite, FS_CardinalityType
<1>2. met \in SUBSET Characters
  BY DEF CharactersOn
<1>3. /\ Cardinality(met) \in Nat /\ Cardinality(Characters) \in Nat
      /\ Cardinality(met) <= Cardinality(Characters)
  BY <1>2, ClusterAssumption, FS_Subset, FS_CardinalityType
<1>4. UidRank[p] \in Nat
  BY QueryServerAssumption
<1> QED BY <1>1, <1>3, <1>4 DEF SortKey

\* No two Pods sort before each other.
LEMMA SortsOneWay ==
  ASSUME NEW q \in Queries, NEW p \in Pods, NEW r \in Pods,
         SortsBefore(SortKey(q, p), SortKey(q, r))
  PROVE  ~SortsBefore(SortKey(q, r), SortKey(q, p))
<1> DEFINE a == SortKey(q, p)
           b == SortKey(q, r)
<1>1. \A i \in 1..4 : a[i] \in Int /\ b[i] \in Int
  BY KeyType
<1> HIDE DEF a, b
<1>2. SortsBefore(a, b)
  BY DEF a, b
<1>3. ~SortsBefore(b, a)
  BY <1>1, <1>2 DEF SortsBefore
<1> QED BY <1>3 DEF a, b

\* process_access never finds candidates and yet no first one, nor two: sorting by
\* assignment, friends, occupants and uid leaves exactly one Pod at the head.
THEOREM OneIsFirst ==
  ASSUME NEW q \in Queries, Eligible(q) # {}
  PROVE  \E p \in Pods : Selected(q, p) /\ \A r \in Pods : Selected(q, r) => r = p
<1> DEFINE E == Eligible(q)
           k(p) == SortKey(q, p)
           n == Cardinality(Characters)
           f1 == [p \in E |-> k(p)[1]]
           f2 == [p \in E |-> k(p)[2] + n]
           f3 == [p \in E |-> k(p)[3]]
           f4 == [p \in E |-> k(p)[4]]
<1>1. E \subseteq Pods /\ E # {} /\ n \in Nat
  BY ClusterAssumption, FS_CardinalityType DEF Eligible, Listed
<1>2. \A p \in E : /\ k(p)[1] \in Nat /\ k(p)[2] \in Int /\ k(p)[3] \in Nat /\ k(p)[4] \in Nat
                   /\ k(p)[2] + n \in Nat /\ k(p)[4] = UidRank[p]
  BY <1>1, KeyType
<1> HIDE DEF E, k, n
<1>3. PICK p1 \in E : \A s \in E : k(p1)[1] <= k(s)[1]
  <2>1. \A s \in E : f1[s] = k(s)[1] /\ f1[s] \in Nat
    BY <1>2
  <2> HIDE DEF f1
  <2>2. \E m \in E : \A s \in E : f1[m] <= f1[s]
    BY <1>1, <2>1, LeastMeasured
  <2> QED BY <2>1, <2>2
<1> DEFINE S1 == {s \in E : k(s)[1] = k(p1)[1]}
<1>4. PICK p2 \in S1 : \A s \in S1 : k(p2)[2] <= k(s)[2]
  <2>1. \A s \in S1 : f2[s] = k(s)[2] + n /\ f2[s] \in Nat /\ k(s)[2] \in Int
    BY <1>2
  <2>2. S1 # {}
    BY <1>3
  <2> HIDE DEF f2, S1
  <2>3. \E m \in S1 : \A s \in S1 : f2[m] <= f2[s]
    BY <2>1, <2>2, LeastMeasured
  <2> QED BY <1>1, <2>1, <2>3
<1> DEFINE S2 == {s \in S1 : k(s)[2] = k(p2)[2]}
<1>5. PICK p3 \in S2 : \A s \in S2 : k(p3)[3] <= k(s)[3]
  <2>1. \A s \in S2 : f3[s] = k(s)[3] /\ f3[s] \in Nat
    BY <1>2
  <2>2. S2 # {}
    BY <1>4
  <2> HIDE DEF f3, S2
  <2>3. \E m \in S2 : \A s \in S2 : f3[m] <= f3[s]
    BY <2>1, <2>2, LeastMeasured
  <2> QED BY <2>1, <2>3
<1> DEFINE S3 == {s \in S2 : k(s)[3] = k(p3)[3]}
<1>6. PICK p \in S3 : \A s \in S3 : k(p)[4] <= k(s)[4]
  <2>1. \A s \in S3 : f4[s] = k(s)[4] /\ f4[s] \in Nat
    BY <1>2
  <2>2. S3 # {}
    BY <1>5
  <2> HIDE DEF f4, S3
  <2>3. \E m \in S3 : \A s \in S3 : f4[m] <= f4[s]
    BY <2>1, <2>2, LeastMeasured
  <2> QED BY <2>1, <2>3
<1>7. ASSUME NEW other \in E, other # p PROVE SortsBefore(k(p), k(other))
  <2>1. p \in E /\ p1 \in E /\ p2 \in E /\ p3 \in E
    OBVIOUS
  <2>2. k(p)[1] = k(p1)[1] /\ k(p)[2] = k(p2)[2] /\ k(p)[3] = k(p3)[3]
    OBVIOUS
  <2>3. UidRank[p] # UidRank[other]
    BY <1>1, <1>7, <2>1, QueryServerAssumption
  <2>4. CASE other \notin S1
    <3>1. k(p)[1] < k(other)[1]
      BY <1>2, <1>3, <1>7, <2>1, <2>2, <2>4
    <3> QED BY <3>1 DEF SortsBefore
  <2>5. CASE other \in S1 /\ other \notin S2
    <3>1. k(p)[1] = k(other)[1] /\ k(p)[2] < k(other)[2]
      BY <1>2, <1>4, <1>7, <2>1, <2>2, <2>5
    <3>2. \A j \in 1..(2 - 1) : k(p)[j] = k(other)[j]
      BY <3>1
    <3> QED BY <3>1, <3>2 DEF SortsBefore
  <2>6. CASE other \in S2 /\ other \notin S3
    <3>1. k(p)[1] = k(other)[1] /\ k(p)[2] = k(other)[2] /\ k(p)[3] < k(other)[3]
      BY <1>2, <1>5, <1>7, <2>1, <2>2, <2>6
    <3>2. \A j \in 1..(3 - 1) : k(p)[j] = k(other)[j]
      BY <3>1
    <3> QED BY <3>1, <3>2 DEF SortsBefore
  <2>7. CASE other \in S3
    <3>1. /\ k(p)[1] = k(other)[1] /\ k(p)[2] = k(other)[2] /\ k(p)[3] = k(other)[3]
          /\ k(p)[4] < k(other)[4]
      BY <1>2, <1>6, <1>7, <2>1, <2>2, <2>3, <2>7
    <3>2. \A j \in 1..(4 - 1) : k(p)[j] = k(other)[j]
      BY <3>1
    <3> QED BY <3>1, <3>2 DEF SortsBefore
  <2> QED BY <2>4, <2>5, <2>6, <2>7
<1>8. p \in Pods /\ Selected(q, p)
  BY <1>1, <1>7 DEF Selected, E, k
<1>9. ASSUME NEW r \in Pods, Selected(q, r), r # p PROVE FALSE
  <2>1. SortsBefore(SortKey(q, p), SortKey(q, r)) /\ SortsBefore(SortKey(q, r), SortKey(q, p))
    BY <1>8, <1>9 DEF Selected
  <2> QED BY <1>8, <2>1, SortsOneWay
<1> QED BY <1>8, <1>9

-----------------------------------------------------------------------------
(* One server per character *)

\* What stands in a Pod after a store.
LEMMA StoreFields ==
  ASSUME ClusterTypeOK, NEW t \in Pods, NEW object \in Pod, Store(t, object), NEW p \in Pods
  PROVE  /\ p # t => pods'[p] = pods[p]
         /\ p = t => /\ pods'[p].phase = object.phase
                     /\ pods'[p].draining = object.draining
                     /\ pods'[p].label = object.label
<1>1. CASE object = pods[t] /\ UNCHANGED clusterVars
  BY <1>1 DEF clusterVars
<1>2. CASE pods' = [pods EXCEPT ![t] = [object EXCEPT !.version = revision + 1]]
  BY <1>2 DEF ClusterTypeOK, Pod
<1> QED BY <1>1, <1>2 DEF Store

\* A label write changes one label of one Pod.
LEMMA SetLabelFields ==
  ASSUME ClusterTypeOK, NEW t \in Pods, NEW d \in Characters, NEW status \in Labels,
         SetLabel(t, d, status), NEW p \in Pods
  PROVE  /\ pods'[p].phase = pods[p].phase /\ pods'[p].draining = pods[p].draining
         /\ \A c \in Characters :
              pods'[p].label[c] = IF p = t /\ c = d THEN status ELSE pods[p].label[c]
<1> DEFINE object == [pods[t] EXCEPT !.label[d] = status]
<1>1. /\ object \in Pod /\ object.phase = pods[t].phase /\ object.draining = pods[t].draining
      /\ object.label = [pods[t].label EXCEPT ![d] = status]
      /\ pods[t].label \in [Characters -> Labels]
  BY DEF ClusterTypeOK, Pod
<1>2. Store(t, object)
  BY DEF SetLabel
<1> HIDE DEF object
<1> QED BY <1>1, <1>2, StoreFields

\* There is one director, its servers stop only by being deleted, and it learns
\* what became of every patch it sent.
OneDirector   == \A d, e \in Directors : d = e
ServersStay   == {"stop", "drain"} \cap Faults = {}
PatchesSettle == {"apiError", "crash"} \cap Faults = {}

\* Servers with characters serve.
OccupiedServes == \A p \in Pods : CharactersOn(p) # {} => Serving(p)

\* No patch is on its way whose query is over.
NoOrphans == \A q \in Queries : pc[q] # "orphan"

\* A query about to write its character's label found it on no other server.
FoundNowhereElse ==
  \A q \in Queries : pc[q] = "patch" =>
    \A p \in Pods : MapOf[p] = MapOf[target[q]] /\ CharacterOf(q) \in CharactersOn(p)
                      => p = target[q]

Placement == OccupiedServes /\ NoOrphans /\ FoundNowhereElse /\ OneServerPerCharacter

\* A server that does not stop and does not drain serves until it is deleted, and
\* with it its labels.
LEMMA EnvironmentServes ==
  ASSUME ClusterTypeOK, ServersStay, Environment, NEW p \in Pods, Serving(p)
  PROVE  Serving(p)' \/ CharactersOn(p)' = {}
<1> USE DEF Serving
<1>1. ASSUME NEW gone \in [Pods -> SUBSET Characters], WindowsPass(gone) PROVE Serving(p)'
  BY <1>1, WindowsPassEffect
<1> SUFFICES ASSUME NEW t \in Pods, OtherWriter(t)
             PROVE  Serving(p)' \/ CharactersOn(p)' = {}
  BY <1>1 DEF Environment
<1>2. CASE Create(t)
  <2> DEFINE object == [pods[t] EXCEPT !.phase = "starting"]
  <2>1. object \in Pod /\ Store(t, object) /\ t # p
    BY <1>2 DEF ClusterTypeOK, Pod, Phases, Create, External
  <2> QED BY <2>1, StoreFields
<1>3. CASE BecomeReady(t)
  <2> DEFINE object == [pods[t] EXCEPT !.phase = "ready"]
  <2>1. object \in Pod /\ Store(t, object) /\ t # p
    BY <1>3 DEF ClusterTypeOK, Pod, Phases, BecomeReady, External
  <2> QED BY <2>1, StoreFields
<1>4. CASE Delete(t)
  <2> DEFINE object == [pods[t] EXCEPT !.phase = "absent", !.draining = FALSE,
                                       !.label = NoLabels]
  <2>1. NoLabels \in [Characters -> Labels] /\ \A c \in Characters : NoLabels[c] = "None"
    BY DEF NoLabels, Labels
  <2>2. object \in Pod /\ object.label = NoLabels /\ Store(t, object)
    BY <1>4, <2>1 DEF ClusterTypeOK, Pod, Phases, Delete, External
  <2>3. p = t => pods'[p].label = NoLabels
    BY <2>2, StoreFields
  <2>4. p # t => pods'[p] = pods[p]
    BY <2>2, StoreFields
  <2> QED BY <2>1, <2>3, <2>4 DEF CharactersOn, VisibleLabels
<1>5. CASE BecomeUnready(t) \/ \E value \in BOOLEAN : SetDraining(t, value)
  BY <1>5 DEF BecomeUnready, SetDraining, External, ServersStay
<1>6. ASSUME NEW c \in Characters, Connect(t, c) \/ Disconnect(t, c) \/ RemoveExpired(t, c)
      PROVE  Serving(p)'
  <2>1. \E status \in Labels : SetLabel(t, c, status)
    BY <1>6 DEF Connect, Disconnect, RemoveExpired, External, SetLabel, Labels
  <2> QED BY <2>1, SetLabelFields
<1> QED BY <1>2, <1>3, <1>4, <1>5, <1>6 DEF OtherWriter

\* An orphan needs a connection that breaks or a process that dies.
LEMMA NoOrphansKept ==
  ASSUME TypeOK, PatchesSettle, NoOrphans, [Next]_vars
  PROVE  NoOrphans'
<1>1. ASSUME NEW q \in Queries, QueryStep(q) PROVE pc'[q] # "orphan"
  <2> USE DEF TypeOK, NoOrphans
  <2>1. CASE Submit(q) \/ DemandAccepted(q) \/ WatchReturns(q) \/ OrphanDropped(q)
    BY <2>1 DEF Submit, DemandAccepted, WatchReturns, OrphanDropped
  <2>2. CASE LockAssignments(q) \/ RelockAssignments(q)
    BY <2>2 DEF LockAssignments, RelockAssignments, Lock
  <2>3. CASE Select(q)
    BY <2>3 DEF Select
  <2>4. CASE \E result \in Outcomes : Answer(q, result)
    BY <2>4 DEF Answer, Return
  <2>5. CASE StartColdWait(q)
    BY <2>5 DEF StartColdWait, ColdWait
  <2>6. CASE AllocateCharacter(q) \/ OrphanApplied(q)
    BY <2>6 DEF AllocateCharacter, OrphanApplied
  <2>7. CASE AllocateUnanswered(q)
    BY <2>7 DEF AllocateUnanswered, PatchesSettle
  <2>8. CASE InstallRoute(q)
    BY <2>8 DEF InstallRoute, Return
  <2>9. CASE PostAnswered(q) \/ DeadlinePasses(q)
    BY <2>9 DEF PostAnswered, DeadlinePasses, taskVars
  <2> QED
    BY <1>1, <2>1, <2>2, <2>3, <2>4, <2>5, <2>6, <2>7, <2>8, <2>9
       DEF QueryStep, NoServerAvailable, DemandRefused, StartupTimeout, ClientLeaves,
           ReadFails, AllocateConflict, Outcomes
<1>2. ASSUME NEW q \in Queries, QueryStep(q) PROVE NoOrphans'
  BY <1>1, <1>2, OthersStaySame DEF OthersSame, Same, NoOrphans
<1>3. \A d \in Directors : ~Crash(d)
  BY DEF Crash, PatchesSettle
<1>4. CASE \/ EnvironmentStep \/ UNCHANGED vars
           \/ \E d \in Directors, c \in Clients : RouteTaken(d, c)
  BY <1>4 DEF EnvironmentStep, vars, RouteTaken, taskVars, NoOrphans
<1> QED BY <1>2, <1>3, <1>4 DEF Next

\* A character that is on a server of the map is found there and nowhere else.
LEMMA SelectFinds ==
  ASSUME Placement, NEW q \in Queries, NEW p \in Pods, Selected(q, p),
         NEW r \in Pods, MapOf[r] = MapOf[p], CharacterOf(q) \in CharactersOn(r)
  PROVE  r = p
<1> SUFFICES ASSUME r # p PROVE FALSE
  OBVIOUS
<1>1. MapOf[p] = Request[q].map
  BY DEF Selected, Eligible, Listed
<1>2. r \in Eligible(q)
  BY <1>1 DEF Placement, OccupiedServes, Eligible, Listed, HasRoom
<1>3. SortsBefore(SortKey(q, p), SortKey(q, r))
  BY <1>2 DEF Selected
<1>4. SortKey(q, r)[1] = 0 /\ SortKey(q, p)[1] \in Nat
  BY KeyType
<1>5. SortKey(q, p)[1] = 0
  <2> DEFINE a == SortKey(q, p)
             b == SortKey(q, r)
  <2> HIDE DEF a, b
  <2>1. PICK i \in 1..4 : a[i] < b[i] /\ \A j \in 1..(i - 1) : a[j] = b[j]
    BY <1>3 DEF SortsBefore, a, b
  <2>2. b[1] = 0 /\ a[1] \in Nat
    BY <1>4 DEF a, b
  <2>3. i # 1
    BY <2>1, <2>2
  <2>4. a[1] = b[1]
    BY <2>1, <2>3
  <2> QED BY <2>2, <2>4 DEF a
<1>6. CharacterOf(q) \in CharactersOn(p)
  BY <1>5, KeyType
<1> QED BY <1>6, RequestType DEF Placement, OneServerPerCharacter

\* The steps that write no Pod.
LEMMA StillPlaced ==
  ASSUME Placement, NoOrphans', UNCHANGED <<clusterVars, target>>,
         \A q \in Queries : pc'[q] = "patch" => pc[q] = "patch"
  PROVE  Placement'
BY DEF Placement, OccupiedServes, FoundNowhereElse, OneServerPerCharacter, clusterVars,
       CharactersOn, Serving, CharacterOf

\* The label write of a query that found its character nowhere else.
LEMMA WritePlaces ==
  ASSUME IInv, LockAccounted, OneDirector, Placement, NoOrphans', NEW q \in Queries,
         pc[q] = "patch", VersionMatches(q),
         SetLabel(target[q], CharacterOf(q), "Allocated"), UNCHANGED target,
         \A r \in Queries : pc'[r] = "patch" => pc[r] = "patch"
  PROVE  Placement'
<1> DEFINE t == target[q]
           d == CharacterOf(q)
<1>1. t \in Pods /\ d \in Characters /\ ClusterTypeOK /\ "Allocated" \in Labels
  BY RequestType DEF IInv, TargetChosen, TypeOK, Labels
<1>2. \A p \in Pods : /\ Serving(p)' <=> Serving(p)
                      /\ CharactersOn(p)' \subseteq CharactersOn(p) \cup {d}
                      /\ p # t => CharactersOn(p)' = CharactersOn(p)
  BY <1>1, SetLabelFields DEF Serving, CharactersOn
<1>3. Serving(t)
  BY WriteIsAssignment DEF Assign
<1>4. \A p \in Pods : MapOf[p] = MapOf[t] /\ d \in CharactersOn(p) => p = t
  BY DEF Placement, FoundNowhereElse
<1>5. \A r \in Queries : pc[r] = "patch" => r = q
  BY MutualExclusion, RequestType DEF OneDirector, Critical
<1>6. OccupiedServes'
  <2> SUFFICES ASSUME NEW p \in Pods, CharactersOn(p)' # {} PROVE Serving(p)'
    BY DEF OccupiedServes
  <2> QED BY <1>2, <1>3 DEF Placement, OccupiedServes
<1>7. FoundNowhereElse'
  <2> SUFFICES ASSUME NEW r \in Queries, pc'[r] = "patch", NEW p \in Pods,
                      MapOf[p] = MapOf[target[r]], CharacterOf(r) \in CharactersOn(p)'
               PROVE  p = target[r]
    BY DEF FoundNowhereElse, CharacterOf
  <2> QED BY <1>2, <1>4, <1>5
<1>8. OneServerPerCharacter'
  <2> SUFFICES ASSUME NEW c \in Characters, NEW a \in Pods, NEW b \in Pods,
                      c \in CharactersOn(a)', c \in CharactersOn(b)', MapOf[a] = MapOf[b]
               PROVE  a = b
    BY DEF OneServerPerCharacter
  <2>1. CASE c \in CharactersOn(a) /\ c \in CharactersOn(b)
    BY <2>1 DEF Placement, OneServerPerCharacter
  <2>2. CASE c \notin CharactersOn(a) \/ c \notin CharactersOn(b)
    BY <1>2, <1>4, <2>2
  <2> QED BY <2>1, <2>2
<1> QED BY <1>6, <1>7, <1>8 DEF Placement

\* Every step keeps characters on one server.
LEMMA PlacementKept ==
  ASSUME OneDirector, ServersStay, PatchesSettle, IInv, LockAccounted, Placement, [Next]_vars
  PROVE  Placement'
<1>1. TypeOK /\ ClusterTypeOK /\ NoOrphans'
  BY NoOrphansKept DEF IInv, TypeOK, Placement
<1>2. CASE EnvironmentStep
  <2>1. Environment /\ UNCHANGED <<pc, target>>
    BY <1>2 DEF EnvironmentStep, taskVars
  <2>2. \A p \in Pods : CharactersOn(p)' \subseteq CharactersOn(p)
    BY <1>1, <2>1, EnvironmentAddsNobody
  <2>3. OccupiedServes'
    <3> SUFFICES ASSUME NEW p \in Pods, CharactersOn(p)' # {} PROVE Serving(p)'
      BY DEF OccupiedServes
    <3>1. Serving(p)
      BY <2>2 DEF Placement, OccupiedServes
    <3> QED BY <1>1, <2>1, <3>1, EnvironmentServes
  <2>4. FoundNowhereElse'
    <3> SUFFICES ASSUME NEW r \in Queries, pc'[r] = "patch", NEW p \in Pods,
                        MapOf[p] = MapOf[target'[r]], CharacterOf(r) \in CharactersOn(p)'
                 PROVE  p = target'[r]
      BY DEF FoundNowhereElse, CharacterOf
    <3> QED BY <2>1, <2>2 DEF Placement, FoundNowhereElse
  <2>5. OneServerPerCharacter'
    BY <2>2 DEF Placement, OneServerPerCharacter
  <2> QED BY <1>1, <2>3, <2>4, <2>5 DEF Placement
<1>3. ASSUME NEW q \in Queries, QueryStep(q) PROVE Placement'
  <2>1. CASE Select(q)
    <3>1. PICK p \in Pods :
            /\ Selected(q, p)
            /\ target' = [target EXCEPT ![q] = p]
            /\ pc' = [pc EXCEPT ![q] = IF pods[p].label[CharacterOf(q)] = "Used"
                                       THEN "route" ELSE "patch"]
      BY <2>1 DEF Select
    <3>2. UNCHANGED clusterVars
      BY <2>1 DEF Select
    <3>3. \A r \in Pods : CharactersOn(r)' = CharactersOn(r) /\ (Serving(r)' <=> Serving(r))
      BY <3>2 DEF clusterVars, CharactersOn, Serving
    <3>4. FoundNowhereElse'
      <4> SUFFICES ASSUME NEW r \in Queries, pc'[r] = "patch", NEW o \in Pods,
                          MapOf[o] = MapOf[target'[r]], CharacterOf(r) \in CharactersOn(o)
                   PROVE  o = target'[r]
        BY <3>3 DEF FoundNowhereElse, CharacterOf
      <4>1. CASE r = q
        BY <1>1, <3>1, <4>1, SelectFinds DEF TypeOK
      <4>2. CASE r # q
        BY <1>1, <3>1, <4>2 DEF TypeOK, Placement, FoundNowhereElse
      <4> QED BY <4>1, <4>2
    <3>5. OccupiedServes' /\ OneServerPerCharacter'
      BY <3>3 DEF Placement, OccupiedServes, OneServerPerCharacter
    <3> QED BY <1>1, <3>4, <3>5 DEF Placement
  <2>2. CASE /\ pc[q] \in {"patch", "orphan"} /\ VersionMatches(q)
             /\ SetLabel(target[q], CharacterOf(q), "Allocated")
             /\ UNCHANGED <<target, seen>>
             /\ \A r \in Queries : pc'[r] \in {"patch", "orphan"} => pc[r] \in {"patch", "orphan"}
    <3>1. \A r \in Queries : pc[r] # "orphan"
      BY DEF Placement, NoOrphans
    <3> QED BY <1>1, <2>2, <3>1, WritePlaces
  <2>3. CASE /\ UNCHANGED <<clusterVars, target, seen>>
             /\ \A r \in Queries : pc'[r] \in {"patch", "orphan"} => pc[r] \in {"patch", "orphan"}
    <3>1. \A r \in Queries : pc[r] # "orphan"
      BY DEF Placement, NoOrphans
    <3> QED BY <1>1, <2>3, <3>1, StillPlaced
  <2> QED BY <1>3, <2>1, <2>2, <2>3, StepKinds
<1>4. \A d \in Directors : ~Crash(d)
  BY DEF Crash, PatchesSettle
<1>5. CASE UNCHANGED vars \/ \E d \in Directors, c \in Clients : RouteTaken(d, c)
  BY <1>1, <1>5, StillPlaced DEF vars, RouteTaken, taskVars
<1> QED BY <1>2, <1>3, <1>4, <1>5 DEF Next

\* One director, whose servers do not stop or drain under their players and whose
\* patches are answered, never has a character on two servers of a map, however
\* often and at whatever times its queries are repeated.
THEOREM OneServerEach ==
  ASSUME OneDirector, ServersStay, PatchesSettle
  PROVE  Spec => []OneServerPerCharacter
<1>1. Init => Placement
  <2> SUFFICES ASSUME Init PROVE Placement
    OBVIOUS
  <2>1. \A p \in Pods : CharactersOn(p) = {}
    BY DEF Init, ClusterInit, CharactersOn, NoLabels, VisibleLabels
  <2> QED BY <2>1 DEF Init, Placement, OccupiedServes, NoOrphans, FoundNowhereElse,
                      OneServerPerCharacter
<1>2. IInv /\ LockAccounted /\ Placement /\ [Next]_vars => Placement'
  BY PlacementKept
<1>3. Placement => OneServerPerCharacter
  BY DEF Placement
<1> QED BY <1>1, <1>2, <1>3, Inductive, LockAlwaysAccounted, PTL DEF Spec

-----------------------------------------------------------------------------
(* A Success stands for a label and a route *)

\* Labels leave by the controller's removal or with their Pod; neither happens.
LabelsStay == {"remove", "delete"} \cap Faults = {}

\* A query on its way to its route has chosen a Pod of its map, and there is its
\* character's label once it need not be written any more.
RoutesLabelled ==
  \A q \in Queries :
    /\ pc[q] \in {"patch", "written", "route"} => target[q] \in Listed(q)
    /\ pc[q] \in {"written", "route"} => pods[target[q]].label[CharacterOf(q)] # "None"

\* Whoever writes a Pod leaves its labels there.
LEMMA LabelsKept ==
  ASSUME IInv, LabelsStay, [Next]_vars, NEW p \in Pods, NEW c \in Characters,
         pods[p].label[c] # "None"
  PROVE  pods'[p].label[c] # "None"
<1> USE DEF LabelsStay
<1>1. ClusterTypeOK /\ [AssignmentNext]_clusterVars
  BY StepImplements DEF IInv, TypeOK
<1>2. CASE UNCHANGED clusterVars
  BY <1>2 DEF clusterVars
<1>3. ASSUME NEW t \in Pods, NEW d \in Characters, NEW status \in Labels,
             SetLabel(t, d, status), status # "None"
      PROVE  pods'[p].label[c] # "None"
  BY <1>1, <1>3, SetLabelFields
<1>4. ASSUME NEW t \in Pods, NEW d \in Characters, Assign(t, d)
      PROVE  pods'[p].label[c] # "None"
  BY <1>3, <1>4 DEF Assign, Labels
<1>5. ASSUME NEW gone \in [Pods -> SUBSET Characters], WindowsPass(gone)
      PROVE  pods'[p].label[c] # "None"
  BY <1>1, <1>5, WindowsPassEffect
<1>6. ASSUME NEW t \in Pods, OtherWriter(t) PROVE pods'[p].label[c] # "None"
  <2>1. ASSUME NEW phase \in Phases, Store(t, [pods[t] EXCEPT !.phase = phase])
        PROVE  pods'[p].label[c] # "None"
    <3> DEFINE object == [pods[t] EXCEPT !.phase = phase]
    <3>1. object \in Pod /\ object.label = pods[t].label
      BY <1>1 DEF ClusterTypeOK, Pod
    <3>2. Store(t, object)
      BY <2>1
    <3> HIDE DEF object
    <3> QED BY <1>1, <3>1, <3>2, StoreFields
  <2>2. CASE Create(t) \/ BecomeReady(t) \/ BecomeUnready(t)
    BY <2>1, <2>2 DEF Create, BecomeReady, BecomeUnready, External, Phases
  <2>3. CASE \E value \in BOOLEAN : SetDraining(t, value)
    <3>1. PICK value \in BOOLEAN : Store(t, [pods[t] EXCEPT !.draining = value])
      BY <2>3 DEF SetDraining, External
    <3> DEFINE object == [pods[t] EXCEPT !.draining = value]
    <3>2. object \in Pod /\ object.label = pods[t].label
      BY <1>1 DEF ClusterTypeOK, Pod
    <3>3. Store(t, object)
      BY <3>1
    <3> HIDE DEF object
    <3> QED BY <1>1, <3>2, <3>3, StoreFields
  <2>4. CASE \E d \in Characters : Connect(t, d) \/ Disconnect(t, d)
    BY <1>3, <2>4 DEF Connect, Disconnect, External, SetLabel, Labels
  <2>5. ~Delete(t) /\ \A d \in Characters : ~RemoveExpired(t, d)
    BY DEF Delete, RemoveExpired, External
  <2> QED BY <1>6, <2>2, <2>3, <2>4, <2>5 DEF OtherWriter
<1> QED BY <1>1, <1>2, <1>4, <1>5, <1>6 DEF AssignmentNext, Environment

\* Only InstallRoute reports a Success, and only a selection or a label write leads
\* up to it.
LEMMA RouteKinds ==
  ASSUME TypeOK, NEW q \in Queries, QueryStep(q)
  PROVE  \/ InstallRoute(q)
         \/ /\ outcome'[q] = "Success" => outcome[q] = "Success"
            /\ pc'[q] \in {"patch", "written", "route"} =>
                 \/ pc'[q] = pc[q] /\ target'[q] = target[q]
                 \/ Select(q) \/ AllocateCharacter(q)
<1> USE DEF TypeOK
<1>1. CASE Submit(q) \/ DemandAccepted(q) \/ WatchReturns(q) \/ OrphanDropped(q)
  BY <1>1 DEF Submit, DemandAccepted, WatchReturns, OrphanDropped
<1>2. CASE LockAssignments(q) \/ RelockAssignments(q)
  BY <1>2 DEF LockAssignments, RelockAssignments, Lock
<1>3. CASE Select(q) \/ AllocateCharacter(q) \/ OrphanApplied(q)
  BY <1>3 DEF Select, AllocateCharacter, OrphanApplied
<1>4. CASE \E result \in Outcomes \ {"Success"} : Answer(q, result)
  BY <1>4 DEF Answer, Return
<1>5. CASE StartColdWait(q)
  BY <1>5 DEF StartColdWait, ColdWait
<1>6. CASE AllocateUnanswered(q)
  BY <1>6 DEF AllocateUnanswered, Return
<1>7. CASE PostAnswered(q) \/ DeadlinePasses(q)
  BY <1>7 DEF PostAnswered, DeadlinePasses, taskVars
<1> QED
  BY <1>1, <1>2, <1>3, <1>4, <1>5, <1>6, <1>7
     DEF QueryStep, NoServerAvailable, DemandRefused, StartupTimeout, ClientLeaves,
         ReadFails, AllocateConflict, Outcomes

\* The step of a query keeps its choice and its label on the way to its route.
LEMMA LabelledKept ==
  ASSUME IInv, LabelsStay, RoutesLabelled, NEW q \in Queries, QueryStep(q)
  PROVE  RoutesLabelled'
<1>1. TypeOK /\ ClusterTypeOK /\ CharacterOf(q) \in Characters
  BY RequestType DEF IInv, TypeOK
<1>2. \A p \in Pods, c \in Characters : pods[p].label[c] # "None" => pods'[p].label[c] # "None"
  BY LabelsKept DEF Next
<1> SUFFICES ASSUME NEW r \in Queries, pc'[r] \in {"patch", "written", "route"}
             PROVE  /\ target'[r] \in Listed(r)
                    /\ pc'[r] # "patch" => pods'[target'[r]].label[CharacterOf(r)] # "None"
  BY DEF RoutesLabelled, CharacterOf, Listed
<1>3. CASE pc'[r] = pc[r] /\ target'[r] = target[r]
  <2>1. target[r] \in Listed(r) /\ target[r] \in Pods /\ CharacterOf(r) \in Characters
    BY <1>3, RequestType DEF RoutesLabelled, Listed
  <2> QED BY <1>2, <1>3, <2>1 DEF RoutesLabelled
<1>4. CASE r = q /\ Select(q)
  <2>1. PICK p \in Pods :
          /\ Selected(q, p)
          /\ target' = [target EXCEPT ![q] = p]
          /\ pc' = [pc EXCEPT ![q] = IF pods[p].label[CharacterOf(q)] = "Used"
                                     THEN "route" ELSE "patch"]
    BY <1>4 DEF Select
  <2>2. /\ target'[q] = p /\ p \in Listed(q)
        /\ pc'[q] # "patch" => pods[p].label[CharacterOf(q)] = "Used"
    BY <1>1, <2>1 DEF TypeOK, Selected, Eligible
  <2> QED BY <1>1, <1>2, <1>4, <2>2
<1>5. CASE r = q /\ AllocateCharacter(q)
  <2>1. /\ pc[q] = "patch" /\ target' = target
        /\ SetLabel(target[q], CharacterOf(q), "Allocated")
    BY <1>5 DEF AllocateCharacter
  <2>2. target[q] \in Listed(q) /\ target[q] \in Pods /\ "Allocated" \in Labels
    BY <2>1 DEF RoutesLabelled, Listed, Labels
  <2> QED BY <1>1, <1>5, <2>1, <2>2, SetLabelFields
<1>6. CASE r = q /\ InstallRoute(q)
  BY <1>1, <1>6 DEF InstallRoute, Return, TypeOK
<1>7. r # q => pc'[r] = pc[r] /\ target'[r] = target[r]
  BY <1>1, OthersStaySame DEF OthersSame, Same
<1> QED BY <1>1, <1>3, <1>4, <1>5, <1>6, <1>7, RouteKinds

\* So do the steps of the other parties, a crash, and whatever befalls a route.
LEMMA RoutesLabelledKept ==
  ASSUME IInv, LabelsStay, RoutesLabelled, [Next]_vars
  PROVE  RoutesLabelled'
<1>1. CASE ~\E q \in Queries : QueryStep(q)
  <2>1. /\ target' = target
        /\ \A r \in Queries : pc'[r] \in {"patch", "written", "route"} => pc'[r] = pc[r]
    BY <1>1 DEF Next, EnvironmentStep, Crash, RouteTaken, vars, taskVars
  <2>2. \A p \in Pods, c \in Characters :
          pods[p].label[c] # "None" => pods'[p].label[c] # "None"
    BY LabelsKept
  <2> SUFFICES ASSUME NEW r \in Queries, pc'[r] \in {"patch", "written", "route"}
               PROVE  /\ target'[r] \in Listed(r)
                      /\ pc'[r] # "patch" => pods'[target'[r]].label[CharacterOf(r)] # "None"
    BY DEF RoutesLabelled, CharacterOf, Listed
  <2>3. pc'[r] = pc[r] /\ target[r] \in Listed(r) /\ CharacterOf(r) \in Characters
    BY <2>1, RequestType DEF RoutesLabelled
  <2> QED BY <2>1, <2>2, <2>3 DEF RoutesLabelled, Listed
<1> QED BY <1>1, LabelledKept

\* A query that comes to its Success leads its client to a labelled Pod of its map.
LEMMA SuccessLeads ==
  ASSUME IInv, LabelsStay, RoutesLabelled, [Next]_vars, NEW q \in Queries,
         outcome[q] # "Success", outcome'[q] = "Success"
  PROVE  LET p == sessions'[DirectorOf(q)][Request[q].client]
         IN p \in Listed(q) /\ pods'[p].label[CharacterOf(q)] # "None"
<1>1. TypeOK
  BY DEF IInv
<1>2. \A r \in Queries : QueryStep(r) => r = q
  BY <1>1, OthersStaySame DEF OthersSame, Same
<1>3. \E r \in Queries : QueryStep(r)
  BY DEF Next, EnvironmentStep, Crash, RouteTaken, vars, taskVars
<1>4. InstallRoute(q)
  BY <1>1, <1>2, <1>3, RouteKinds
<1>5. /\ target[q] \in Listed(q) /\ target[q] \in Pods /\ CharacterOf(q) \in Characters
      /\ pods[target[q]].label[CharacterOf(q)] # "None"
  BY <1>4, RequestType DEF InstallRoute, RoutesLabelled, Listed
<1>6. sessions'[DirectorOf(q)][Request[q].client] = target[q]
  BY <1>1, <1>4, RequestType DEF InstallRoute, TypeOK
<1> QED BY <1>5, <1>6, LabelsKept

\* Any number of directors, that may crash, and clients that share an address: while
\* nobody takes labels away, a query that answers Success has just led its client to
\* a Pod of the map that carries its character's label.
THEOREM SuccessIsReady ==
  ASSUME LabelsStay
  PROVE  Spec => SuccessMeansReady
<1>1. Init => RoutesLabelled
  BY DEF Init, RoutesLabelled
<1>2. IInv /\ RoutesLabelled /\ [Next]_vars => RoutesLabelled'
  BY RoutesLabelledKept
<1>3. IInv /\ RoutesLabelled /\ [Next]_vars =>
        [\A q \in Queries : outcome[q] # "Success" /\ outcome'[q] = "Success" =>
           LET p == sessions'[DirectorOf(q)][Request[q].client]
           IN p \in Listed(q) /\ pods'[p].label[CharacterOf(q)] # "None"]_vars
  BY SuccessLeads
<1> QED BY <1>1, <1>2, <1>3, Inductive, PTL DEF Spec, SuccessMeansReady
=============================================================================
