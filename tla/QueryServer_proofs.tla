------------------------- MODULE QueryServer_proofs -------------------------
(***************************************************************************)
(* What holds of QueryServer for any number of directors, queries, Pods    *)
(* and characters.  The argument: a label write takes effect only when the *)
(* Pod still has the version that was listed, and whatever else changes a  *)
(* Pod in a way selection cares about gives it a new version.              *)
(***************************************************************************)
EXTENDS QueryServer, FiniteSetTheorems, TLAPS

-----------------------------------------------------------------------------
(* Type correctness *)

\* Storing a Pod leaves the cluster well typed.
LEMMA StoreType ==
  ASSUME ClusterTypeOK, NEW p \in Pods, NEW object \in Pod, Store(p, object)
  PROVE  ClusterTypeOK'
<1>1. revision + 1 \in Nat
  BY DEF ClusterTypeOK
<1>2. [object EXCEPT !.version = revision + 1] \in Pod
  BY <1>1 DEF Pod
<1> QED BY <1>1, <1>2 DEF ClusterTypeOK, Store, clusterVars

\* Every step of the environment but the passing of a reconnect window is
\* one stored update that adds no occupant.
EnvironmentWrite ==
  \E p \in Pods, object \in Pod :
    /\ Store(p, object)
    /\ \A c \in Characters :
         object.label[c] \in VisibleLabels => pods[p].label[c] \in VisibleLabels

\* What the other writers of Pods do is one Store of a well-typed object that
\* adds no occupant, or the end of a reconnect window.
LEMMA EnvironmentWrites ==
  ASSUME ClusterTypeOK, Environment
  PROVE  EnvironmentWrite \/ \E gone \in [Pods -> SUBSET Characters] : WindowsPass(gone)
<1> SUFFICES ASSUME NEW p \in Pods, OtherWriter(p) PROVE EnvironmentWrite
  BY DEF Environment
<1> DEFINE Writes(object) ==
      /\ object \in Pod
      /\ Store(p, object)
      /\ \A c \in Characters :
           object.label[c] \in VisibleLabels => pods[p].label[c] \in VisibleLabels
<1>0. ASSUME NEW object, Writes(object) PROVE EnvironmentWrite
  BY <1>0 DEF EnvironmentWrite
<1> HIDE DEF Writes
<1>1. CASE Create(p) \/ BecomeUnready(p)
  <2> DEFINE object == [pods[p] EXCEPT !.phase = "starting"]
  <2>1. object \in Pod /\ object.label = pods[p].label
    BY DEF ClusterTypeOK, Pod, Phases
  <2>2. Store(p, object)
    BY <1>1 DEF Create, BecomeUnready, External
  <2> QED BY <1>0, <2>1, <2>2 DEF Writes
<1>2. CASE BecomeReady(p)
  <2> DEFINE object == [pods[p] EXCEPT !.phase = "ready"]
  <2>1. object \in Pod /\ object.label = pods[p].label
    BY DEF ClusterTypeOK, Pod, Phases
  <2> QED BY <1>0, <1>2, <2>1 DEF Writes, BecomeReady, External
<1>3. CASE Delete(p)
  <2> DEFINE object == [pods[p] EXCEPT !.phase = "absent", !.draining = FALSE,
                                       !.label = NoLabels]
  <2>1. NoLabels \in [Characters -> Labels] /\ \A c \in Characters : NoLabels[c] = "None"
    BY DEF NoLabels, Labels
  <2>2. object \in Pod /\ object.label = NoLabels
    BY <2>1 DEF ClusterTypeOK, Pod, Phases
  <2> QED BY <1>0, <1>3, <2>1, <2>2 DEF Writes, Delete, External, VisibleLabels
<1>4. CASE \E value \in BOOLEAN : SetDraining(p, value)
  <2> PICK value \in BOOLEAN : SetDraining(p, value)
    BY <1>4
  <2> DEFINE object == [pods[p] EXCEPT !.draining = value]
  <2>1. object \in Pod /\ object.label = pods[p].label
    BY DEF ClusterTypeOK, Pod
  <2> QED BY <1>0, <2>1 DEF Writes, SetDraining, External
<1>5. ASSUME NEW c \in Characters, Connect(p, c) \/ Disconnect(p, c) \/ RemoveExpired(p, c)
      PROVE  EnvironmentWrite
  <2>1. ASSUME NEW status \in Labels, SetLabel(p, c, status),
               status \in VisibleLabels => pods[p].label[c] \in VisibleLabels
        PROVE  EnvironmentWrite
    <3> DEFINE object == [pods[p] EXCEPT !.label[c] = status]
    <3>1. /\ pods[p].label \in [Characters -> Labels]
          /\ object \in Pod
          /\ object.label = [pods[p].label EXCEPT ![c] = status]
      BY DEF ClusterTypeOK, Pod
    <3>2. \A d \in Characters :
            object.label[d] \in VisibleLabels => pods[p].label[d] \in VisibleLabels
      BY <2>1, <3>1
    <3>3. Store(p, object)
      BY <2>1 DEF SetLabel
    <3> QED BY <1>0, <3>1, <3>2, <3>3 DEF Writes
  <2>3. CASE Connect(p, c)
    BY <2>1, <2>3 DEF Connect, External, SetLabel, Labels, VisibleLabels
  <2>4. CASE Disconnect(p, c)
    BY <2>1, <2>4 DEF Disconnect, External, SetLabel, Labels, VisibleLabels
  <2>5. CASE RemoveExpired(p, c)
    BY <2>1, <2>5 DEF RemoveExpired, External, SetLabel, Labels, VisibleLabels
  <2> QED BY <1>5, <2>3, <2>4, <2>5
<1> QED BY <1>1, <1>2, <1>3, <1>4, <1>5 DEF OtherWriter

\* Reconnect windows that end change labels to Expired and nothing else.
LEMMA WindowsPassEffect ==
  ASSUME ClusterTypeOK, NEW gone \in [Pods -> SUBSET Characters], WindowsPass(gone)
  PROVE  /\ ClusterTypeOK'
         /\ \A p \in Pods :
              /\ pods'[p].version = pods[p].version
              /\ pods'[p].phase = pods[p].phase
              /\ pods'[p].draining = pods[p].draining
              /\ \A c \in Characters :
                   \/ pods'[p].label[c] = pods[p].label[c]
                   \/ pods[p].label[c] = "Disconnected" /\ pods'[p].label[c] = "Expired"
<1> DEFINE label(p) == [c \in Characters |-> IF c \in gone[p] THEN "Expired"
                                                            ELSE pods[p].label[c]]
<1>1. \A p \in Pods : pods[p] \in Pod /\ label(p) \in [Characters -> Labels]
  BY DEF ClusterTypeOK, Pod, Labels
<1>2. \A p \in Pods : pods'[p] = [pods[p] EXCEPT !.label = label(p)]
  BY DEF WindowsPass
<1>3. \A p \in Pods :
        /\ pods'[p] \in Pod
        /\ pods'[p].version = pods[p].version
        /\ pods'[p].phase = pods[p].phase
        /\ pods'[p].draining = pods[p].draining
        /\ pods'[p].label = label(p)
  BY <1>1, <1>2 DEF Pod
<1>4. pods' \in [Pods -> Pod] /\ revision' \in Nat
  BY <1>3 DEF WindowsPass, ClusterTypeOK
<1>5. \A p \in Pods, c \in Characters :
        \/ label(p)[c] = pods[p].label[c]
        \/ pods[p].label[c] = "Disconnected" /\ label(p)[c] = "Expired"
  BY DEF WindowsPass
<1> HIDE DEF label
<1> QED BY <1>3, <1>4, <1>5 DEF ClusterTypeOK

\* So does every step of the environment.
LEMMA EnvironmentType ==
  ASSUME ClusterTypeOK, Environment
  PROVE  ClusterTypeOK'
BY EnvironmentWrites, StoreType, WindowsPassEffect DEF EnvironmentWrite

\* The director's label write leaves the cluster well typed.
LEMMA SetLabelType ==
  ASSUME ClusterTypeOK, NEW p \in Pods, NEW c \in Characters,
         SetLabel(p, c, "Allocated")
  PROVE  ClusterTypeOK'
<1>1. [pods[p] EXCEPT !.label[c] = "Allocated"] \in Pod
  BY DEF ClusterTypeOK, Pod, Labels
<1> QED BY <1>1, StoreType DEF SetLabel

\* The fields of a request have the types QueryServerAssumption gives them.
LEMMA RequestType ==
  ASSUME NEW q \in Queries
  PROVE  /\ DirectorOf(q) \in Directors /\ CharacterOf(q) \in Characters
         /\ Request[q].client \in Clients /\ GroupOfQuery(q) \in Groups
BY QueryServerAssumption DEF DirectorOf, CharacterOf, GroupOfQuery

\* Returning from process_access keeps the types of what it drops and answers.
LEMMA ReturnType ==
  ASSUME TypeOK, NEW q \in Queries, NEW result \in Outcomes, NEW step \in Steps,
         Return(q, result, step)
  PROVE  /\ pc' \in [Queries -> Steps]
         /\ outcome' \in [Queries -> Outcomes]
         /\ flight' \in [Queries -> Queries \cup {NoQuery}]
         /\ assignments' \in [Directors -> Queries \cup {NoQuery}]
         /\ UNCHANGED <<target, seen, since, flights, accepted, expired>>
BY RequestType DEF TypeOK, Return, Released

\* So does the answer to a query, which touches no Pod and no route.
LEMMA AnswerType ==
  ASSUME TypeOK, NEW q \in Queries, NEW result \in Outcomes, Answer(q, result)
  PROVE  TypeOK'
<1>1. "done" \in Steps
  BY DEF Steps
<1>2. UNCHANGED <<clusterVars, sessions>> /\ Return(q, result, "done")
  BY DEF Answer
<1> QED BY <1>1, <1>2, ReturnType DEF TypeOK, ClusterTypeOK, clusterVars

\* CapacityDemand::signal, joining a flight or starting one, keeps types.
LEMMA JoinFlightType ==
  ASSUME TypeOK, NEW q \in Queries, JoinFlight(q)
  PROVE  /\ flights' \in [Directors -> [Groups -> Queries \cup {NoQuery}]]
         /\ flight' \in [Queries -> Queries \cup {NoQuery}]
         /\ accepted' \in [Queries -> {"None", "pending", "ok", "error"}]
         /\ expired' \in [Queries -> BOOLEAN]
<1> DEFINE d == DirectorOf(q)
           g == GroupOfQuery(q)
           kept == [h \in Groups |-> IF Live(flights[d][h]) THEN flights[d][h] ELSE NoQuery]
<1>1. d \in Directors /\ g \in Groups
  BY RequestType
<1>2. kept \in [Groups -> Queries \cup {NoQuery}]
  BY <1>1 DEF TypeOK
<1>3. CASE flight[q] # NoQuery
  BY <1>3 DEF TypeOK, JoinFlight
<1>4. CASE flight[q] = NoQuery /\ kept[g] # NoQuery
  BY <1>1, <1>2, <1>4 DEF TypeOK, JoinFlight, Signal
<1>5. CASE flight[q] = NoQuery /\ kept[g] = NoQuery
  <2>1. /\ flights' = [flights EXCEPT ![d] = [kept EXCEPT ![g] = q]]
        /\ flight' = [flight EXCEPT ![q] = q]
        /\ accepted' = [accepted EXCEPT ![q] = "pending"]
        /\ expired' = [expired EXCEPT ![q] = FALSE]
    BY <1>5 DEF JoinFlight, Signal
  <2>2. [kept EXCEPT ![g] = q] \in [Groups -> Queries \cup {NoQuery}]
    BY <1>1, <1>2
  <2> QED BY <1>1, <2>1, <2>2 DEF TypeOK
<1> QED BY <1>3, <1>4, <1>5

\* A query whose label write may still take effect has chosen a Pod.
TargetChosen == \A q \in Queries : pc[q] \in {"patch", "orphan"} => target[q] \in Pods

\* Each step of a query keeps the type invariant.
LEMMA QueryStepType ==
  ASSUME TypeOK, TargetChosen, NEW q \in Queries, QueryStep(q)
  PROVE  TypeOK'
<1> USE RequestType
<1>1. CASE Submit(q)
  BY <1>1 DEF TypeOK, ClusterTypeOK, Submit, clusterVars, sharedVars, Steps
<1>2. CASE LockAssignments(q)
  BY <1>2 DEF TypeOK, ClusterTypeOK, LockAssignments, Lock, clusterVars, Steps
<1>3. CASE Select(q)
  <2>1. \A p \in Pods : pods[p].version \in Nat
    BY DEF TypeOK, ClusterTypeOK, Pod
  <2>2. PICK p \in Pods :
          /\ target' = [target EXCEPT ![q] = p]
          /\ seen' = [seen EXCEPT ![q] = pods[p].version]
          /\ pc' = [pc EXCEPT ![q] = IF pods[p].label[CharacterOf(q)] = "Used"
                                     THEN "route" ELSE "patch"]
    BY <1>3 DEF Select
  <2> QED BY <1>3, <2>1, <2>2
          DEF TypeOK, ClusterTypeOK, Select, clusterVars, sharedVars, Steps
<1>4. CASE NoServerAvailable(q)
  BY <1>4, AnswerType DEF NoServerAvailable, Outcomes
<1>5. CASE StartColdWait(q)
  BY <1>5, JoinFlightType DEF TypeOK, ClusterTypeOK, StartColdWait, ColdWait,
     Released, clusterVars, Steps, Waiting
<1>6. CASE DemandAccepted(q)
  BY <1>6 DEF TypeOK, ClusterTypeOK, DemandAccepted, clusterVars, sharedVars, Steps, Waiting
<1>7. CASE DemandRefused(q)
  BY <1>7, AnswerType DEF DemandRefused, Outcomes
<1>8. CASE WatchReturns(q)
  BY <1>8 DEF TypeOK, ClusterTypeOK, WatchReturns, clusterVars, sharedVars, Steps, Waiting
<1>9. CASE RelockAssignments(q)
  BY <1>9 DEF TypeOK, ClusterTypeOK, RelockAssignments, Lock, clusterVars, Steps, Waiting
<1>10. CASE StartupTimeout(q) \/ ClientLeaves(q) \/ ReadFails(q) \/ AllocateConflict(q)
  BY <1>10, AnswerType DEF StartupTimeout, ClientLeaves, ReadFails, AllocateConflict, Outcomes
<1>11. CASE AllocateCharacter(q) \/ OrphanApplied(q)
  <2>1. target[q] \in Pods
    BY <1>11 DEF AllocateCharacter, OrphanApplied, TargetChosen
  <2>2. ClusterTypeOK'
    BY <1>11, <2>1, SetLabelType DEF AllocateCharacter, OrphanApplied, TypeOK
  <2> QED BY <1>11, <2>2 DEF TypeOK, AllocateCharacter, OrphanApplied, sharedVars, Steps
<1>12. CASE AllocateUnanswered(q)
  <2>1. Return(q, "NoRoute", "orphan") /\ UNCHANGED <<clusterVars, sessions>>
    BY <1>12 DEF AllocateUnanswered
  <2>2. "NoRoute" \in Outcomes /\ "orphan" \in Steps
    BY DEF Outcomes, Steps
  <2> QED BY <2>1, <2>2, ReturnType DEF TypeOK, ClusterTypeOK, clusterVars
<1>13. CASE OrphanDropped(q)
  BY <1>13 DEF TypeOK, ClusterTypeOK, OrphanDropped, clusterVars, sharedVars, Steps
<1>14. CASE InstallRoute(q)
  <2>1. Return(q, "Success", "done") /\ UNCHANGED clusterVars
    BY <1>14 DEF InstallRoute
  <2>2. "Success" \in Outcomes /\ "done" \in Steps
    BY DEF Outcomes, Steps
  <2>3. sessions' \in [Directors -> [Clients -> Pods \cup {NoPod}]]
    BY <1>14 DEF InstallRoute, TypeOK
  <2> QED BY <2>1, <2>2, <2>3, ReturnType DEF TypeOK, ClusterTypeOK, clusterVars
<1>15. CASE PostAnswered(q)
  BY <1>15 DEF TypeOK, ClusterTypeOK, PostAnswered, clusterVars, taskVars
<1>16. CASE DeadlinePasses(q)
  BY <1>16 DEF TypeOK, ClusterTypeOK, DeadlinePasses, clusterVars, taskVars
<1> QED BY <1>1, <1>2, <1>3, <1>4, <1>5, <1>6, <1>7, <1>8, <1>9, <1>10, <1>11,
           <1>12, <1>13, <1>14, <1>15, <1>16 DEF QueryStep

\* A crash of a director keeps the type invariant.
LEMMA CrashType ==
  ASSUME TypeOK, NEW d \in Directors, Crash(d)
  PROVE  TypeOK'
<1>1. pc' \in [Queries -> Steps]
  BY DEF Crash, TypeOK, Steps
<1>2. outcome' \in [Queries -> Outcomes]
  BY DEF Crash, TypeOK, Outcomes
<1>3. flight' \in [Queries -> Queries \cup {NoQuery}]
  BY DEF Crash, TypeOK
<1> QED BY <1>1, <1>2, <1>3 DEF Crash, TypeOK, ClusterTypeOK, clusterVars

\* A route that comes or goes leaves everything else.
LEMMA RouteTakenType ==
  ASSUME TypeOK, NEW d \in Directors, NEW c \in Clients, RouteTaken(d, c)
  PROVE  TypeOK'
<1>1. sessions' \in [Directors -> [Clients -> Pods \cup {NoPod}]]
  BY DEF RouteTaken, TypeOK
<1> QED BY <1>1 DEF RouteTaken, TypeOK, ClusterTypeOK, clusterVars, taskVars

\* No step leaves a query about to write a label without a Pod to write it on.
LEMMA TargetKept ==
  ASSUME TypeOK, TargetChosen, Next
  PROVE  TargetChosen'
<1>1. CASE EnvironmentStep \/ \E d \in Directors, c \in Clients : RouteTaken(d, c)
  BY <1>1 DEF EnvironmentStep, RouteTaken, TargetChosen, taskVars
<1>2. CASE \E d \in Directors : Crash(d)
  BY <1>2 DEF Crash, TargetChosen
<1>3. ASSUME NEW q \in Queries, QueryStep(q) PROVE TargetChosen'
  <2> USE DEF TypeOK, TargetChosen
  <2>1. CASE Submit(q) \/ DemandAccepted(q) \/ WatchReturns(q) \/ OrphanDropped(q)
    BY <2>1 DEF Submit, DemandAccepted, WatchReturns, OrphanDropped
  <2>2. CASE LockAssignments(q) \/ RelockAssignments(q)
    BY <2>2 DEF LockAssignments, RelockAssignments, Lock
  <2>3. CASE Select(q)
    BY <2>3 DEF Select
  <2>4. CASE \E result \in Outcomes : Answer(q, result)
    BY <2>4 DEF Answer, Return
  <2>5. CASE StartColdWait(q)
    BY <2>5 DEF StartColdWait, ColdWait
  <2>6. CASE AllocateCharacter(q) \/ OrphanApplied(q)
    BY <2>6 DEF AllocateCharacter, OrphanApplied
  <2>7. CASE AllocateUnanswered(q) \/ InstallRoute(q)
    BY <2>7 DEF AllocateUnanswered, InstallRoute, Return
  <2>8. CASE PostAnswered(q) \/ DeadlinePasses(q)
    BY <2>8 DEF PostAnswered, DeadlinePasses, taskVars
  <2> QED
    BY <1>3, <2>1, <2>2, <2>3, <2>4, <2>5, <2>6, <2>7, <2>8
       DEF QueryStep, NoServerAvailable, DemandRefused, StartupTimeout, ClientLeaves,
           ReadFails, AllocateConflict, Outcomes
<1> QED BY <1>1, <1>2, <1>3 DEF Next

\* The initial states are well typed.
LEMMA InitType == Init => TypeOK /\ TargetChosen
<1> SUFFICES ASSUME Init PROVE TypeOK /\ TargetChosen
  OBVIOUS
<1>1. ClusterTypeOK
  BY DEF Init, ClusterInit, ClusterTypeOK, Pod, Phases, NoLabels, Labels
<1> QED BY <1>1 DEF Init, TypeOK, TargetChosen, Steps, Outcomes

\* Types are inductive.
LEMMA NextType == TypeOK /\ TargetChosen /\ [Next]_vars => TypeOK' /\ TargetChosen'
<1> SUFFICES ASSUME TypeOK, TargetChosen, [Next]_vars PROVE TypeOK' /\ TargetChosen'
  OBVIOUS
<1>1. CASE EnvironmentStep
  BY <1>1, EnvironmentType, TargetKept DEF EnvironmentStep, TypeOK, taskVars, sharedVars, Next
<1>2. CASE \E q \in Queries : QueryStep(q)
  BY <1>2, QueryStepType, TargetKept DEF Next
<1>3. CASE \E d \in Directors : Crash(d)
  BY <1>3, CrashType, TargetKept DEF Next
<1>4. CASE UNCHANGED vars
  BY <1>4 DEF vars, clusterVars, taskVars, sharedVars, TypeOK, ClusterTypeOK, TargetChosen
<1>5. CASE \E d \in Directors, c \in Clients : RouteTaken(d, c)
  BY <1>5, RouteTakenType, TargetKept DEF Next
<1> QED BY <1>1, <1>2, <1>3, <1>4, <1>5 DEF Next

\* The type invariant of the query server.
THEOREM TypeCorrect == Spec => []TypeOK
BY InitType, NextType, PTL DEF Spec

-----------------------------------------------------------------------------
(* The inductive invariant.  CapacityRespected alone is not inductive: that *)
(* a label write fits is known only from the list it follows (ListStillTrue) *)
(* and from every later version being a new one (VersionsKnown).            *)

VersionsKnown ==
  /\ \A p \in Pods : pods[p].version <= revision
  /\ \A q \in Queries : seen[q] <= revision

IInv == TypeOK /\ TargetChosen /\ VersionsKnown /\ CapacityRespected /\ ListStillTrue

\* A Pod that keeps its version keeps all that selection asked of it.
KeptFor(p) ==
  /\ pods'[p].version = pods[p].version
  /\ pods'[p].phase = pods[p].phase
  /\ pods'[p].draining = pods[p].draining
  /\ CharactersOn(p)' \subseteq CharactersOn(p)
  /\ \A c \in Characters : pods'[p].label[c] = "Used" => pods[p].label[c] = "Used"

ClusterMoves ==
  /\ revision <= revision'
  /\ \A p \in Pods : \/ KeptFor(p)
                     \/ pods'[p].version = revision + 1 /\ revision' = revision + 1

\* A Store gives its Pod a version nobody has listed.
LEMMA StoreMoves ==
  ASSUME ClusterTypeOK, NEW p \in Pods, NEW object \in Pod, Store(p, object)
  PROVE  ClusterMoves
<1>1. CASE UNCHANGED clusterVars
  BY <1>1 DEF ClusterMoves, KeptFor, clusterVars, ClusterTypeOK, CharactersOn
<1>2. CASE /\ revision' = revision + 1
           /\ pods' = [pods EXCEPT ![p] = [object EXCEPT !.version = revision + 1]]
  <2>1. [object EXCEPT !.version = revision + 1].version = revision + 1
    BY DEF Pod
  <2>2. pods'[p].version = revision + 1
    BY <1>2, <2>1 DEF ClusterTypeOK
  <2>3. \A other \in Pods \ {p} : pods'[other] = pods[other]
    BY <1>2 DEF ClusterTypeOK
  <2>4. \A other \in Pods \ {p} : KeptFor(other)
    BY <2>3 DEF KeptFor, CharactersOn
  <2> QED BY <1>2, <2>2, <2>4 DEF ClusterMoves, ClusterTypeOK
<1> QED BY <1>1, <1>2 DEF Store

\* A window that ends keeps the version and adds no occupant.
LEMMA WindowsPassMoves ==
  ASSUME ClusterTypeOK, NEW gone \in [Pods -> SUBSET Characters], WindowsPass(gone)
  PROVE  ClusterMoves
<1>1. \A p \in Pods : KeptFor(p)
  BY WindowsPassEffect DEF KeptFor, CharactersOn, VisibleLabels
<1> QED BY <1>1 DEF ClusterMoves, WindowsPass, ClusterTypeOK

\* A label write gives its Pod a version nobody has listed.
LEMMA SetLabelMoves ==
  ASSUME ClusterTypeOK, NEW p \in Pods, NEW c \in Characters,
         SetLabel(p, c, "Allocated")
  PROVE  ClusterMoves
<1>1. [pods[p] EXCEPT !.label[c] = "Allocated"] \in Pod
  BY DEF ClusterTypeOK, Pod, Labels
<1> QED BY <1>1, StoreMoves DEF SetLabel

\* A step that leaves the cluster alone moves nothing.
LEMMA StillMoves ==
  ASSUME ClusterTypeOK, UNCHANGED clusterVars
  PROVE  ClusterMoves
BY DEF ClusterMoves, KeptFor, clusterVars, ClusterTypeOK, CharactersOn

\* Every step of the environment moves the cluster in one of these ways.
LEMMA EnvironmentMoves ==
  ASSUME ClusterTypeOK, Environment
  PROVE  ClusterMoves
BY EnvironmentWrites, StoreMoves, WindowsPassMoves DEF EnvironmentWrite

\* Occupants can be counted: there are finitely many characters.
LEMMA OccupantsFinite ==
  \A p : CharactersOn(p) \subseteq Characters /\ IsFiniteSet(CharactersOn(p))
BY FS_Subset, ClusterAssumption DEF CharactersOn

\* Whatever happens to the cluster, a list that can still be acted on is still
\* true, as long as nobody starts acting on another one.
LEMMA ListKept ==
  ASSUME IInv, TypeOK', ClusterMoves, UNCHANGED <<target, seen>>,
         \A q \in Queries : pc'[q] \in {"patch", "orphan"} => pc[q] \in {"patch", "orphan"}
  PROVE  ListStillTrue'
<1> SUFFICES ASSUME NEW q \in Queries, pc'[q] \in {"patch", "orphan"}, VersionMatches(q)'
             PROVE  /\ Serving(target[q])'
                    /\ pods'[target[q]].label[CharacterOf(q)] # "Used"
                    /\ Cardinality(CharactersOn(target[q])' \ {CharacterOf(q)})
                         < MaxCharactersPerServer
  BY DEF ListStillTrue, CharacterOf
<1> DEFINE t == target[q]
           c == CharacterOf(q)
<1>1. pc[q] \in {"patch", "orphan"} /\ t \in Pods /\ c \in Characters
  BY RequestType DEF IInv, TargetChosen
<1>2. pods'[t].version = seen[q] /\ pods'[t].phase # "absent"
  BY DEF VersionMatches
<1>3. seen[q] <= revision /\ seen[q] \in Nat /\ revision \in Nat
  BY DEF IInv, VersionsKnown, TypeOK, ClusterTypeOK
<1>4. KeptFor(t)
  BY <1>1, <1>2, <1>3 DEF ClusterMoves
<1>5. VersionMatches(q)
  BY <1>2, <1>4 DEF KeptFor, VersionMatches
<1>6. /\ Serving(t) /\ pods[t].label[c] # "Used"
      /\ Cardinality(CharactersOn(t) \ {c}) < MaxCharactersPerServer
  BY <1>1, <1>5 DEF IInv, ListStillTrue
<1>7. /\ IsFiniteSet(CharactersOn(t) \ {c})
      /\ (CharactersOn(t)' \ {c}) \in SUBSET (CharactersOn(t) \ {c})
  BY <1>4, OccupantsFinite, FS_Subset DEF KeptFor
<1>8. /\ Cardinality(CharactersOn(t)' \ {c}) <= Cardinality(CharactersOn(t) \ {c})
      /\ Cardinality(CharactersOn(t)' \ {c}) \in Nat
      /\ Cardinality(CharactersOn(t) \ {c}) \in Nat
  BY <1>7, FS_Subset, FS_CardinalityType
<1>9. Cardinality(CharactersOn(t)' \ {c}) < MaxCharactersPerServer
  BY <1>6, <1>8, ClusterAssumption
<1>10. Serving(t)' /\ pods'[t].label[c] # "Used"
  BY <1>1, <1>4, <1>6 DEF KeptFor, Serving
<1> QED BY <1>9, <1>10

\* No query knows a version that has not been given out.
LEMMA VersionsKept ==
  ASSUME IInv, TypeOK', ClusterMoves,
         \A q \in Queries : seen'[q] = seen[q] \/ seen'[q] <= revision
  PROVE  VersionsKnown'
<1>1. revision \in Nat /\ revision' \in Nat /\ revision <= revision'
  BY DEF IInv, TypeOK, ClusterTypeOK, ClusterMoves
<1>2. ASSUME NEW p \in Pods PROVE pods'[p].version <= revision'
  <2>1. pods[p].version \in Nat /\ pods[p].version <= revision
    BY DEF IInv, VersionsKnown, TypeOK, ClusterTypeOK, Pod
  <2>2. pods'[p].version = pods[p].version \/ pods'[p].version = revision'
    BY <1>1 DEF ClusterMoves, KeptFor
  <2> QED BY <1>1, <2>1, <2>2
<1>3. ASSUME NEW q \in Queries PROVE seen'[q] <= revision'
  <2>1. seen[q] \in Nat /\ seen'[q] \in Nat
    BY DEF IInv, TypeOK
  <2>2. seen[q] <= revision
    BY DEF IInv, VersionsKnown
  <2> QED BY <1>1, <2>1, <2>2
<1> QED BY <1>2, <1>3 DEF VersionsKnown

\* Only the director's label write adds an occupant.
LEMMA CapacityKept ==
  ASSUME CapacityRespected, \A p \in Pods : CharactersOn(p)' \subseteq CharactersOn(p)
  PROVE  CapacityRespected'
<1> SUFFICES ASSUME NEW p \in Pods
             PROVE  Cardinality(CharactersOn(p)') <= MaxCharactersPerServer
  BY DEF CapacityRespected
<1>1. Cardinality(CharactersOn(p)) <= MaxCharactersPerServer
  BY DEF CapacityRespected
<1>2. CharactersOn(p)' \in SUBSET CharactersOn(p)
  OBVIOUS
<1>3. /\ Cardinality(CharactersOn(p)') <= Cardinality(CharactersOn(p))
      /\ Cardinality(CharactersOn(p)') \in Nat /\ Cardinality(CharactersOn(p)) \in Nat
  BY <1>2, OccupantsFinite, FS_Subset, FS_CardinalityType
<1> QED BY <1>1, <1>3, ClusterAssumption

\* A guarded label write is an assignment of the contract, and fits.
LEMMA WriteIsAssignment ==
  ASSUME IInv, NEW q \in Queries, pc[q] \in {"patch", "orphan"}, VersionMatches(q),
         SetLabel(target[q], CharacterOf(q), "Allocated")
  PROVE  Assign(target[q], CharacterOf(q)) /\ CapacityRespected'
<1> DEFINE t == target[q]
           c == CharacterOf(q)
<1>1. /\ t \in Pods /\ c \in Characters
      /\ Serving(t) /\ pods[t].label[c] # "Used"
      /\ Cardinality(CharactersOn(t) \ {c}) < MaxCharactersPerServer
  BY RequestType DEF IInv, TargetChosen, ListStillTrue
<1>2. HasRoom(t, c)
  <2>1. CASE c \in CharactersOn(t)
    BY <2>1 DEF HasRoom
  <2>2. CASE c \notin CharactersOn(t)
    <3>1. CharactersOn(t) \ {c} = CharactersOn(t)
      BY <2>2
    <3> QED BY <1>1, <3>1 DEF HasRoom
  <2> QED BY <2>1, <2>2
<1>3. ASSUME NEW p \in Pods
      PROVE  CharactersOn(p)' \subseteq CharactersOn(p) \/ (p = t /\ CharactersOn(p)' \subseteq CharactersOn(t) \cup {c})
  <2>1. pods[p] \in Pod /\ pods[t] \in Pod
    BY <1>1 DEF IInv, TypeOK, ClusterTypeOK
  <2>2. CASE UNCHANGED clusterVars
    BY <2>2 DEF clusterVars, CharactersOn
  <2>3. CASE pods' = [pods EXCEPT ![t] = [[pods[t] EXCEPT !.label[c] = "Allocated"]
                                            EXCEPT !.version = revision + 1]]
    <3>1. CASE p = t
      <4>1. \A d \in Characters : d # c => pods'[t].label[d] = pods[t].label[d]
        BY <1>1, <2>1, <2>3 DEF IInv, TypeOK, ClusterTypeOK, Pod
      <4> QED BY <3>1, <4>1 DEF CharactersOn
    <3>2. CASE p # t
      BY <2>3, <3>2 DEF IInv, TypeOK, ClusterTypeOK, CharactersOn
    <3> QED BY <3>1, <3>2
  <2> QED BY <2>2, <2>3 DEF SetLabel, Store
<1>4. ASSUME NEW p \in Pods PROVE Cardinality(CharactersOn(p)') <= MaxCharactersPerServer
  <2>1. CASE CharactersOn(p)' \subseteq CharactersOn(p)
    <3>1. /\ Cardinality(CharactersOn(p)') <= Cardinality(CharactersOn(p))
          /\ Cardinality(CharactersOn(p)') \in Nat /\ Cardinality(CharactersOn(p)) \in Nat
      BY <2>1, OccupantsFinite, FS_Subset, FS_CardinalityType
    <3>2. Cardinality(CharactersOn(p)) <= MaxCharactersPerServer
      BY DEF IInv, CapacityRespected
    <3> QED BY <3>1, <3>2, ClusterAssumption
  <2>2. CASE p = t /\ CharactersOn(p)' \subseteq CharactersOn(t) \cup {c}
    <3> DEFINE others == CharactersOn(t) \ {c}
    <3>1. IsFiniteSet(others)
      BY OccupantsFinite, FS_RemoveElement
    <3>2. /\ Cardinality(others \cup {c}) = Cardinality(others) + 1
          /\ IsFiniteSet(others \cup {c})
      BY <3>1, FS_AddElement
    <3>3. CharactersOn(p)' \in SUBSET (others \cup {c})
      BY <2>2
    <3>4. /\ Cardinality(CharactersOn(p)') <= Cardinality(others \cup {c})
          /\ Cardinality(CharactersOn(p)') \in Nat /\ Cardinality(others) \in Nat
      BY <3>1, <3>2, <3>3, FS_Subset, FS_CardinalityType
    <3> QED BY <1>1, <3>2, <3>4, ClusterAssumption
  <2> QED BY <1>3, <2>1, <2>2
<1> QED BY <1>1, <1>2, <1>4 DEF Assign, CapacityRespected

\* Selection establishes what the guard will stand for.
LEMMA SelectLists ==
  ASSUME IInv, TypeOK', NEW q \in Queries, Select(q)
  PROVE  ListStillTrue' /\ VersionsKnown'
<1>1. PICK p \in Pods :
        /\ Selected(q, p)
        /\ target' = [target EXCEPT ![q] = p]
        /\ seen' = [seen EXCEPT ![q] = pods[p].version]
        /\ pc' = [pc EXCEPT ![q] = IF pods[p].label[CharacterOf(q)] = "Used"
                                   THEN "route" ELSE "patch"]
  BY DEF Select
<1>2. UNCHANGED clusterVars
  BY DEF Select
<1>3. VersionsKnown'
  BY <1>1, <1>2 DEF IInv, VersionsKnown, TypeOK, clusterVars
<1>4. ASSUME NEW r \in Queries, pc'[r] \in {"patch", "orphan"}, VersionMatches(r)'
      PROVE  /\ Serving(target'[r])
             /\ pods[target'[r]].label[CharacterOf(r)] # "Used"
             /\ Cardinality(CharactersOn(target'[r]) \ {CharacterOf(r)})
                  < MaxCharactersPerServer
  <2>1. CASE r = q
    <3>1. target'[r] = p /\ pods[p].label[CharacterOf(q)] # "Used"
      BY <1>1, <1>4, <2>1 DEF IInv, TypeOK
    <3>2. Serving(p) /\ HasRoom(p, CharacterOf(q))
      BY <1>1 DEF Selected, Eligible
    <3>3. /\ Cardinality(CharactersOn(p)) <= MaxCharactersPerServer
          /\ Cardinality(CharactersOn(p)) \in Nat
      BY OccupantsFinite, FS_CardinalityType DEF IInv, CapacityRespected
    <3>4. Cardinality(CharactersOn(p) \ {CharacterOf(q)})
            = IF CharacterOf(q) \in CharactersOn(p)
              THEN Cardinality(CharactersOn(p)) - 1 ELSE Cardinality(CharactersOn(p))
      BY OccupantsFinite, FS_RemoveElement
    <3>5. Cardinality(CharactersOn(p) \ {CharacterOf(q)}) < MaxCharactersPerServer
      BY <3>2, <3>3, <3>4, ClusterAssumption DEF HasRoom
    <3> QED BY <2>1, <3>1, <3>2, <3>5
  <2>2. CASE r # q
    <3>1. pc[r] = pc'[r] /\ target'[r] = target[r] /\ seen'[r] = seen[r]
      BY <1>1, <2>2 DEF IInv, TypeOK
    <3>2. VersionMatches(r)
      BY <1>2, <1>4, <3>1 DEF VersionMatches, clusterVars
    <3> QED BY <1>4, <3>1, <3>2 DEF IInv, ListStillTrue
  <2> QED BY <2>1, <2>2
<1>5. \A r \in Queries :
        /\ Serving(target[r])' <=> Serving(target'[r])
        /\ CharactersOn(target[r])' = CharactersOn(target'[r])
        /\ pods'[target'[r]].label[CharacterOf(r)] = pods[target'[r]].label[CharacterOf(r)]
  BY <1>2 DEF Serving, CharactersOn, clusterVars
<1>6. ListStillTrue'
  BY <1>4, <1>5 DEF ListStillTrue, CharacterOf
<1> QED BY <1>3, <1>6

-----------------------------------------------------------------------------
(* The invariant holds, and with it the theorems. *)

\* The inductive invariant holds initially.
LEMMA InitIInv == Init => IInv
<1> SUFFICES ASSUME Init PROVE IInv
  OBVIOUS
<1>1. VersionsKnown
  BY DEF Init, ClusterInit, VersionsKnown
<1>2. \A p \in Pods : CharactersOn(p) = {}
  BY DEF Init, ClusterInit, CharactersOn, NoLabels, VisibleLabels
<1>3. CapacityRespected
  BY <1>2, FS_EmptySet, ClusterAssumption DEF CapacityRespected
<1>4. ListStillTrue
  BY DEF Init, ListStillTrue
<1> QED BY <1>1, <1>3, <1>4, InitType DEF IInv

\* What each step is to the cluster, and to the queries that may still write.
LEMMA StepKinds ==
  ASSUME IInv, NEW q \in Queries, QueryStep(q)
  PROVE  \/ Select(q)
         \/ /\ pc[q] \in {"patch", "orphan"} /\ VersionMatches(q)
            /\ SetLabel(target[q], CharacterOf(q), "Allocated")
            /\ UNCHANGED <<target, seen>>
            /\ \A r \in Queries : pc'[r] \in {"patch", "orphan"} => pc[r] \in {"patch", "orphan"}
         \/ /\ UNCHANGED <<clusterVars, target, seen>>
            /\ \A r \in Queries : pc'[r] \in {"patch", "orphan"} => pc[r] \in {"patch", "orphan"}
<1> USE DEF IInv, TypeOK
<1>1. CASE Submit(q) \/ DemandAccepted(q) \/ WatchReturns(q) \/ OrphanDropped(q)
  BY <1>1 DEF Submit, DemandAccepted, WatchReturns, OrphanDropped
<1>2. CASE LockAssignments(q) \/ RelockAssignments(q)
  BY <1>2 DEF LockAssignments, RelockAssignments, Lock
<1>3. CASE \E result \in Outcomes : Answer(q, result)
  BY <1>3 DEF Answer, Return
<1>4. CASE StartColdWait(q)
  BY <1>4 DEF StartColdWait, ColdWait
<1>5. CASE AllocateCharacter(q) \/ OrphanApplied(q)
  BY <1>5 DEF AllocateCharacter, OrphanApplied
<1>6. CASE AllocateUnanswered(q) \/ InstallRoute(q)
  BY <1>6 DEF AllocateUnanswered, InstallRoute, Return
<1>7. CASE PostAnswered(q) \/ DeadlinePasses(q)
  BY <1>7 DEF PostAnswered, DeadlinePasses, taskVars
<1> QED
  BY <1>1, <1>2, <1>3, <1>4, <1>5, <1>6, <1>7
     DEF QueryStep, NoServerAvailable, DemandRefused, StartupTimeout, ClientLeaves,
         ReadFails, AllocateConflict, Outcomes

\* A step that touches no Pod and no listed target keeps the invariant.
LEMMA UntouchedKept ==
  ASSUME IInv, TypeOK', TargetChosen', UNCHANGED <<clusterVars, target, seen>>,
         \A r \in Queries : pc'[r] \in {"patch", "orphan"} => pc[r] \in {"patch", "orphan"}
  PROVE  IInv'
<1>1. ClusterMoves
  BY StillMoves DEF IInv, TypeOK
<1>2. CapacityRespected'
  BY DEF IInv, CapacityRespected, CharactersOn, clusterVars
<1> QED BY <1>1, <1>2, ListKept, VersionsKept DEF IInv

\* No step of the environment makes a character visible on a Pod.
LEMMA EnvironmentAddsNobody ==
  ASSUME ClusterTypeOK, Environment
  PROVE  \A p \in Pods : CharactersOn(p)' \subseteq CharactersOn(p)
<1>1. CASE EnvironmentWrite
  <2>1. PICK p \in Pods, object \in Pod :
          /\ Store(p, object)
          /\ \A c \in Characters :
               object.label[c] \in VisibleLabels => pods[p].label[c] \in VisibleLabels
    BY <1>1 DEF EnvironmentWrite
  <2>2. CASE UNCHANGED clusterVars
    BY <2>2 DEF clusterVars, CharactersOn
  <2>3. CASE pods' = [pods EXCEPT ![p] = [object EXCEPT !.version = revision + 1]]
    <3>1. pods'[p].label = object.label
      BY <2>3 DEF ClusterTypeOK, Pod
    <3>2. \A other \in Pods \ {p} : pods'[other] = pods[other]
      BY <2>3 DEF ClusterTypeOK
    <3> QED BY <2>1, <3>1, <3>2 DEF CharactersOn
  <2> QED BY <2>1, <2>2, <2>3 DEF Store
<1>2. CASE \E gone \in [Pods -> SUBSET Characters] : WindowsPass(gone)
  <2>1. \A p \in Pods, d \in Characters :
          pods'[p].label[d] = pods[p].label[d] \/ pods'[p].label[d] = "Expired"
    BY <1>2, WindowsPassEffect
  <2> QED BY <2>1 DEF CharactersOn, VisibleLabels
<1> QED BY <1>1, <1>2, EnvironmentWrites

\* The environment keeps the inductive invariant.
LEMMA EnvironmentKeeps ==
  ASSUME IInv, TypeOK', TargetChosen', EnvironmentStep
  PROVE  IInv'
<1>1. UNCHANGED <<pc, target, seen>> /\ Environment
  BY DEF EnvironmentStep, taskVars
<1>2. ClusterMoves
  BY <1>1, EnvironmentMoves DEF IInv, TypeOK
<1>3. \A p \in Pods : CharactersOn(p)' \subseteq CharactersOn(p)
  BY <1>1, EnvironmentAddsNobody DEF IInv, TypeOK
<1>4. CapacityRespected'
  BY <1>3, CapacityKept DEF IInv
<1> QED BY <1>1, <1>2, <1>4, ListKept, VersionsKept DEF IInv

\* Every step of a query keeps the inductive invariant.
LEMMA QueryStepKeeps ==
  ASSUME IInv, TypeOK', TargetChosen', NEW q \in Queries, QueryStep(q)
  PROVE  IInv'
<1>1. CASE Select(q)
  <2>1. CapacityRespected'
    BY <1>1 DEF Select, IInv, CapacityRespected, CharactersOn, clusterVars
  <2> QED BY <1>1, <2>1, SelectLists DEF IInv
<1>2. CASE /\ pc[q] \in {"patch", "orphan"} /\ VersionMatches(q)
           /\ SetLabel(target[q], CharacterOf(q), "Allocated")
           /\ UNCHANGED <<target, seen>>
           /\ \A r \in Queries : pc'[r] \in {"patch", "orphan"} => pc[r] \in {"patch", "orphan"}
  <2>1. CapacityRespected'
    BY <1>2, WriteIsAssignment
  <2>2. ClusterMoves
    BY <1>2, RequestType, SetLabelMoves DEF IInv, TypeOK, TargetChosen
  <2> QED BY <1>2, <2>1, <2>2, ListKept, VersionsKept DEF IInv
<1>3. CASE /\ UNCHANGED <<clusterVars, target, seen>>
           /\ \A r \in Queries : pc'[r] \in {"patch", "orphan"} => pc[r] \in {"patch", "orphan"}
  BY <1>3, UntouchedKept
<1> QED BY <1>1, <1>2, <1>3, StepKinds

\* The invariant is inductive.
LEMMA NextIInv == IInv /\ [Next]_vars => IInv'
<1> SUFFICES ASSUME IInv, [Next]_vars PROVE IInv'
  OBVIOUS
<1>1. TypeOK' /\ TargetChosen'
  BY NextType DEF IInv
<1>2. CASE EnvironmentStep
  BY <1>1, <1>2, EnvironmentKeeps
<1>3. CASE \E q \in Queries : QueryStep(q)
  BY <1>1, <1>3, QueryStepKeeps
<1>4. CASE \E d \in Directors : Crash(d)
  <2>1. UNCHANGED <<clusterVars, target, seen>>
    BY <1>4 DEF Crash
  <2>2. \A r \in Queries : pc'[r] \in {"patch", "orphan"} => pc[r] \in {"patch", "orphan"}
    BY <1>4 DEF Crash
  <2> QED BY <1>1, <2>1, <2>2, UntouchedKept
<1>5. CASE UNCHANGED vars \/ \E d \in Directors, c \in Clients : RouteTaken(d, c)
  BY <1>1, <1>5, UntouchedKept DEF vars, taskVars, RouteTaken
<1> QED BY <1>2, <1>3, <1>4, <1>5 DEF Next

\* The inductive invariant holds in every reachable state.
LEMMA Inductive == Spec => []IInv
BY InitIInv, NextIInv, PTL DEF Spec

\* No server is ever filled beyond max_characters_per_server.
THEOREM CapacityAlwaysRespected == Spec => []CapacityRespected
<1>1. IInv => CapacityRespected
  BY DEF IInv
<1> QED BY <1>1, Inductive, PTL

\* While a label write can take effect, the list behind it is still true.
THEOREM ListAlwaysTrue == Spec => []ListStillTrue
<1>1. IInv => ListStillTrue
  BY DEF IInv
<1> QED BY <1>1, Inductive, PTL

\* Every step of the query server is an atomic assignment, a step of another
\* party, or nothing to the cluster.
LEMMA StepImplements == IInv /\ [Next]_vars => [AssignmentNext]_clusterVars
<1> SUFFICES ASSUME IInv, [Next]_vars PROVE [AssignmentNext]_clusterVars
  OBVIOUS
<1>1. CASE EnvironmentStep
  BY <1>1 DEF EnvironmentStep, AssignmentNext
<1>2. ASSUME NEW q \in Queries, QueryStep(q) PROVE [AssignmentNext]_clusterVars
  <2>1. CASE Select(q)
    BY <2>1 DEF Select
  <2>2. CASE /\ pc[q] \in {"patch", "orphan"} /\ VersionMatches(q)
             /\ SetLabel(target[q], CharacterOf(q), "Allocated")
    <3>1. Assign(target[q], CharacterOf(q))
      BY <2>2, WriteIsAssignment
    <3>2. target[q] \in Pods /\ CharacterOf(q) \in Characters
      BY <2>2, RequestType DEF IInv, TargetChosen
    <3> QED BY <3>1, <3>2 DEF AssignmentNext
  <2> QED BY <1>2, <2>1, <2>2, StepKinds
<1>3. CASE \E d \in Directors : Crash(d)
  BY <1>3 DEF Crash
<1>4. CASE UNCHANGED vars \/ \E d \in Directors, c \in Clients : RouteTaken(d, c)
  BY <1>4 DEF vars, RouteTaken
<1> QED BY <1>1, <1>2, <1>3, <1>4 DEF Next

\* The query server implements the assignment contract.
THEOREM Implementation == Spec => ImplementsAssignment
<1>1. Init => ClusterInit
  BY DEF Init
<1> QED BY <1>1, StepImplements, Inductive, PTL DEF Spec, ImplementsAssignment, AssignmentSpec

-----------------------------------------------------------------------------
(* A connected player is never demoted. *)

NotDemoted(p, c) ==
  pods[p].label[c] = "Used" =>
    \/ pods'[p].label[c] \in {"Used", "Disconnected"}
    \/ pods'[p].phase = "absent"

\* An update that touches another label, or none, demotes nobody.
LEMMA StoreDemotes ==
  ASSUME ClusterTypeOK, NEW p \in Pods, NEW object \in Pod, Store(p, object),
         NEW other \in Pods, NEW c \in Characters,
         \/ object.label[c] = pods[p].label[c]
         \/ object.label[c] \in {"Used", "Disconnected"}
         \/ pods[p].label[c] # "Used"
         \/ object.phase = "absent"
  PROVE  NotDemoted(other, c)
<1>1. CASE UNCHANGED clusterVars
  BY <1>1 DEF clusterVars, NotDemoted
<1>2. CASE pods' = [pods EXCEPT ![p] = [object EXCEPT !.version = revision + 1]]
  <2>1. pods'[p].label = object.label /\ pods'[p].phase = object.phase
    BY <1>2 DEF ClusterTypeOK, Pod
  <2>2. other # p => pods'[other] = pods[other]
    BY <1>2 DEF ClusterTypeOK
  <2> QED BY <2>1, <2>2 DEF NotDemoted
<1> QED BY <1>1, <1>2 DEF Store

\* A label write demotes nobody unless the label it replaces is Used.
LEMMA SetLabelDemotes ==
  ASSUME ClusterTypeOK, NEW p \in Pods, NEW d \in Characters, NEW status \in Labels,
         SetLabel(p, d, status),
         pods[p].label[d] # "Used" \/ status = "Disconnected",
         NEW other \in Pods, NEW c \in Characters
  PROVE  NotDemoted(other, c)
<1> DEFINE object == [pods[p] EXCEPT !.label[d] = status]
<1>1. /\ object \in Pod
      /\ object.label = [pods[p].label EXCEPT ![d] = status]
      /\ pods[p].label \in [Characters -> Labels]
  BY DEF ClusterTypeOK, Pod
<1>2. \/ object.label[c] = pods[p].label[c]
      \/ object.label[c] = "Disconnected"
      \/ pods[p].label[c] # "Used"
  BY <1>1
<1>3. Store(p, object)
  BY DEF SetLabel
<1> HIDE DEF object
<1> QED BY <1>1, <1>2, <1>3, StoreDemotes

\* Controllers end a connection only by Disconnected or by deleting the Pod.
LEMMA EnvironmentDemotes ==
  ASSUME ClusterTypeOK, Environment, NEW other \in Pods, NEW c \in Characters
  PROVE  NotDemoted(other, c)
<1>6. ASSUME NEW gone \in [Pods -> SUBSET Characters], WindowsPass(gone)
      PROVE  NotDemoted(other, c)
  BY <1>6, WindowsPassEffect DEF NotDemoted
<1> SUFFICES ASSUME NEW p \in Pods, OtherWriter(p) PROVE NotDemoted(other, c)
  BY <1>6 DEF Environment
<1>1. CASE Create(p) \/ BecomeUnready(p)
  <2> DEFINE object == [pods[p] EXCEPT !.phase = "starting"]
  <2>1. object \in Pod /\ object.label = pods[p].label
    BY DEF ClusterTypeOK, Pod, Phases
  <2> QED BY <1>1, <2>1, StoreDemotes DEF Create, BecomeUnready, External
<1>2. CASE BecomeReady(p)
  <2> DEFINE object == [pods[p] EXCEPT !.phase = "ready"]
  <2>1. object \in Pod /\ object.label = pods[p].label
    BY DEF ClusterTypeOK, Pod, Phases
  <2> QED BY <1>2, <2>1, StoreDemotes DEF BecomeReady, External
<1>3. CASE Delete(p)
  <2> DEFINE object == [pods[p] EXCEPT !.phase = "absent", !.draining = FALSE,
                                       !.label = NoLabels]
  <2>1. NoLabels \in [Characters -> Labels]
    BY DEF NoLabels, Labels
  <2>2. object \in Pod /\ object.phase = "absent"
    BY <2>1 DEF ClusterTypeOK, Pod, Phases
  <2> QED BY <1>3, <2>2, StoreDemotes DEF Delete, External
<1>4. CASE \E value \in BOOLEAN : SetDraining(p, value)
  <2> PICK value \in BOOLEAN : SetDraining(p, value)
    BY <1>4
  <2> DEFINE object == [pods[p] EXCEPT !.draining = value]
  <2>1. object \in Pod /\ object.label = pods[p].label
    BY DEF ClusterTypeOK, Pod
  <2> QED BY <2>1, StoreDemotes DEF SetDraining, External
<1>5. ASSUME NEW d \in Characters,
             Connect(p, d) \/ Disconnect(p, d) \/ RemoveExpired(p, d)
      PROVE  NotDemoted(other, c)
  <2>1. {"Used", "Disconnected", "None"} \subseteq Labels
    BY DEF Labels
  <2>2. CASE Connect(p, d)
    <3>1. SetLabel(p, d, "Used") /\ pods[p].label[d] # "Used"
      BY <2>2 DEF Connect, External, SetLabel
    <3> QED BY <2>1, <3>1, SetLabelDemotes
  <2>3. CASE Disconnect(p, d)
    <3>1. SetLabel(p, d, "Disconnected")
      BY <2>3 DEF Disconnect, External, SetLabel
    <3> QED BY <2>1, <3>1, SetLabelDemotes
  <2>4. CASE RemoveExpired(p, d)
    <3>1. SetLabel(p, d, "None") /\ pods[p].label[d] # "Used"
      BY <2>4 DEF RemoveExpired, External, SetLabel
    <3> QED BY <2>1, <3>1, SetLabelDemotes
  <2> QED BY <1>5, <2>2, <2>3, <2>4
<1> QED BY <1>1, <1>2, <1>3, <1>4, <1>5 DEF OtherWriter

\* No step of the system demotes a connected player.
LEMMA StepDemotesNobody ==
  ASSUME IInv, [Next]_vars, NEW other \in Pods, NEW c \in Characters
  PROVE  NotDemoted(other, c)
<1>1. ClusterTypeOK
  BY DEF IInv, TypeOK
<1>2. CASE Environment
  BY <1>1, <1>2, EnvironmentDemotes
<1>3. CASE \E p \in Pods, d \in Characters : Assign(p, d)
  BY <1>1, <1>3, SetLabelDemotes DEF Assign, Labels
<1>4. CASE UNCHANGED clusterVars
  BY <1>4 DEF clusterVars, NotDemoted
<1> QED BY <1>2, <1>3, <1>4, StepImplements DEF AssignmentNext

\* No director ever takes a connected player's Used label away.
THEOREM NeverDemoted == Spec => UsedNeverDemoted
<1>1. IInv /\ [Next]_vars =>
        [\A p \in Pods, c \in Characters :
           pods[p].label[c] = "Used" =>
             \/ pods'[p].label[c] \in {"Used", "Disconnected"}
             \/ pods'[p].phase = "absent"]_vars
  BY StepDemotesNobody DEF NotDemoted
<1> QED BY <1>1, Inductive, PTL DEF Spec, UsedNeverDemoted
=============================================================================
