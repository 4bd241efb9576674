-------------------------- MODULE Reconnect_proofs --------------------------
(***************************************************************************)
(* What holds of Reconnect for any number of Pods and characters and for   *)
(* all clocks and windows that keep to ReconnectAssumption.  The argument: *)
(* without a write, time only makes labels invisible, so what a director   *)
(* counted at its reading of the clock is an upper bound of what counts    *)
(* when its patch is stored.                                               *)
(***************************************************************************)
EXTENDS Reconnect, FiniteSetTheorems, TLAPS

-----------------------------------------------------------------------------
(* Writes *)

\* What every write of a Pod, the directors' or another party's, has in common:
\* it stores a well-typed object with its timestamps in order.
Write(p, object) ==
  /\ Store(p, object)
  /\ object \in Object
  /\ object.version = objects[p].version /\ object.written = objects[p].written
  /\ \A c \in Characters :
       /\ object.at[c] # NoTime => object.at[c] <= now
       /\ object.label[c] = "Disconnected" => object.at[c] # NoTime

\* The fields of a stored object.
LEMMA Fields ==
  ASSUME TypeOK, NEW p \in Pods
  PROVE  /\ objects[p] \in Object
         /\ objects[p].label \in [Characters -> {"None", "Allocated", "Used", "Disconnected"}]
         /\ objects[p].at \in [Characters -> Nat \cup {NoTime}]
         /\ objects[p].version \in Nat /\ objects[p].written \in Nat
         /\ objects[p].written <= now
         /\ now \in Nat /\ revision \in Nat
         /\ \A c \in Characters :
              /\ objects[p].at[c] # NoTime => objects[p].at[c] <= objects[p].written
              /\ objects[p].at[c] # NoTime => objects[p].at[c] <= now
              /\ objects[p].label[c] = "Disconnected" => objects[p].at[c] # NoTime
<1>1. objects[p] \in Object /\ now \in Nat /\ revision \in Nat
      /\ objects[p].written <= now /\ Dated(objects[p])
  BY DEF TypeOK
<1>2. /\ objects[p].label \in [Characters -> {"None", "Allocated", "Used", "Disconnected"}]
      /\ objects[p].at \in [Characters -> Nat \cup {NoTime}]
      /\ objects[p].version \in Nat /\ objects[p].written \in Nat
  BY <1>1 DEF Object
<1>3. ASSUME NEW c \in Characters, objects[p].at[c] # NoTime
      PROVE  objects[p].at[c] <= now
  <2>1. objects[p].at[c] \in Nat /\ objects[p].at[c] <= objects[p].written
    BY <1>1, <1>2, <1>3 DEF Dated
  <2> QED BY <1>1, <1>2, <2>1
<1> QED BY <1>1, <1>2, <1>3 DEF Dated

\* What the Pod holds after a write.
LEMMA WriteEffect ==
  ASSUME TypeOK, NEW p \in Pods, NEW object, Write(p, object)
  PROVE  /\ objects' \in [Pods -> Object] /\ revision' \in Nat
         /\ \A q \in Pods \ {p} : objects'[q] = objects[q]
         /\ objects'[p].label = object.label /\ objects'[p].at = object.at
         /\ \/ object # objects[p] /\ objects'[p].written = now
            \/ objects' = objects
<1>1. CASE object = objects[p]
  BY <1>1 DEF TypeOK, Store, Write
<1>2. CASE object # objects[p]
  <2> DEFINE stored == [object EXCEPT !.version = revision + 1, !.written = now]
  <2>1. objects' = [objects EXCEPT ![p] = stored] /\ revision' = revision + 1
    BY <1>2 DEF Store, Write
  <2>2. object \in Object /\ revision + 1 \in Nat /\ now \in Nat
    BY Fields DEF Write
  <2>3. /\ stored \in Object /\ stored.written = now
        /\ stored.label = object.label /\ stored.at = object.at
    BY <2>2 DEF Object
  <2>4. objects \in [Pods -> Object]
    BY DEF TypeOK
  <2> HIDE DEF stored
  <2> QED BY <1>2, <2>1, <2>2, <2>3, <2>4
<1> QED BY <1>1, <1>2

\* A write leaves the type invariant true.
LEMMA WriteType ==
  ASSUME TypeOK, NEW p \in Pods, NEW object, Write(p, object), UNCHANGED now
  PROVE  TypeOK'
<1>1. CASE objects' = objects
  BY <1>1, WriteEffect DEF TypeOK
<1>2. CASE objects'[p].written = now
  <2>1. Dated(objects'[p])
    BY <1>2, WriteEffect DEF Dated, Write
  <2> QED BY <1>2, <2>1, WriteEffect DEF TypeOK
<1> QED BY <1>1, <1>2, WriteEffect

-----------------------------------------------------------------------------
(* The Pods as the contract sees them *)

Clock == now + Lead

\* What the contract sees of character c's label.
Shown(object, c) ==
  IF object.label[c] = "Disconnected" /\ ~Unexpired(object.at[c], Clock)
  THEN "Expired" ELSE object.label[c]

ShownLabels(object) == [c \in Characters |-> Shown(object, c)]

\* A Pod as the contract sees it now, with its labels as one function.
LEMMA PodShown ==
  ASSUME NEW object
  PROVE  PodAt(object, Clock) = [phase |-> object.phase, draining |-> object.draining,
                                 version |-> object.version,
                                 label |-> ShownLabels(object)]
BY DEF PodAt, ShownLabels, Shown

\* A Pod as the contract sees it at any reading of the clock, field by field.
LEMMA PodFields ==
  ASSUME NEW object, NEW clock
  PROVE  PodAt(object, clock) = [phase |-> object.phase, draining |-> object.draining,
                                 version |-> object.version,
                                 label |-> PodAt(object, clock).label]
BY DEF PodAt

\* The contract's Pods are the stored ones at the present reading.
LEMMA PodNow ==
  ASSUME NEW p \in Pods
  PROVE  PodsNow[p] = PodAt(objects[p], Clock)
BY DEF PodsNow, Clock

\* A write that changes what is seen is a Store of the contract.
LEMMA StoreSimulates ==
  ASSUME TypeOK, NEW p \in Pods, NEW object, Write(p, object), UNCHANGED now,
         object # objects[p] => PodAt(object, Clock) # PodAt(objects[p], Clock)
  PROVE  Contract!Store(p, PodAt(object, Clock))
<1>1. PodsNow[p] = PodAt(objects[p], Clock)
  BY DEF PodsNow, Clock
<1>2. PodsNow' = [q \in Pods |-> PodAt(objects'[q], Clock)]
  BY DEF PodsNow, Clock
<1>3. CASE object = objects[p]
  <2>1. UNCHANGED <<objects, revision>>
    BY <1>3 DEF Write, Store
  <2>2. PodsNow' = PodsNow
    BY <2>1, <1>2 DEF PodsNow, Clock
  <2> QED BY <1>3, <1>1, <2>1, <2>2 DEF Contract!Store, Contract!clusterVars
<1>4. CASE object # objects[p]
  <2> DEFINE stored == [object EXCEPT !.version = revision + 1, !.written = now]
  <2>1. /\ revision' = revision + 1
        /\ objects' = [objects EXCEPT ![p] = stored]
    BY <1>4 DEF Write, Store
  <2>2. objects \in [Pods -> Object]
    BY DEF TypeOK
  <2>3. object \in Object
    BY DEF Write
  <2>4. /\ stored.phase = object.phase /\ stored.draining = object.draining
        /\ stored.label = object.label /\ stored.at = object.at
        /\ stored.version = revision + 1
    BY <2>3 DEF Object
  <2>5. PodAt(stored, Clock) = [PodAt(object, Clock) EXCEPT !.version = revision + 1]
    BY <2>4 DEF PodAt
  <2> HIDE DEF stored
  <2>6. PodsNow' = [PodsNow EXCEPT ![p] = PodAt(stored, Clock)]
    BY <1>2, <2>1, <2>2 DEF PodsNow, Clock
  <2> QED BY <1>1, <1>4, <2>1, <2>5, <2>6 DEF Contract!Store
<1> QED BY <1>3, <1>4

\* Character c gets another label and timestamp.
Relabelled(p, c, status, at) == [objects[p] EXCEPT !.label[c] = status, !.at[c] = at]

\* What object then is, and what the contract sees of it.
RelabelEffect(p, c, status, at, object) ==
  /\ object \in Object
  /\ object.version = objects[p].version /\ object.written = objects[p].written
  /\ object.label = [objects[p].label EXCEPT ![c] = status]
  /\ object.at = [objects[p].at EXCEPT ![c] = at]
  /\ PodAt(object, Clock) = [PodsNow[p] EXCEPT !.label[c] = Shown(object, c)]

\* A change of one label and its timestamp changes one label of the contract's Pod.
LEMMA RelabelSimulates ==
  ASSUME TypeOK, NEW p \in Pods, NEW c \in Characters,
         NEW status \in {"None", "Allocated", "Used", "Disconnected"},
         NEW at \in Nat \cup {NoTime},
         NEW object, object = Relabelled(p, c, status, at)
  PROVE  RelabelEffect(p, c, status, at, object)
<1>1. /\ objects[p] \in Object
      /\ objects[p].label \in [Characters -> {"None", "Allocated", "Used", "Disconnected"}]
      /\ objects[p].at \in [Characters -> Nat \cup {NoTime}]
  BY Fields
<1>2. /\ object \in Object
      /\ object.phase = objects[p].phase /\ object.draining = objects[p].draining
      /\ object.version = objects[p].version /\ object.written = objects[p].written
      /\ object.label = [objects[p].label EXCEPT ![c] = status]
      /\ object.at = [objects[p].at EXCEPT ![c] = at]
  BY <1>1 DEF Object, Relabelled
<1>4. \A d \in Characters :
        Shown(object, d) = IF d = c THEN Shown(object, c) ELSE Shown(objects[p], d)
  BY <1>1, <1>2 DEF Shown
<1>5. ShownLabels(object) = [ShownLabels(objects[p]) EXCEPT ![c] = Shown(object, c)]
  BY <1>4 DEF ShownLabels
<1>6. PodAt(object, Clock) = [PodsNow[p] EXCEPT !.label[c] = Shown(object, c)]
  <2>1. PodsNow[p] = [phase |-> objects[p].phase, draining |-> objects[p].draining,
                      version |-> objects[p].version, label |-> ShownLabels(objects[p])]
    BY PodNow, PodShown
  <2>2. PodAt(object, Clock)
          = [phase |-> objects[p].phase, draining |-> objects[p].draining,
             version |-> objects[p].version, label |-> ShownLabels(object)]
    BY <1>2, PodShown
  <2> QED BY <1>5, <2>1, <2>2
<1> QED BY <1>2, <1>6 DEF RelabelEffect
-----------------------------------------------------------------------------
(* The other writers *)

\* Another party's write makes nobody visible who was not.
QuietWrite(p) == \E object :
  /\ Write(p, object)
  /\ \A c \in Characters : Visible(object, c, Clock) => Visible(objects[p], c, Clock)

\* The kubelet's writes and the drain marker leave labels alone.
LEMMA PhaseSteps ==
  ASSUME TypeOK, NEW p \in Pods,
         Create(p) \/ BecomeReady(p) \/ BecomeUnready(p)
  PROVE  /\ QuietWrite(p)
         /\ Contract!Create(p) \/ Contract!BecomeReady(p) \/ Contract!BecomeUnready(p)
<1>1. ASSUME NEW kind, NEW phase \in {"starting", "ready"}, phase # objects[p].phase,
             External(kind, p, [objects[p] EXCEPT !.phase = phase])
      PROVE  /\ QuietWrite(p)
             /\ Contract!External(kind, p, [PodsNow[p] EXCEPT !.phase = phase])
  <2> DEFINE object == [objects[p] EXCEPT !.phase = phase]
  <2>1. /\ object \in Object /\ object.phase = phase
        /\ object.draining = objects[p].draining
        /\ object.version = objects[p].version /\ object.written = objects[p].written
        /\ object.label = objects[p].label /\ object.at = objects[p].at
    BY Fields DEF Object
  <2>2. Store(p, object) /\ kind \in Faults /\ revision < MaxRevision /\ UNCHANGED now
    BY <1>1 DEF External
  <2> HIDE DEF object
  <2>3. Write(p, object)
    BY <2>1, <2>2, Fields DEF Write
  <2>4. QuietWrite(p)
    BY <2>1, <2>3 DEF QuietWrite, Visible
  <2>5. PodAt(object, Clock) = [PodsNow[p] EXCEPT !.phase = phase]
    <3>1. ShownLabels(object) = ShownLabels(objects[p])
      BY <2>1 DEF ShownLabels, Shown
    <3> QED BY <2>1, <3>1, PodShown, PodNow
  <2>6. PodAt(object, Clock) # PodAt(objects[p], Clock)
    BY <1>1, <2>1 DEF PodAt
  <2> QED BY <2>2, <2>3, <2>4, <2>5, <2>6, StoreSimulates DEF Contract!External
<1>2. PodsNow[p].phase = objects[p].phase
  BY DEF PodsNow, PodAt
<1>3. CASE Create(p)
  BY <1>1, <1>2, <1>3 DEF Create, Contract!Create
<1>4. CASE BecomeReady(p)
  BY <1>1, <1>2, <1>4 DEF BecomeReady, Contract!BecomeReady
<1>5. CASE BecomeUnready(p)
  BY <1>1, <1>2, <1>5 DEF BecomeUnready, Contract!BecomeUnready
<1> QED BY <1>3, <1>4, <1>5

\* Setting or clearing the drain marker.
LEMMA DrainStep ==
  ASSUME TypeOK, NEW p \in Pods, NEW value \in BOOLEAN, SetDraining(p, value)
  PROVE  QuietWrite(p) /\ Contract!SetDraining(p, value)
<1> DEFINE object == [objects[p] EXCEPT !.draining = value]
<1>1. /\ object \in Object /\ object.phase = objects[p].phase
      /\ object.draining = value
      /\ object.version = objects[p].version /\ object.written = objects[p].written
      /\ object.label = objects[p].label /\ object.at = objects[p].at
  BY Fields DEF Object
<1>2. Store(p, object) /\ "drain" \in Faults /\ revision < MaxRevision /\ UNCHANGED now
  BY DEF SetDraining, External
<1>3. objects[p].draining = value => object = objects[p]
  BY Fields DEF Object
<1> HIDE DEF object
<1>4. Write(p, object)
  BY <1>1, <1>2, Fields DEF Write
<1>5. QuietWrite(p)
  BY <1>1, <1>4 DEF QuietWrite, Visible
<1>6. PodAt(object, Clock) = [PodsNow[p] EXCEPT !.draining = value]
  <2>1. ShownLabels(object) = ShownLabels(objects[p])
    BY <1>1 DEF ShownLabels, Shown
  <2> QED BY <1>1, <2>1, PodShown, PodNow
<1>7. object # objects[p] => PodAt(object, Clock) # PodAt(objects[p], Clock)
  BY <1>1, <1>3 DEF PodAt
<1>8. PodsNow[p].phase # "absent"
  BY DEF PodsNow, PodAt, SetDraining
<1> QED BY <1>2, <1>4, <1>5, <1>6, <1>7, <1>8, StoreSimulates
        DEF Contract!External, Contract!SetDraining

Deleted(r, label) == [r EXCEPT !.phase = "absent", !.draining = FALSE, !.label = label]

\* A deleted Pod, field by field.
LEMMA ThreeFields ==
  ASSUME NEW P, NEW V, NEW L, NEW label \in L, "absent" \in P,
         NEW r \in [phase : P, draining : BOOLEAN, version : V, label : L]
  PROVE  Deleted(r, label)
           = [phase |-> "absent", draining |-> FALSE, version |-> r.version, label |-> label]
<1> DEFINE R == [phase : P, draining : BOOLEAN, version : V, label : L]
           r1 == [r EXCEPT !.phase = "absent"]
           r2 == [r1 EXCEPT !.draining = FALSE]
           r3 == [r2 EXCEPT !.label = label]
<1>1. r1 \in R /\ r1.phase = "absent" /\ r1.version = r.version
  OBVIOUS
<1>2. r2 \in R /\ r2.phase = "absent" /\ r2.draining = FALSE /\ r2.version = r.version
  <2> HIDE DEF r1
  <2> QED BY <1>1
<1>3. /\ r3 \in R /\ r3.phase = "absent" /\ r3.draining = FALSE
      /\ r3.version = r.version /\ r3.label = label
  <2> HIDE DEF r2
  <2> QED BY <1>2
<1>4. r3 = [phase |-> "absent", draining |-> FALSE, version |-> r.version, label |-> label]
  <2> HIDE DEF r3
  <2> QED BY <1>3
<1> QED BY <1>4, Zenon DEF Deleted

\* A deletion takes the labels and the timestamps with it.
LEMMA DeleteStep ==
  ASSUME TypeOK, NEW p \in Pods, Delete(p)
  PROVE  QuietWrite(p) /\ Contract!Delete(p)
<1> DEFINE labels == [c \in Characters |-> "None"]
           times == [c \in Characters |-> NoTime]
           object == [objects[p] EXCEPT !.phase = "absent", !.draining = FALSE,
                                        !.label = labels, !.at = times]
<1>1. /\ labels \in [Characters -> {"None", "Allocated", "Used", "Disconnected"}]
      /\ times \in [Characters -> Nat \cup {NoTime}]
      /\ objects[p] \in Object
  BY Fields
<1>2. /\ object \in Object /\ object.phase = "absent" /\ object.draining = FALSE
      /\ object.version = objects[p].version /\ object.written = objects[p].written
      /\ object.label = labels /\ object.at = times
  BY <1>1 DEF Object
<1>3. /\ Store(p, object) /\ "delete" \in Faults /\ revision < MaxRevision /\ UNCHANGED now
      /\ objects[p].phase # "absent"
  BY DEF Delete, External
<1>4. \A c \in Characters : labels[c] = "None" /\ times[c] = NoTime
  OBVIOUS
<1> HIDE DEF object
<1>5. Write(p, object)
  BY <1>2, <1>3, <1>4 DEF Write
<1>6. QuietWrite(p)
  BY <1>2, <1>4, <1>5 DEF QuietWrite, Visible
<1>7. PodAt(object, Clock) = [PodsNow[p] EXCEPT !.phase = "absent", !.draining = FALSE,
                                                !.label = labels]
  <2>1. ShownLabels(object) = labels
    BY <1>2, <1>4 DEF ShownLabels, Shown
  <2>2. PodsNow[p] = [phase |-> objects[p].phase, draining |-> objects[p].draining,
                      version |-> objects[p].version, label |-> ShownLabels(objects[p])]
    BY PodNow, PodShown
  <2>3. PodAt(object, Clock) = [phase |-> "absent", draining |-> FALSE,
                                version |-> objects[p].version, label |-> labels]
    BY <1>2, <2>1, PodShown
  <2> DEFINE before == PodsNow[p]
             Phases == {"absent", objects[p].phase}
             Versions == {objects[p].version}
             Labels == {labels, ShownLabels(objects[p])}
  <2>4. /\ before \in [phase : Phases, draining : BOOLEAN, version : Versions, label : Labels]
        /\ before.version = objects[p].version
    BY <1>1, <2>2 DEF Object
  <2>5. labels \in Labels /\ "absent" \in Phases
    OBVIOUS
  <2> HIDE DEF labels, before, Phases, Versions, Labels
  <2>6. Deleted(before, labels)
          = [phase |-> "absent", draining |-> FALSE, version |-> objects[p].version,
             label |-> labels]
    BY <2>4, <2>5, ThreeFields
  <2>7. PodAt(object, Clock) = Deleted(before, labels)
    BY <2>3, <2>6
  <2> QED BY <2>7, Zenon DEF before, Deleted
<1>8. /\ PodAt(object, Clock) # PodAt(objects[p], Clock)
      /\ PodsNow[p].phase # "absent"
  BY <1>2, <1>3 DEF PodAt, PodsNow
<1> QED BY <1>3, <1>5, <1>6, <1>7, <1>8, StoreSimulates
        DEF Contract!External, Contract!Delete, Contract!NoLabels

\* A write of one label and its timestamp by the occupancy controller that makes
\* nobody visible is quiet, and the contract sees that label change.
LEMMA RelabelStep ==
  ASSUME TypeOK, NEW p \in Pods, NEW c \in Characters, NEW kind,
         NEW status \in {"None", "Used", "Disconnected"},
         NEW at \in Nat \cup {NoTime},
         External(kind, p, [objects[p] EXCEPT !.label[c] = status, !.at[c] = at]),
         at # NoTime => at = now,
         status = "Disconnected" => at # NoTime,
         status # "None" => Visible(objects[p], c, Clock),
         status # Shown(objects[p], c)
  PROVE  /\ QuietWrite(p)
         /\ Contract!External(kind, p, [PodsNow[p] EXCEPT !.label[c] = status])
<1> DEFINE object == [objects[p] EXCEPT !.label[c] = status, !.at[c] = at]
<1>0. object = Relabelled(p, c, status, at)
  BY DEF Relabelled
<1>2. Store(p, object) /\ kind \in Faults /\ revision < MaxRevision /\ UNCHANGED now
  BY DEF External
<1> HIDE DEF object
<1>1. /\ object \in Object
      /\ object.version = objects[p].version /\ object.written = objects[p].written
      /\ object.label = [objects[p].label EXCEPT ![c] = status]
      /\ object.at = [objects[p].at EXCEPT ![c] = at]
      /\ PodAt(object, Clock) = [PodsNow[p] EXCEPT !.label[c] = Shown(object, c)]
  <2>1. status \in {"None", "Allocated", "Used", "Disconnected"}
    OBVIOUS
  <2>2. RelabelEffect(p, c, status, at, object)
    BY <1>0, <2>1, RelabelSimulates
  <2> QED BY <2>2 DEF RelabelEffect
<1>3. /\ objects[p].label \in [Characters -> {"None", "Allocated", "Used", "Disconnected"}]
      /\ objects[p].at \in [Characters -> Nat \cup {NoTime}]
      /\ now \in Nat /\ Lead \in Nat /\ Window \in Nat /\ Lead < Window
  BY Fields, ReconnectAssumption
<1>4. \A d \in Characters :
        /\ object.at[d] # NoTime => object.at[d] <= now
        /\ object.label[d] = "Disconnected" => object.at[d] # NoTime
  BY <1>1, <1>3, Fields
<1>5. Write(p, object)
  BY <1>1, <1>2, <1>4 DEF Write
<1>6. \A d \in Characters : Visible(object, d, Clock) => Visible(objects[p], d, Clock)
  BY <1>1, <1>3 DEF Visible
<1>7. QuietWrite(p)
  BY <1>5, <1>6 DEF QuietWrite
<1>8. Shown(object, c) = status
  BY <1>1, <1>3 DEF Shown, Unexpired, Clock
<1>9. PodAt(object, Clock).label[c] = status /\ PodAt(objects[p], Clock).label[c] # status
  BY <1>8 DEF PodAt, Shown
<1>10. Contract!Store(p, PodAt(object, Clock))
  BY <1>2, <1>5, <1>9, StoreSimulates
<1>11. PodAt(object, Clock) = [PodsNow[p] EXCEPT !.label[c] = status]
  BY <1>1, <1>8
<1> QED BY <1>2, <1>7, <1>10, <1>11 DEF Contract!External

\* Connections, disconnections and the removal of expired labels.  It takes the
\* relations between the two windows and the two clocks.
LEMMA OccupancySteps ==
  ASSUME TypeOK, NEW p \in Pods, NEW c \in Characters,
         Connect(p, c) \/ Disconnect(p, c) \/ RemoveExpired(p, c)
  PROVE  /\ QuietWrite(p)
         /\ Contract!Connect(p, c) \/ Contract!Disconnect(p, c) \/ Contract!RemoveExpired(p, c)
<1>1. /\ now \in Nat /\ Lead \in Nat /\ Window \in Nat /\ ReturnWindow \in Nat
      /\ Retention \in Nat
      /\ ReturnWindow + Lead <= Window /\ Window <= Retention + Lead
  BY Fields, ReconnectAssumption
<1>2. /\ objects[p].label[c] = "Disconnected" =>
           objects[p].at[c] \in Nat /\ objects[p].at[c] <= now
      /\ NoTime \in Nat \cup {NoTime} /\ now \in Nat \cup {NoTime}
  BY Fields
<1>3. PodsNow[p].label[c] = Shown(objects[p], c)
  BY DEF PodsNow, PodAt, Shown, Clock
<1>4. CASE Connect(p, c)
  <2>1. /\ Visible(objects[p], c, Clock)
        /\ Shown(objects[p], c) \in {"Allocated", "Disconnected"}
    BY <1>1, <1>2, <1>4 DEF Connect, MayReturn, Visible, Unexpired, Clock, Shown
  <2>2. /\ QuietWrite(p)
        /\ Contract!External("connect", p, [PodsNow[p] EXCEPT !.label[c] = "Used"])
    BY <1>2, <1>4, <2>1, RelabelStep DEF Connect
  <2> QED BY <1>3, <2>1, <2>2 DEF Contract!Connect
<1>5. CASE Disconnect(p, c)
  <2>1. Visible(objects[p], c, Clock) /\ Shown(objects[p], c) = "Used"
    BY <1>5 DEF Disconnect, Visible, Shown
  <2>2. /\ QuietWrite(p)
        /\ Contract!External("disconnect", p,
                             [PodsNow[p] EXCEPT !.label[c] = "Disconnected"])
    <3>1. now # NoTime
      BY <1>1, ReconnectAssumption
    <3> QED BY <1>2, <1>5, <2>1, <3>1, RelabelStep DEF Disconnect
  <2> QED BY <1>3, <2>1, <2>2 DEF Contract!Disconnect
<1>6. CASE RemoveExpired(p, c)
  <2>1. Shown(objects[p], c) = "Expired"
    BY <1>1, <1>2, <1>6 DEF RemoveExpired, Unexpired, Clock, Shown
  <2>2. /\ QuietWrite(p)
        /\ Contract!External("remove", p, [PodsNow[p] EXCEPT !.label[c] = "None"])
    BY <1>2, <1>6, <2>1, RelabelStep DEF RemoveExpired
  <2> QED BY <1>3, <2>1, <2>2 DEF Contract!RemoveExpired
<1> QED BY <1>4, <1>5, <1>6

-----------------------------------------------------------------------------
(* Places *)

\* The strengthening of the capacity bound: it held when the version was stored,
\* which is before any reading of the clock that is used with that version.
RoomAtWrite == \A p \in Pods :
  Cardinality(OccupantsAt(objects[p], objects[p].written + Lead)) <= MaxCharactersPerServer

\* Occupants can be counted.
LEMMA OccupantsFinite ==
  ASSUME NEW object, NEW clock
  PROVE  /\ IsFiniteSet(OccupantsAt(object, clock))
         /\ Cardinality(OccupantsAt(object, clock)) \in Nat
<1>1. OccupantsAt(object, clock) \in SUBSET Characters
  BY DEF OccupantsAt
<1> QED BY <1>1, FS_Subset, FS_CardinalityType, ReconnectAssumption

\* Without a write, time makes labels invisible and never visible again.
LEMMA OccupantsShrink ==
  ASSUME TypeOK, NEW p \in Pods, NEW early \in Nat, NEW late \in Nat,
         objects[p].written <= early, early <= late
  PROVE  OccupantsAt(objects[p], late + Lead) \subseteq OccupantsAt(objects[p], early + Lead)
<1> SUFFICES ASSUME NEW c \in Characters, Visible(objects[p], c, late + Lead)
             PROVE  Visible(objects[p], c, early + Lead)
  BY DEF OccupantsAt
<1>1. objects[p].label[c] = "Disconnected" =>
        /\ objects[p].at[c] \in Nat /\ objects[p].at[c] <= objects[p].written
        /\ objects[p].written \in Nat
  BY Fields
<1> QED BY <1>1, ReconnectAssumption DEF Visible, Unexpired

\* So the bound holds at every later reading.
LEMMA RoomLater ==
  ASSUME TypeOK, RoomAtWrite, NEW p \in Pods, NEW clock \in Nat, objects[p].written <= clock
  PROVE  Cardinality(OccupantsAt(objects[p], clock + Lead)) <= MaxCharactersPerServer
<1>1. objects[p].written \in Nat /\ MaxCharactersPerServer \in Nat
  BY Fields, ReconnectAssumption
<1> DEFINE then == OccupantsAt(objects[p], objects[p].written + Lead)
           later == OccupantsAt(objects[p], clock + Lead)
<1>2. later \in SUBSET then
  <2>1. objects[p].written <= objects[p].written
    BY <1>1
  <2>2. later \subseteq then
    BY <1>1, <2>1, OccupantsShrink
  <2> QED BY <2>2
<1>3. Cardinality(later) <= Cardinality(then)
  BY <1>2, OccupantsFinite, FS_Subset
<1>4. Cardinality(then) <= MaxCharactersPerServer
  BY DEF RoomAtWrite
<1>5. Cardinality(later) \in Nat /\ Cardinality(then) \in Nat
  BY OccupantsFinite
<1> HIDE DEF then, later
<1>6. Cardinality(later) <= MaxCharactersPerServer
  BY <1>1, <1>3, <1>4, <1>5
<1> QED BY <1>6 DEF later

\* A write that fills no server too far keeps the bound.
LEMMA RoomAfterWrite ==
  ASSUME TypeOK, RoomAtWrite, NEW p \in Pods, NEW object, Write(p, object), UNCHANGED now,
         Cardinality(OccupantsAt(object, Clock)) <= MaxCharactersPerServer
  PROVE  RoomAtWrite'
<1>1. CASE objects' = objects
  BY <1>1 DEF RoomAtWrite
<1>2. CASE objects'[p].written = now
  <2>1. OccupantsAt(objects'[p], objects'[p].written + Lead) = OccupantsAt(object, Clock)
    BY <1>2, WriteEffect DEF OccupantsAt, Visible, Clock
  <2>2. \A q \in Pods \ {p} : objects'[q] = objects[q]
    BY WriteEffect
  <2> QED BY <2>1, <2>2 DEF RoomAtWrite
<1> QED BY <1>1, <1>2, WriteEffect

\* Quiet writes keep the bound.
LEMMA RoomAfterQuietWrite ==
  ASSUME TypeOK, RoomAtWrite, NEW p \in Pods, QuietWrite(p), UNCHANGED now
  PROVE  RoomAtWrite'
<1>1. PICK object : /\ Write(p, object)
                    /\ \A c \in Characters : Visible(object, c, Clock) =>
                                             Visible(objects[p], c, Clock)
  BY DEF QuietWrite
<1> DEFINE before == OccupantsAt(objects[p], Clock)
           after == OccupantsAt(object, Clock)
<1>2. after \in SUBSET before
  BY <1>1 DEF OccupantsAt
<1>3. Cardinality(before) <= MaxCharactersPerServer
  BY Fields, RoomLater DEF Clock
<1>4. /\ Cardinality(before) \in Nat /\ Cardinality(after) \in Nat
      /\ IsFiniteSet(before) /\ MaxCharactersPerServer \in Nat
  BY OccupantsFinite, ReconnectAssumption
<1> HIDE DEF before, after
<1>5. Cardinality(after) <= Cardinality(before)
  BY <1>2, <1>4, FS_Subset
<1>6. Cardinality(after) <= MaxCharactersPerServer
  BY <1>3, <1>4, <1>5
<1> QED BY <1>1, <1>6, RoomAfterWrite DEF after

\* The occupants the contract counts.
LEMMA SameOccupants ==
  ASSUME TypeOK, NEW p \in Pods
  PROVE  Contract!CharactersOn(p) = OccupantsAt(objects[p], Clock)
<1>1. \A c \in Characters :
        PodsNow[p].label[c] \in Contract!VisibleLabels <=> Visible(objects[p], c, Clock)
  BY Fields DEF PodsNow, PodAt, Contract!VisibleLabels, Visible, Clock
<1> QED BY <1>1 DEF Contract!CharactersOn, OccupantsAt

\* An assignment that was right at an earlier reading of the clock fits when it is
\* stored.
LEMMA PlaceFits ==
  ASSUME TypeOK, RoomAtWrite, NEW p \in Pods, NEW c \in Characters,
         NEW listed \in Nat, objects[p].written <= listed, listed <= now,
         Selectable(objects[p], c, listed + Lead)
  PROVE  /\ Cardinality(OccupantsAt(objects[p], Clock) \cup {c}) <= MaxCharactersPerServer
         /\ \/ c \in OccupantsAt(objects[p], Clock)
            \/ Cardinality(OccupantsAt(objects[p], Clock)) < MaxCharactersPerServer
<1> DEFINE then == OccupantsAt(objects[p], listed + Lead)
           before == OccupantsAt(objects[p], Clock)
<1>1. before \in SUBSET then
  BY Fields, OccupantsShrink DEF Clock
<1>2. /\ Cardinality(then) <= MaxCharactersPerServer
      /\ c \in then \/ Cardinality(then) < MaxCharactersPerServer
  BY RoomLater DEF Selectable, OccupantsAt
<1>3. /\ Cardinality(then) \in Nat /\ Cardinality(before) \in Nat
      /\ IsFiniteSet(before) /\ IsFiniteSet(then) /\ MaxCharactersPerServer \in Nat
  BY OccupantsFinite, ReconnectAssumption
<1> HIDE DEF before, then
<1>4. Cardinality(before) <= Cardinality(then)
  BY <1>1, <1>3, FS_Subset
<1>5. Cardinality(before \cup {c}) =
        IF c \in before THEN Cardinality(before) ELSE Cardinality(before) + 1
  BY <1>3, FS_AddElement
<1>6. Cardinality(before \cup {c}) <= MaxCharactersPerServer
  <2>1. CASE c \in then
    <3>1. before \cup {c} \in SUBSET then
      BY <1>1, <2>1
    <3>2. Cardinality(before \cup {c}) <= Cardinality(then)
      BY <1>3, <3>1, FS_Subset
    <3> QED BY <1>2, <1>3, <1>5, <3>2
  <2>2. CASE Cardinality(then) < MaxCharactersPerServer
    BY <1>3, <1>4, <1>5, <2>2
  <2> QED BY <1>2, <2>1, <2>2
<1>7. c \in before \/ Cardinality(before) < MaxCharactersPerServer
  BY <1>3, <1>5, <1>6
<1> QED BY <1>6, <1>7 DEF before

\* An assignment is a write that fits, and one the contract allows.
LEMMA PlaceStep ==
  ASSUME TypeOK, RoomAtWrite, NEW p \in Pods, NEW c \in Characters, Place(p, c)
  PROVE  /\ TypeOK' /\ RoomAtWrite'
         /\ Contract!Assign(p, c)
<1>1. PICK listed \in objects[p].written .. now : Selectable(objects[p], c, listed + Lead)
  BY DEF Place
<1>2. listed \in Nat /\ objects[p].written <= listed /\ listed <= now
  BY Fields
<1> DEFINE at == objects[p].at[c]
           object == [objects[p] EXCEPT !.label[c] = "Allocated", !.at[c] = at]
<1>0. object = Relabelled(p, c, "Allocated", at)
  BY DEF Relabelled
<1>3. object = AllocatedTo(p, c)
  BY Fields DEF AllocatedTo, Object
<1>6. objects[p].label[c] = "Allocated" => object = objects[p]
  BY <1>3, Fields DEF AllocatedTo, Object
<1>7. Store(p, object) /\ UNCHANGED now
  BY <1>3 DEF Place
<1>5. /\ objects[p].label \in [Characters -> {"None", "Allocated", "Used", "Disconnected"}]
      /\ objects[p].at \in [Characters -> Nat \cup {NoTime}]
      /\ at \in Nat \cup {NoTime}
  BY Fields
<1> HIDE DEF object, at
<1>4. /\ object \in Object
      /\ object.version = objects[p].version /\ object.written = objects[p].written
      /\ object.label = [objects[p].label EXCEPT ![c] = "Allocated"]
      /\ object.at = [objects[p].at EXCEPT ![c] = at]
      /\ PodAt(object, Clock) = [PodsNow[p] EXCEPT !.label[c] = Shown(object, c)]
  <2>1. RelabelEffect(p, c, "Allocated", at, object)
    BY <1>0, <1>5, RelabelSimulates
  <2> QED BY <2>1 DEF RelabelEffect
<1>8. Write(p, object)
  BY <1>4, <1>5, <1>7, Fields DEF Write, at
<1>9. Cardinality(OccupantsAt(object, Clock)) <= MaxCharactersPerServer
  <2>1. OccupantsAt(object, Clock) = OccupantsAt(objects[p], Clock) \cup {c}
    BY <1>4, <1>5 DEF OccupantsAt, Visible
  <2> QED BY <1>1, <1>2, <2>1, PlaceFits
<1>10. Shown(object, c) = "Allocated"
  BY <1>4, <1>5 DEF Shown
<1>11. object # objects[p] => PodAt(object, Clock) # PodAt(objects[p], Clock)
  <2>1. PodAt(object, Clock).label[c] = Shown(object, c)
        /\ PodAt(objects[p], Clock).label[c] = Shown(objects[p], c)
    BY DEF PodAt, Shown
  <2>2. objects[p].label[c] # "Allocated" => Shown(objects[p], c) # "Allocated"
    BY DEF Shown
  <2> QED BY <1>6, <1>10, <2>1, <2>2
<1>12. Contract!SetLabel(p, c, "Allocated")
  BY <1>4, <1>7, <1>8, <1>10, <1>11, StoreSimulates DEF Contract!SetLabel
<1>13. Contract!HasRoom(p, c)
  <2>1. \/ c \in OccupantsAt(objects[p], Clock)
        \/ Cardinality(OccupantsAt(objects[p], Clock)) < MaxCharactersPerServer
    BY <1>1, <1>2, PlaceFits
  <2>2. Contract!CharactersOn(p) = OccupantsAt(objects[p], Clock)
    BY SameOccupants
  <2>3. Contract!Cardinality(Contract!CharactersOn(p)) = Cardinality(Contract!CharactersOn(p))
    BY DEF Cardinality, Contract!Cardinality
  <2> QED BY <2>1, <2>2, <2>3 DEF Contract!HasRoom
<1>14. Contract!Serving(p) /\ PodsNow[p].label[c] # "Used"
  BY <1>1 DEF Selectable, Contract!Serving, PodsNow, PodAt
<1>15. Contract!Assign(p, c)
  BY <1>12, <1>13, <1>14 DEF Contract!Assign
<1> QED BY <1>7, <1>8, <1>9, <1>15, WriteType, RoomAfterWrite

\* The clock: the reconnect windows that end are those of the contract.
LEMMA TickStep ==
  ASSUME TypeOK, RoomAtWrite, Tick
  PROVE  /\ TypeOK' /\ RoomAtWrite'
         /\ \E gone \in [Pods -> SUBSET Characters] : Contract!WindowsPass(gone)
<1>1. now' = now + 1 /\ UNCHANGED <<objects, revision>> /\ "expiry" \in Faults /\ now \in Nat
  BY DEF Tick, TypeOK
<1>2. TypeOK' /\ RoomAtWrite'
  BY <1>1 DEF TypeOK, RoomAtWrite, Object
<1> DEFINE ends(p) == {c \in Characters : /\ objects[p].label[c] = "Disconnected"
                                          /\ Unexpired(objects[p].at[c], now + Lead)
                                          /\ ~Unexpired(objects[p].at[c], now + 1 + Lead)}
           gone == [p \in Pods |-> ends(p)]
           ended(p) == [c \in Characters |-> IF c \in gone[p] THEN "Expired"
                                             ELSE PodAt(objects[p], now + Lead).label[c]]
<1>3. gone \in [Pods -> SUBSET Characters]
  OBVIOUS
<1>4. ASSUME NEW p \in Pods, NEW c \in Characters
      PROVE  PodAt(objects[p], now + 1 + Lead).label[c]
               = IF c \in gone[p] THEN "Expired" ELSE PodAt(objects[p], now + Lead).label[c]
  <2>1. objects[p].label[c] = "Disconnected" =>
          objects[p].at[c] \in Nat /\ objects[p].at[c] <= now
    BY Fields
  <2> QED BY <1>1, <2>1, ReconnectAssumption DEF PodAt, Unexpired
<1>5. \A p \in Pods : PodAt(objects[p], now + 1 + Lead)
        = [PodAt(objects[p], now + Lead) EXCEPT
             !.label = ended(p)]
  <2> SUFFICES ASSUME NEW p \in Pods
               PROVE  PodAt(objects[p], now + 1 + Lead)
                        = [PodAt(objects[p], now + Lead) EXCEPT !.label = ended(p)]
    OBVIOUS
  <2>1. PodAt(objects[p], now + 1 + Lead).label = ended(p)
    BY <1>4 DEF PodAt
  <2> QED BY <2>1, PodFields
<1>6. PodsNow' = [p \in Pods |-> PodAt(objects[p], now + 1 + Lead)]
  BY <1>1 DEF PodsNow
<1>7. \A p \in Pods : \A c \in gone[p] : PodsNow[p].label[c] = "Disconnected"
  BY DEF PodsNow, PodAt
<1>8. Contract!WindowsPass(gone)
  BY <1>1, <1>5, <1>6, <1>7 DEF Contract!WindowsPass, PodsNow
<1> QED BY <1>2, <1>3, <1>8

-----------------------------------------------------------------------------
(* The theorems *)

\* The invariant holds at the start, and the contract starts there too.
LEMMA InitHolds ==
  ASSUME Init
  PROVE  TypeOK /\ RoomAtWrite /\ Contract!ClusterInit
<1>1. \A p \in Pods : objects[p] \in Object /\ Dated(objects[p]) /\ objects[p].written <= now
  BY DEF Init, Object, Dated
<1>2. TypeOK
  BY <1>1 DEF Init, TypeOK
<1>3. \A p \in Pods : \A clock : OccupantsAt(objects[p], clock) = {}
  BY DEF Init, OccupantsAt, Visible
<1>4. RoomAtWrite
  BY <1>3, FS_EmptySet, ReconnectAssumption DEF RoomAtWrite
<1>5. Contract!ClusterInit
  BY DEF Init, Contract!ClusterInit, Contract!NoLabels, PodsNow, PodAt
<1> QED BY <1>2, <1>4, <1>5

\* Every step keeps the inductive invariant and is one the contract allows.
LEMMA StepHolds ==
  ASSUME TypeOK, RoomAtWrite, [Next]_vars
  PROVE  /\ TypeOK' /\ RoomAtWrite'
         /\ [Contract!AssignmentNext]_(Contract!clusterVars)
<1>1. CASE UNCHANGED vars
  BY <1>1 DEF vars, TypeOK, RoomAtWrite, PodsNow, Contract!clusterVars
<1>2. CASE Tick
  BY <1>2, TickStep DEF Contract!AssignmentNext, Contract!Environment
<1>3. ASSUME NEW p \in Pods, Writes(p)
      PROVE  TypeOK' /\ RoomAtWrite' /\ Contract!AssignmentNext
  <2>1. CASE \E c \in Characters : Place(p, c)
    BY <2>1, PlaceStep DEF Contract!AssignmentNext
  <2>2. ASSUME QuietWrite(p), Contract!OtherWriter(p), UNCHANGED now
        PROVE  TypeOK' /\ RoomAtWrite' /\ Contract!AssignmentNext
    <3>1. TypeOK'
      BY <2>2, WriteType DEF QuietWrite
    <3> QED BY <2>2, <3>1, RoomAfterQuietWrite
            DEF Contract!AssignmentNext, Contract!Environment
  <2>3. CASE Create(p) \/ BecomeReady(p) \/ BecomeUnready(p)
    <3>1. UNCHANGED now
      BY <2>3 DEF Create, BecomeReady, BecomeUnready, External
    <3> QED BY <2>2, <2>3, <3>1, PhaseSteps DEF Contract!OtherWriter
  <2>4. CASE Delete(p)
    BY <2>2, <2>4, DeleteStep DEF Contract!OtherWriter, Delete, External
  <2>5. CASE \E value \in BOOLEAN : SetDraining(p, value)
    BY <2>2, <2>5, DrainStep DEF Contract!OtherWriter, SetDraining, External
  <2>6. ASSUME NEW c \in Characters, Connect(p, c) \/ Disconnect(p, c) \/ RemoveExpired(p, c)
        PROVE  TypeOK' /\ RoomAtWrite' /\ Contract!AssignmentNext
    <3>1. UNCHANGED now
      BY <2>6 DEF Connect, Disconnect, RemoveExpired, External
    <3> QED BY <2>2, <2>6, <3>1, OccupancySteps DEF Contract!OtherWriter
  <2> QED BY <1>3, <2>1, <2>3, <2>4, <2>5, <2>6 DEF Writes
<1> QED BY <1>1, <1>2, <1>3 DEF Next

\* Objects are well typed, no timestamp is newer than its object, and the merge
\* patch of the director never leaves a Disconnected label without a timestamp.
THEOREM TypeCorrect == Spec => []TypeOK
<1>1. Init => TypeOK /\ RoomAtWrite
  BY InitHolds
<1>2. TypeOK /\ RoomAtWrite /\ [Next]_vars => (TypeOK /\ RoomAtWrite)'
  BY StepHolds
<1> QED BY <1>1, <1>2, PTL DEF Spec

\* The director with clocks and timestamps implements the contract in which
\* reconnect windows simply end: characters_on_pod and the patch keep it whatever
\* the windows are, as long as the clocks keep to ReconnectAssumption.
THEOREM Implementation == Spec => ImplementsAssignment
<1>1. Init => TypeOK /\ RoomAtWrite /\ Contract!ClusterInit
  BY InitHolds
<1>2. TypeOK /\ RoomAtWrite /\ [Next]_vars => (TypeOK /\ RoomAtWrite)'
  BY StepHolds
<1>3. TypeOK /\ RoomAtWrite /\ [Next]_vars => [Contract!AssignmentNext]_(Contract!clusterVars)
  BY StepHolds
<1> QED BY <1>1, <1>2, <1>3, PTL DEF Spec, ImplementsAssignment, Contract!AssignmentSpec

\* A player the controller would let back in has a place on the server: selection
\* in characters_on_pod's terms never gives it away too early.
THEOREM RoomAlwaysForReturners == Spec => []RoomForReturners
<1>1. TypeOK /\ RoomAtWrite => RoomForReturners
  <2> SUFFICES ASSUME TypeOK, RoomAtWrite, NEW p \in Pods
               PROVE  Cardinality({c \in Characters :
                                     \/ objects[p].label[c] \in {"Allocated", "Used"}
                                     \/ MayReturn(p, c)}) <= MaxCharactersPerServer
    BY DEF RoomForReturners
  <2> DEFINE kept == {c \in Characters : \/ objects[p].label[c] \in {"Allocated", "Used"}
                                         \/ MayReturn(p, c)}
             counted == OccupantsAt(objects[p], Clock)
  <2>1. ASSUME NEW c \in Characters, MayReturn(p, c) PROVE Visible(objects[p], c, Clock)
    <3>1. /\ objects[p].label[c] = "Disconnected"
          /\ objects[p].at[c] \in Nat /\ objects[p].at[c] <= now
          /\ now < objects[p].at[c] + ReturnWindow /\ now \in Nat
      BY <2>1, Fields DEF MayReturn
    <3> QED BY <3>1, ReconnectAssumption DEF Visible, Unexpired, Clock
  <2>2. kept \in SUBSET counted
    BY <2>1 DEF OccupantsAt, Visible
  <2>3. Cardinality(counted) <= MaxCharactersPerServer
    BY Fields, RoomLater DEF Clock
  <2>4. /\ Cardinality(counted) \in Nat /\ IsFiniteSet(counted)
        /\ MaxCharactersPerServer \in Nat
    BY OccupantsFinite, ReconnectAssumption
  <2> HIDE DEF kept, counted
  <2>5. Cardinality(kept) \in Nat /\ Cardinality(kept) <= Cardinality(counted)
    BY <2>2, <2>4, FS_Subset, FS_CardinalityType
  <2>6. Cardinality(kept) <= MaxCharactersPerServer
    BY <2>3, <2>4, <2>5
  <2> QED BY <2>6 DEF kept
<1>2. Init => TypeOK /\ RoomAtWrite
  BY InitHolds
<1>3. TypeOK /\ RoomAtWrite /\ [Next]_vars => (TypeOK /\ RoomAtWrite)'
  BY StepHolds
<1> QED BY <1>1, <1>2, <1>3, PTL DEF Spec
=============================================================================
