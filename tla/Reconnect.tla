------------------------------ MODULE Reconnect ------------------------------
(***************************************************************************)
(* The reconnect window, with clocks.  A player who leaves keeps the place *)
(* on the server: the occupancy controller labels the character            *)
(* Disconnected and stores the time in an annotation of the Pod, and       *)
(* characters_on_pod counts the label for RECONNECT_SECONDS after that     *)
(* time on the DIRECTOR's clock.  Cluster knows only that the window ends  *)
(* ("Expired"); here it ends because time passes, on two clocks, and this  *)
(* module is shown to implement Assignment.                                *)
(*                                                                         *)
(* The label and the annotation are separate: the director's patch writes  *)
(* the label and leaves an old timestamp where it is.                      *)
(***************************************************************************)
EXTENDS Integers, FiniteSets

CONSTANTS
  Pods, Characters, MaxCharactersPerServer, InitiallyReady, Faults,
  MaxRevision,   \* bound, as in Cluster
  Window,        \* RECONNECT_SECONDS
  ReturnWindow,  \* the controller lets a player back in before that long
  Retention,     \* the controller removes a label no earlier than that
  Lead,          \* how far the directors' clock is ahead of the controller's
  NoTime,        \* no timestamp in the annotation
  MaxTime        \* bound: the clock stops there

\* What the controller has to keep to for the directors to be right.
ASSUME ReconnectAssumption ==
  /\ IsFiniteSet(Characters)
  /\ MaxCharactersPerServer \in Nat
  /\ InitiallyReady \subseteq Pods
  /\ MaxRevision \in Nat /\ MaxTime \in Nat
  /\ Window \in Nat /\ ReturnWindow \in Nat \ {0}
  /\ Retention \in Nat /\ Lead \in Nat
  /\ ReturnWindow + Lead <= Window
  /\ Window <= Retention + Lead
  /\ NoTime \notin Nat

VARIABLES
  objects,   \* Pod name -> its stored object
  revision,  \* the newest resource version
  now        \* the controller's clock

vars == <<objects, revision, now>>

Object == [phase : {"absent", "starting", "ready"}, draining : BOOLEAN,
           label : [Characters -> {"None", "Allocated", "Used", "Disconnected"}],
           at : [Characters -> Nat \cup {NoTime}],  \* the disconnect annotation
           version : Nat,
           written : Nat]                           \* when the version was stored

\* No timestamp is newer than the object, and every Disconnected label has one.
Dated(object) == \A c \in Characters :
  /\ object.at[c] # NoTime => object.at[c] <= object.written
  /\ object.label[c] = "Disconnected" => object.at[c] # NoTime

\* One type invariant.
TypeOK ==
  /\ objects \in [Pods -> Object]
  /\ revision \in Nat
  /\ now \in Nat
  /\ \A p \in Pods : Dated(objects[p]) /\ objects[p].written <= now

-----------------------------------------------------------------------------
(* characters_on_pod, at a reading of the director's clock. *)

\* Faulty: off by one at the end of the window.
UnexpiredTooLong(at, clock) == at <= clock /\ clock <= at + Window

\* Faulty: the director hides a player the controller still lets back in.
UnexpiredTooShort(at, clock) == at <= clock /\ clock + 1 < at + Window

Unexpired(at, clock) == at <= clock /\ clock < at + Window

Visible(object, c, clock) ==
  \/ object.label[c] \in {"Allocated", "Used"}
  \/ object.label[c] = "Disconnected" /\ Unexpired(object.at[c], clock)

OccupantsAt(object, clock) == {c \in Characters : Visible(object, c, clock)}

Selectable(object, c, clock) ==
  /\ object.phase = "ready" /\ ~object.draining
  /\ \/ Visible(object, c, clock)
     \/ Cardinality(OccupantsAt(object, clock)) < MaxCharactersPerServer
  /\ object.label[c] # "Used"

-----------------------------------------------------------------------------
(* Writes, as in Cluster. *)

Store(p, object) ==
  IF object = objects[p]
  THEN UNCHANGED <<objects, revision>>
  ELSE /\ revision' = revision + 1
       /\ objects' = [objects EXCEPT ![p] = [object EXCEPT !.version = revision + 1,
                                                           !.written = now]]

\* Faulty: the patch replaces the metadata, annotations included.
AllocatedAnew(p, c) == [objects[p] EXCEPT !.label[c] = "Allocated",
                                          !.at = [d \in Characters |-> NoTime]]

\* The merge patch of allocate_character: one label, nothing else.
AllocatedTo(p, c) == [objects[p] EXCEPT !.label[c] = "Allocated"]

\* The director reads its clock after the list, selects, and patches the listed
\* version: the reading is as old as that version at most.
Place(p, c) ==
  /\ \E listed \in objects[p].written .. now : Selectable(objects[p], c, listed + Lead)
  /\ Store(p, AllocatedTo(p, c))
  /\ UNCHANGED now

External(kind, p, object) ==
  /\ kind \in Faults
  /\ revision < MaxRevision
  /\ Store(p, object)
  /\ UNCHANGED now

Create(p) ==
  /\ objects[p].phase = "absent"
  /\ External("create", p, [objects[p] EXCEPT !.phase = "starting"])

BecomeReady(p) ==
  /\ objects[p].phase = "starting"
  /\ External("start", p, [objects[p] EXCEPT !.phase = "ready"])

BecomeUnready(p) ==
  /\ objects[p].phase = "ready"
  /\ External("stop", p, [objects[p] EXCEPT !.phase = "starting"])

Delete(p) ==
  /\ objects[p].phase # "absent"
  /\ External("delete", p, [objects[p] EXCEPT
                              !.phase = "absent", !.draining = FALSE,
                              !.label = [c \in Characters |-> "None"],
                              !.at = [c \in Characters |-> NoTime]])

SetDraining(p, value) ==
  /\ objects[p].phase # "absent"
  /\ External("drain", p, [objects[p] EXCEPT !.draining = value])

MayReturn(p, c) ==
  objects[p].label[c] = "Disconnected" /\ now < objects[p].at[c] + ReturnWindow

Connect(p, c) ==
  /\ objects[p].label[c] = "Allocated" \/ MayReturn(p, c)
  /\ External("connect", p, [objects[p] EXCEPT !.label[c] = "Used", !.at[c] = NoTime])

Disconnect(p, c) ==
  /\ objects[p].label[c] = "Used"
  /\ External("disconnect", p, [objects[p] EXCEPT !.label[c] = "Disconnected",
                                                  !.at[c] = now])

RemoveExpired(p, c) ==
  /\ objects[p].label[c] = "Disconnected"
  /\ now >= objects[p].at[c] + Retention
  /\ External("remove", p, [objects[p] EXCEPT !.label[c] = "None", !.at[c] = NoTime])

Tick ==
  /\ "expiry" \in Faults
  /\ now < MaxTime
  /\ now' = now + 1
  /\ UNCHANGED <<objects, revision>>

-----------------------------------------------------------------------------

Init ==
  /\ objects = [p \in Pods |->
                  [phase |-> IF p \in InitiallyReady THEN "ready" ELSE "starting",
                   draining |-> FALSE, label |-> [c \in Characters |-> "None"],
                   at |-> [c \in Characters |-> NoTime], version |-> 0, written |-> 0]]
  /\ revision = 0
  /\ now = 0

Writes(p) ==
  \/ Create(p) \/ BecomeReady(p) \/ BecomeUnready(p) \/ Delete(p)
  \/ \E value \in BOOLEAN : SetDraining(p, value)
  \/ \E c \in Characters : \/ Place(p, c) \/ Connect(p, c)
                           \/ Disconnect(p, c) \/ RemoveExpired(p, c)

Next == Tick \/ \E p \in Pods : Writes(p)

Spec == Init /\ [][Next]_vars

-----------------------------------------------------------------------------
(* Properties *)

\* A Pod as Cluster describes it at a reading of the director's clock: a label
\* that characters_on_pod skips is "Expired", and there are no timestamps.
PodAt(object, clock) ==
  [phase |-> object.phase, draining |-> object.draining, version |-> object.version,
   label |-> [c \in Characters |->
                IF object.label[c] = "Disconnected" /\ ~Unexpired(object.at[c], clock)
                THEN "Expired" ELSE object.label[c]]]

PodsNow == [p \in Pods |-> PodAt(objects[p], now + Lead)]

Contract == INSTANCE Assignment WITH pods <- PodsNow

\* With clocks and timestamps the director still keeps the contract of
\* Assignment: time only takes places away from players who left, an assignment
\* that rests on an older reading of the clock is one the contract allows when it
\* is written, and nobody comes back to a place that has been given away.
ImplementsAssignment == Contract!AssignmentSpec

\* A server always has the places of the players it may get back: whoever the
\* controller would let reconnect directly has not been counted out by the
\* director, and selection has not filled the server without them.
RoomForReturners ==
  \A p \in Pods :
    Cardinality({c \in Characters : \/ objects[p].label[c] \in {"Allocated", "Used"}
                                    \/ MayReturn(p, c)}) <= MaxCharactersPerServer
=============================================================================
