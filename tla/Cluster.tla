------------------------------ MODULE Cluster ------------------------------
(***************************************************************************)
(* What the director sees of Kubernetes: the Pods of the default endpoint  *)
(* with their readiness, drain marker and character labels, the resource   *)
(* versions the API server hands out, and the steps of the parties that    *)
(* write Pods beside the director (kubelet, capacity and occupancy         *)
(* controllers).  None of those parties is in this repository: their steps *)
(* are what the director's selection, patch and watch code expects of      *)
(* them.  How the director reads a Pod is translated from pod_ready,       *)
(* pod_draining and characters_on_pod.                                     *)
(*                                                                         *)
(* A character label is abstracted to what selection can tell apart.       *)
(* "Expired" stands for every label characters_on_pod skips: above all a   *)
(* Disconnected one whose 120 s window has passed.  That happens by the    *)
(* clock alone: no Pod is written and no version changes.                  *)
(***************************************************************************)
EXTENDS Integers, FiniteSets

CONSTANTS
  Pods,                   \* names of the Pods the mapping can list
  Characters,
  MaxCharactersPerServer, \* config.max_characters_per_server
  InitiallyReady,         \* Pods that serve at the start; the others start up
  Faults,                 \* which steps of the environment may happen
  MaxRevision             \* bound: the environment writes Pods below it only

ASSUME ClusterAssumption ==
  /\ IsFiniteSet(Characters)
  /\ MaxCharactersPerServer \in Nat
  /\ InitiallyReady \subseteq Pods
  /\ MaxRevision \in Nat

VARIABLES
  pods,     \* Pod name -> its stored object
  revision  \* the newest resource version

clusterVars == <<pods, revision>>

Phases == {"absent", "starting", "ready"}
Labels == {"None", "Allocated", "Used", "Disconnected", "Expired"}

Pod == [phase : Phases, draining : BOOLEAN,
        label : [Characters -> Labels], version : Nat]

NoLabels == [c \in Characters |-> "None"]

ClusterTypeOK == pods \in [Pods -> Pod] /\ revision \in Nat

-----------------------------------------------------------------------------
(* How the director reads a Pod. *)

VisibleLabels == {"Allocated", "Used", "Disconnected"}

\* characters_on_pod: the occupants that selection counts.
CharactersOn(p) == {c \in Characters : pods[p].label[c] \in VisibleLabels}

\* pod_ready, the status query and the annotation selector, and pod_draining.
Serving(p) == pods[p].phase = "ready" /\ ~pods[p].draining

\* Faulty: a full server takes one more.
HasRoomOffByOne(p, c) ==
  c \in CharactersOn(p) \/ Cardinality(CharactersOn(p)) <= MaxCharactersPerServer

\* Selection may place character c here: it is here already, or there is room.
HasRoom(p, c) ==
  c \in CharactersOn(p) \/ Cardinality(CharactersOn(p)) < MaxCharactersPerServer

-----------------------------------------------------------------------------
(* Writes.  Every effective update gets the next version; an update that   *)
(* leaves the object as it is keeps its version.                           *)

Store(p, object) ==
  IF object = pods[p]
  THEN UNCHANGED clusterVars
  ELSE /\ revision' = revision + 1
       /\ pods' = [pods EXCEPT ![p] = [object EXCEPT !.version = revision + 1]]

\* Faulty: a label value nobody reads.
SetMisspeltLabel(p, c, status) == Store(p, [pods[p] EXCEPT !.label[c] = "allocated"])

SetLabel(p, c, status) == Store(p, [pods[p] EXCEPT !.label[c] = status])

\* A write of another party, bounded.
External(kind, p, object) ==
  /\ kind \in Faults
  /\ revision < MaxRevision
  /\ Store(p, object)

Create(p) ==
  /\ pods[p].phase = "absent"
  /\ External("create", p, [pods[p] EXCEPT !.phase = "starting"])

BecomeReady(p) ==
  /\ pods[p].phase = "starting"
  /\ External("start", p, [pods[p] EXCEPT !.phase = "ready"])

BecomeUnready(p) ==
  /\ pods[p].phase = "ready"
  /\ External("stop", p, [pods[p] EXCEPT !.phase = "starting"])

Delete(p) ==
  /\ pods[p].phase # "absent"
  /\ External("delete", p, [pods[p] EXCEPT !.phase = "absent",
                                           !.draining = FALSE,
                                           !.label = NoLabels])

SetDraining(p, value) ==
  /\ pods[p].phase # "absent"
  /\ External("drain", p, [pods[p] EXCEPT !.draining = value])

\* The occupancy controller follows the players of a running server.
Connect(p, c) ==
  /\ pods[p].label[c] \in {"Allocated", "Disconnected"}
  /\ External("connect", p, [pods[p] EXCEPT !.label[c] = "Used"])

Disconnect(p, c) ==
  /\ pods[p].label[c] = "Used"
  /\ External("disconnect", p, [pods[p] EXCEPT !.label[c] = "Disconnected"])

RemoveExpired(p, c) ==
  /\ pods[p].label[c] = "Expired"
  /\ External("remove", p, [pods[p] EXCEPT !.label[c] = "None"])

\* Time passes, and with it the reconnect windows of gone[p] on each Pod p: the
\* stored objects do not change.
WindowsPass(gone) ==
  /\ "expiry" \in Faults
  /\ \A p \in Pods : \A c \in gone[p] : pods[p].label[c] = "Disconnected"
  /\ pods' = [p \in Pods |-> [pods[p] EXCEPT !.label = [c \in Characters |->
                 IF c \in gone[p] THEN "Expired" ELSE pods[p].label[c]]]]
  /\ UNCHANGED revision

OtherWriter(p) ==
  \/ Create(p) \/ BecomeReady(p) \/ BecomeUnready(p) \/ Delete(p)
  \/ \E value \in BOOLEAN : SetDraining(p, value)
  \/ \E c \in Characters : Connect(p, c) \/ Disconnect(p, c) \/ RemoveExpired(p, c)

Environment ==
  \/ \E p \in Pods : OtherWriter(p)
  \/ \E gone \in [Pods -> SUBSET Characters] : WindowsPass(gone)

ClusterInit ==
  /\ pods = [p \in Pods |->
               [phase |-> IF p \in InitiallyReady THEN "ready" ELSE "starting",
                draining |-> FALSE, label |-> NoLabels, version |-> 0]]
  /\ revision = 0
=============================================================================
