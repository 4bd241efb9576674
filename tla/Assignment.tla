----------------------------- MODULE Assignment -----------------------------
(***************************************************************************)
(* The contract of the query server towards the cluster, free of how it is *)
(* met: a character is placed in one atomic step, on a serving Pod with    *)
(* room for it, and never over a connected player.  There are no directors *)
(* here, no lists, no locks and no versions to compare.                    *)
(***************************************************************************)
EXTENDS Cluster

\* The whole effect the director may ever have on a Pod.
Assign(p, c) ==
  /\ Serving(p)
  /\ HasRoom(p, c)
  /\ pods[p].label[c] # "Used"
  /\ SetLabel(p, c, "Allocated")

AssignmentNext == Environment \/ \E p \in Pods, c \in Characters : Assign(p, c)

AssignmentSpec == ClusterInit /\ [][AssignmentNext]_clusterVars

-----------------------------------------------------------------------------

\* The director never fills a server beyond max_characters_per_server,
\* whatever the other writers do between its list and its patch.
CapacityRespected ==
  \A p \in Pods : Cardinality(CharactersOn(p)) <= MaxCharactersPerServer
=============================================================================
