---------------------------- MODULE MCQueryServer ----------------------------
(* Small instances of QueryServer for TLC. *)
EXTENDS QueryServer, TLC

CONSTANTS d1, d2, q1, q2, q3, p1, p2, alice, bob, carol, ip1, ip2, ip3,
          tutorial, arena, group1, group2

Ask(d, client, m, c, friends) ==
  [director |-> d, client |-> client, map |-> m, character |-> c, friends |-> friends]

Among(table) == [q \in Queries |-> table[q]]

\* Two directors; alice asks at both, bob at one.
TwoDirectors == Among(
  q1 :> Ask(d1, ip1, tutorial, alice, {}) @@
  q2 :> Ask(d2, ip1, tutorial, alice, {bob}) @@
  q3 :> Ask(d1, ip2, tutorial, bob, {alice}))

\* One director; alice asks twice (a client that retries), bob once, behind the
\* same address.
RepeatedQuery == Among(
  q1 :> Ask(d1, ip1, tutorial, alice, {}) @@
  q2 :> Ask(d1, ip1, tutorial, alice, {bob}) @@
  q3 :> Ask(d1, ip1, tutorial, bob, {}))

\* One director, three players for one map.
ThreePlayers == Among(
  q1 :> Ask(d1, ip1, tutorial, alice, {}) @@
  q2 :> Ask(d1, ip2, tutorial, bob, {alice}) @@
  q3 :> Ask(d1, ip3, tutorial, carol, {}))

\* One director, two maps.
TwoMaps == Among(
  q1 :> Ask(d1, ip1, tutorial, alice, {}) @@
  q2 :> Ask(d1, ip2, arena, bob, {}) @@
  q3 :> Ask(d1, ip3, tutorial, carol, {}))

OneMap   == [p \in Pods |-> tutorial]
EachMap  == [p \in Pods |-> IF p = p1 THEN tutorial ELSE arena]
OwnGroup == tutorial :> group1 @@ arena :> group2
OneGroup == tutorial :> group1 @@ arena :> group1
Uids     == [p \in Pods |-> IF p = p1 THEN 1 ELSE 2]
=============================================================================
