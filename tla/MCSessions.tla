----------------------------- MODULE MCSessions -----------------------------
(* Small instances of Sessions for TLC. *)
EXTENDS Sessions

CONSTANTS ip1, ip2, udp1, udp2, udp3, tcp1, p1, p2

\* udp3 is a socket of another client than the rest.
Owner == [f \in Flows |-> IF f = udp3 THEN ip2 ELSE ip1]

\* The second server does not map the data port of tcp1.
Mapped == [p \in Pods |-> IF p = p2 THEN Flows \ {tcp1} ELSE Flows]
=============================================================================
