-------------------------- MODULE MCDefaultEndpoint --------------------------
(* Small instances of DefaultEndpoint for TLC. *)
EXTENDS DefaultEndpoint, TLC

CONSTANTS p1, p2, game, voice

ByName == [p \in Pods |-> IF p = p1 THEN 1 ELSE 2]

\* The second server has no voice port.
NoVoice == [p \in Pods |-> IF p = p2 THEN Ports \ {voice} ELSE Ports]
=============================================================================
