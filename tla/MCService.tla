----------------------------- MODULE MCService -----------------------------
(* Instances of Service for TLC. *)
EXTENDS Service

CONSTANTS c1, c2, a1, a2, w1, p1, p2, h1, h2, decision, drift

TwoContainers == {c1, c2}
TwoAppenders == {a1, a2}
OneReader == {w1}
OnePolicy == {p1}
TwoHosts == {h1, h2}
TwoKinds == {decision, drift}
DriftList == [r \in Request |-> IF r \in Reader THEN {drift} ELSE Kind]
=============================================================================
