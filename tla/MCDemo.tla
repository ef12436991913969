------------------------------- MODULE MCDemo -------------------------------
(* Instances of Demo for TLC. *)
EXTENDS Demo

CONSTANTS r1, r2, c1, c2

OneHost == {Target}
TwoRuns == {r1, r2}
OneContainer == {c1}
TwoContainers == {c1, c2}
NoSkew == [c \in Container |-> 0]
=============================================================================
