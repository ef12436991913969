----------------------------- MODULE MCRateLimit -----------------------------
(* Instances of RateLimit for TLC. *)
EXTENDS RateLimit, TLC

CONSTANTS r1, r2, r3, r4, c1, c2

FourRequests == {r1, r2, r3, r4}
TwoContainers == {c1, c2}

Symmetry == Permutations(FourRequests) \cup Permutations(TwoContainers)
=============================================================================
