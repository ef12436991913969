------------------------------ MODULE MCObserve ------------------------------
(* Instances of Observe for TLC. *)
EXTENDS Observe, TLC

CONSTANTS h1, h2, c1, c2, q1, q2

NoHosts == {}
OneHost == {h1}
TwoHosts == {h1, h2}
NoRequests == {}
OneRequest == {q1}
TwoRequests == {q1, q2}
OneContainer == {c1}
TwoContainers == {c1, c2}

\* All clocks agree, or the second container's is ahead.
NoSkew == [c \in Container |-> 0]
SecondAhead == [c \in Container |-> IF c = c2 THEN 2 ELSE 0]

\* Requests differ in nothing but their names.
AnyOrder == Permutations(Request)

\* The state without the history that only RemovedAfterThreeFailures reads, and
\* without a count that the ledger holds already.
NoStreak == <<tables, answers, task, syncVars, flips>>
=============================================================================
