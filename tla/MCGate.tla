------------------------------- MODULE MCGate -------------------------------
(* Instances of Gate for TLC. *)
EXTENDS Gate

CONSTANTS r1, r2

TwoRequests == {r1, r2}

\* A stateful service, one of the audit spine, and a plain one.
SeededViews == [h \in {"db", "gate", "oldworker"} |-> h = "db"]

Valid(a, t, m, k) == [body |-> "ok", action |-> a, target |-> t, min |-> m, key |-> k]

Hosts == {"db", "gate", "oldworker", "ghost"}

\* Everything the engine can tell apart: params matter to env.* and service.scale.
EveryInput ==
    {Valid(a, t, "missing", "missing") : a \in ServiceActions \cup {"deploy.push"}, t \in Hosts}
    \cup {Valid(a, t, "missing", k) : a \in EnvActions, t \in Hosts, k \in EnvKey}
    \cup {Valid("service.scale", t, m, "upper_secret") : t \in Hosts, m \in MinContainers}

\* A request that is under way beside it, and an unreadable one.
OtherInput ==
    {Valid("env.set", "oldworker", "missing", "lower_secret"),
     [Valid("service.stop", "db", "missing", "missing") EXCEPT !.body = "bad"]}

MCSent == [r \in TwoRequests |-> IF r = r1 THEN EveryInput ELSE OtherInput]

Ghost == {"ghost"}
=============================================================================
