------------------------------- MODULE Observe -------------------------------
(***************************************************************************)
(* Observing what happened after the action: the probe loops of all        *)
(* containers, the sync handlers and the callers of /v1/evaluate, at work  *)
(* on the same two tables while services stop and start by themselves.     *)
(***************************************************************************)
EXTENDS Probe, Sync

CONSTANTS
    MaxFlips,     \* bound: services stopping or starting to answer
    MaxAllows     \* bound: allowed stops and deletes

ASSUME EnvironmentAssumption == MaxFlips \in Nat /\ MaxAllows \in Nat

VARIABLES flips, allows

vars == <<tables, probeVars, syncVars, flips, allows>>

Init ==
    /\ InitTables /\ InitProbe /\ InitSync
    /\ flips = 0 /\ allows = 0

\* A service stops answering, or answers again.
Flip(h) ==
    /\ flips < MaxFlips
    /\ flips' = flips + 1
    /\ answers' = [answers EXCEPT ![h] = ~@]
    /\ UNCHANGED <<tables, task, streak, syncVars, allows>>

\* /v1/evaluate allows service.stop or service.delete of a host of the model
\* (unknown-target refuses the others) and its append succeeds.
Authorize(c, h) ==
    /\ allows < MaxAllows
    /\ topology[h].status # "absent"
    /\ Record("allow", h, c)
    /\ allows' = allows + 1
    /\ UNCHANGED <<topology, faults, removals, probeVars, syncVars, flips>>

TimePasses ==
    /\ WindowPasses
    /\ UNCHANGED <<probeVars, syncVars, flips, allows>>

Loop(c) == LoopStep(c) /\ UNCHANGED <<syncVars, flips, allows>>

Prober(c, h) == ProbeOne(c, h) /\ UNCHANGED <<syncVars, flips, allows>>

Next ==
    \/ \E h \in Host : Flip(h) \/ \E c \in Container : Authorize(c, h)
    \/ TimePasses
    \/ \E c \in Container : ProbeStep(c) /\ UNCHANGED <<syncVars, flips, allows>>
    \/ SyncStep /\ UNCHANGED <<probeVars, flips, allows>>

Spec == Init /\ [][Next]_vars

\* tokio polls the loop, whose sleep ends, and the spawned probes, which time
\* out after 3 s.  Nobody is obliged to stop a service, to ask for an allow, to
\* sync, or to fail.
Fairness ==
    \A c \in Container : WF_vars(Loop(c)) /\ \A h \in Host : WF_vars(Prober(c, h))

FairSpec == Spec /\ Fairness

-----------------------------------------------------------------------------
(* Properties.                                                             *)

\* Every variable of the four modules stays in its type.
TypeOK ==
    /\ TablesOK /\ ProbeOK /\ SyncOK
    /\ flips \in 0..MaxFlips /\ allows \in 0..MaxAllows

\* The appends a claim still owes the ledger.
Owed(h, audited) ==
    Cardinality({c \in Container : /\ At(c, "recordRemoval")
                                   /\ task[c].host = h /\ task[c].audited = audited})
    + Cardinality({q \in Request : /\ Handling(q, "record")
                                   /\ sync[q].host = h /\ sync[q].audited = audited})

\* The entries of a kind a host has or is about to get.
Logged(h, kind) == Cardinality(EntriesOf(h, {kind})) + Owed(h, kind = "audit")

\* However many loops and syncs see the same service gone, each removal is
\* claimed by one of them and gets one entry, of the kind the claim wrote into
\* the table (probe.rs:161, "the claim below still fires exactly once").  Only a
\* sync that comes too late adds an entry to it (http.rs:468), and a crash or a
\* failed append loses at most the one it hits.
RemovalLoggedOnce ==
    \A h \in Host :
        LET audited == removals[h].audited + late[h].audited
            unaudited == removals[h].unaudited + late[h].unaudited
        IN  /\ Logged(h, "audit") \in audited - faults .. audited
            /\ Logged(h, "drift") \in unaudited - faults .. unaudited

\* Between two audits of a host, and before the first, somebody was allowed to
\* remove it: one approved stop does not launder the next one (README.md:27).
AuditsAreSingleUse ==
    \A h \in Host : \A j \in EntriesOf(h, {"audit"}) :
        \E k \in EntriesOf(h, {"allow"}) :
            k < j /\ \A i \in EntriesOf(h, {"audit"}) : i < j => i < k

\* The audits of a host, up to the j-th entry, that follow its last allow before it.
SpentOn(h, j) ==
    {i \in EntriesOf(h, {"audit"}) :
        i <= j /\ \A k \in EntriesOf(h, {"allow"}) : k < i \/ j < k}

\* How far one container's clock may be ahead of another's.
ClockSpread == Max({Skew[c] - Skew[d] : c, d \in Container})

\* With several observers an allow may be spent more than once, because each
\* keeps its verdict over an await (probe.rs:166, http.rs:466).  But nobody spends
\* it for as long as the window lasts (README.md:90): between two allows of a host
\* there is at most one audit for each loop and each sync, and as many more as
\* appends fit between the fastest and the slowest clock, whose audits can look
\* older than the allow.
AllowSpentOnceEach ==
    \A h \in Host : \A j \in EntriesOf(h, {"audit"}) :
        /\ \E k \in EntriesOf(h, {"allow"}) : k < j
        /\ Cardinality(SpentOn(h, j))
              <= Cardinality(Container) + Cardinality(Request) + ClockSpread

\* No more removals are taken as authorized than there were authorizations,
\* whether or not their audit entries made it into the ledger.
AllowCoversOneRemoval ==
    \A h \in Host : removals[h].audited <= Cardinality(EntriesOf(h, {"allow"}))

\* Except while a claim's append is under way, the model's status of a host is
\* the one the newest ledger entry about it explains.
StatusIsExplained ==
    \A h \in Host :
        \/ topology[h].status \in {"absent", ExplainedStatus(h)}
        \/ \E c \in Container :
              task[c].host = h /\ task[c].at \in {"recordReappear", "recordRemoval"}
        \/ \E q \in Request : sync[q].host = h /\ Handling(q, "record")

\* A probed service is only claimed as removed on three failed probes in a
\* row, not one answered probe among them (README.md:21).
RemovedAfterThreeFailures ==
    [][\A c \in Container :
          At(c, "claimRemoval") /\ task'[c].at = "recordRemoval"
          => streak[task[c].host] >= Threshold]_vars

\* A service of the model that keeps answering is present in the end, even if
\* its removal was audited: a host that comes back is never invisible.
BackIsSeen ==
    \A h \in Probeable :
        <>[](answers[h] /\ topology[h].status # "absent")
            => <>[](topology[h].status = "present")

\* A service that stopped for good does not stay present.
DownIsFlagged ==
    \A h \in Probeable :
        <>[](~answers[h]) => <>[](topology[h].status # "present")
=============================================================================
