-------------------------------- MODULE Probe --------------------------------
(***************************************************************************)
(* The background loop of gate/src/probe.rs, one task per container.       *)
(*                                                                         *)
(* A cycle spawns one probe per probeable row, then handles the results    *)
(* one at a time in the order they arrive.  Every await on the database is *)
(* a step of its own, because the other container, a sync or a caller of   *)
(* /v1/evaluate may change the tables in between.                          *)
(***************************************************************************)
EXTENDS Tables

CONSTANT Probeable    \* hosts whose probe_method is not 'none'

ASSUME ProbeableAssumption == Probeable \subseteq Host

VARIABLES
    answers,   \* whether each host answers a probe in time
    task,      \* each container's loop: where it is, and its local variables
    streak     \* history: failed probes of each host handled since one succeeded

probeVars == <<answers, task, streak>>

Result == {"none", "probing", "ok", "failed"}

\* The points of the loop: asleep, at join_next, or before a statement of
\* handle_success or handle_failure.
Point == {"sleep", "join", "claimReappear", "recordReappear", "resetFailures",
          "countFailure", "verdict", "claimRemoval", "recordRemoval"}

NoResults == [h \in Host |-> "none"]

Asleep == [at |-> "sleep", host |-> NoHost, audited |-> FALSE, results |-> NoResults]

InitProbe ==
    /\ answers = [h \in Host |-> TRUE]
    /\ task = [c \in Container |-> Asleep]
    /\ streak = [h \in Host |-> 0]

At(c, point) == task[c].at = point
Goto(c, point) == task' = [task EXCEPT ![c].at = point]

\* The host is dealt with: back to join_next.
Resume(c) ==
    task' = [task EXCEPT ![c].at = "join", ![c].host = NoHost, ![c].audited = FALSE]

\* Mutant: removed services are not probed again.
MutStartCycle(c) ==
    /\ At(c, "sleep")
    /\ task' = [task EXCEPT ![c].at = "join",
                  ![c].results = [h \in Host |->
                      IF h \in Probeable /\ topology[h].status = "present"
                      THEN "probing" ELSE "none"]]
    /\ UNCHANGED <<tables, answers, streak>>

\* Query the rows to probe, whatever their status, and spawn the probes.
StartCycle(c) ==
    /\ At(c, "sleep")
    /\ task' = [task EXCEPT ![c].at = "join",
                  ![c].results = [h \in Host |->
                      IF h \in Probeable /\ topology[h].status # "absent"
                      THEN "probing" ELSE "none"]]
    /\ UNCHANGED <<tables, answers, streak>>

\* probe_one comes to its answer, while the loop may be handling another.
ProbeOne(c, h) ==
    /\ task[c].results[h] = "probing"
    /\ task' = [task EXCEPT ![c].results[h] = IF answers[h] THEN "ok" ELSE "failed"]
    /\ UNCHANGED <<tables, answers, streak>>

\* set.join_next() yields some finished probe.
JoinNext(c, h) ==
    /\ At(c, "join")
    /\ task[c].results[h] \in {"ok", "failed"}
    /\ task' = [task EXCEPT ![c].at = IF task[c].results[h] = "ok"
                                      THEN "claimReappear" ELSE "countFailure",
                            ![c].host = h,
                            ![c].results[h] = "none"]
    /\ streak' = [streak EXCEPT ![h] = IF task[c].results[h] = "ok" THEN 0
                                       ELSE Min({@ + 1, FailureCap})]
    /\ UNCHANGED <<tables, answers>>

EndCycle(c) ==
    /\ At(c, "join")
    /\ task[c].results = NoResults
    /\ task' = [task EXCEPT ![c] = Asleep]
    /\ UNCHANGED <<tables, answers, streak>>

\* handle_success: UPDATE ... status='present' WHERE status IN (the Gone ones).
ClaimReappear(c) ==
    LET h == task[c].host IN
    /\ At(c, "claimReappear")
    /\ \/ /\ topology[h].status \in Gone
          /\ topology' = [topology EXCEPT ![h] = [status |-> "present", failures |-> 0]]
          /\ Goto(c, "recordReappear")
       \/ /\ topology[h].status \notin Gone
          /\ UNCHANGED topology
          /\ Goto(c, "resetFailures")
    /\ UNCHANGED <<ledger, now, faults, removals, answers, streak>>

RecordReappear(c) ==
    /\ At(c, "recordReappear")
    /\ Record("reappear", task[c].host, c)
    /\ Resume(c)
    /\ UNCHANGED <<topology, faults, removals, answers, streak>>

\* Mutant: the counter goes on where it was.
MutResetFailures(c) ==
    /\ At(c, "resetFailures")
    /\ Resume(c)
    /\ UNCHANGED <<tables, answers, streak>>

ResetFailures(c) ==
    /\ At(c, "resetFailures")
    /\ topology' = [topology EXCEPT ![task[c].host].failures = 0]
    /\ Resume(c)
    /\ UNCHANGED <<ledger, now, faults, removals, answers, streak>>

\* Mutant: only the failure that makes three is acted upon.
MutDue(failures) == failures = Threshold

\* Not (failures < 3): the counter may jump past three between two cycles.
Due(failures) == failures >= Threshold

\* handle_failure: UPDATE ... consecutive_failures+1 RETURNING, and its test.
CountFailure(c) ==
    LET h == task[c].host
        failures == Min({topology[h].failures + 1, FailureCap}) IN
    /\ At(c, "countFailure")
    /\ topology' = [topology EXCEPT ![h].failures = failures]
    /\ \/ /\ Due(failures) /\ topology[h].status = "present"
          /\ Goto(c, "verdict")
       \/ /\ ~(Due(failures) /\ topology[h].status = "present")
          /\ Resume(c)
    /\ UNCHANGED <<ledger, now, faults, removals, answers, streak>>

\* recent_allow_exists: the answer is used only after the next await.
Verdict(c) ==
    /\ At(c, "verdict")
    /\ task' = [task EXCEPT ![c].at = "claimRemoval",
                            ![c].audited = RecentAllowExists(task[c].host)]
    /\ UNCHANGED <<tables, answers, streak>>

\* Mutant: the number of rows the UPDATE changed is ignored.
MutClaimRemoval(c) ==
    /\ At(c, "claimRemoval")
    /\ ClaimRemoved(task[c].host, task[c].audited)
    /\ Goto(c, "recordRemoval")
    /\ UNCHANGED <<ledger, now, faults, answers, streak>>

\* The transition belongs to whoever finds the row still present.
ClaimRemoval(c) ==
    /\ At(c, "claimRemoval")
    /\ ClaimRemoved(task[c].host, task[c].audited)
    /\ \/ topology[task[c].host].status = "present" /\ Goto(c, "recordRemoval")
       \/ topology[task[c].host].status # "present" /\ Resume(c)
    /\ UNCHANGED <<ledger, now, faults, answers, streak>>

\* Mutant: the ledger is asked again after the claim.
MutRecordRemoval(c) ==
    /\ At(c, "recordRemoval")
    /\ Record(IF RecentAllowExists(task[c].host) THEN "audit" ELSE "drift",
              task[c].host, c)
    /\ Resume(c)
    /\ UNCHANGED <<topology, faults, removals, answers, streak>>

RecordRemoval(c) ==
    /\ At(c, "recordRemoval")
    /\ Record(IF task[c].audited THEN "audit" ELSE "drift", task[c].host, c)
    /\ Resume(c)
    /\ UNCHANGED <<topology, faults, removals, answers, streak>>

\* Where the loop goes on after an error of the statement at a point:
\* unwrap_or(0), unwrap_or(false), an early return, or just a log line.
AfterError ==
    [claimReappear |-> "resetFailures", recordReappear |-> "join",
     resetFailures |-> "join", countFailure |-> "join", verdict |-> "claimRemoval",
     claimRemoval |-> "join", recordRemoval |-> "join"]

\* A statement fails without effect.  One that takes effect and loses its
\* answer leaves the tables as if a later one of its handler had failed.
StatementFails(c) ==
    /\ faults < MaxFaults
    /\ task[c].at \in DOMAIN AfterError
    /\ IF AfterError[task[c].at] = "join" THEN Resume(c) ELSE Goto(c, AfterError[task[c].at])
    /\ faults' = faults + 1
    /\ UNCHANGED <<topology, ledger, now, removals, answers, streak>>

\* The container goes down and starts again: the loop begins by sleeping.  From
\* "sleep" it also stands for a cycle without a client or whose query fails.
CrashProbe(c) ==
    /\ faults < MaxFaults
    /\ task' = [task EXCEPT ![c] = Asleep]
    /\ faults' = faults + 1
    /\ UNCHANGED <<topology, ledger, now, removals, answers, streak>>

\* The loop's own progress, without what may go wrong.
LoopStep(c) ==
    \/ StartCycle(c) \/ (\E h \in Host : JoinNext(c, h)) \/ EndCycle(c)
    \/ ClaimReappear(c) \/ RecordReappear(c) \/ ResetFailures(c)
    \/ CountFailure(c) \/ Verdict(c) \/ ClaimRemoval(c) \/ RecordRemoval(c)

ProbeStep(c) ==
    LoopStep(c) \/ (\E h \in Host : ProbeOne(c, h)) \/ StatementFails(c) \/ CrashProbe(c)

ProbeOK ==
    /\ answers \in [Host -> BOOLEAN]
    /\ streak \in [Host -> 0..FailureCap]
    /\ task \in [Container -> [at : Point, host : Host \cup {NoHost},
                               audited : BOOLEAN, results : [Host -> Result]]]
=============================================================================
