-------------------------------- MODULE Demo --------------------------------
(***************************************************************************)
(* The console's decommission demo: demo_decommission of gate/src/http.rs  *)
(* and play_dead of gate/src/demo.rs on one side, the old worker on the    *)
(* other, and the probe loops that have to notice.  Whether they do is a   *)
(* matter of time, so this module gives Probe a clock: a tick is as long   *)
(* as a probe's timeout, and everything but a sleep, a probe and the       *)
(* worker's timer is over within the tick it begins in.                    *)
(***************************************************************************)
EXTENDS Probe, OldWorker

CONSTANTS
    Target,       \* demo::target(), the only host here
    MinSleep,     \* 15 s, in ticks
    MaxSleep,     \* 15 s and the most jitter, in ticks
    ProbeTicks,   \* a probe's timeout of 3 s, in ticks
    Spare         \* the loops' failures an absence of the worker has time for

ASSUME DemoAssumption ==
    /\ Host = {Target} /\ Probeable = Host
    /\ MinSleep \in Nat \ {0} /\ MaxSleep \in Nat /\ ProbeTicks \in Nat /\ Spare \in Nat
    /\ MinSleep <= MaxSleep

VARIABLES
    step,        \* where the handler of each run is
    answer,      \* what each run's caller was told
    approved,    \* the runs sent with approved: true
    timer,       \* per loop: ticks until it wakes, or until its probe times out
    knocker,     \* history: the run whose order closed the listener last
    muddled,     \* history: runs begun beside another, or with an allow unspent
    stalls,      \* history: the loops' failures while a run's order kept the worker down
    unasked      \* history: the loops whose verdict is an error's, not the ledger's

runVars == <<step, answer, approved>>
history == <<knocker, muddled, stalls, unasked>>
vars == <<tables, probeVars, workerVars, runVars, timer, history>>

Run == Order

\* Mutant: three cycles without their jitter and their timeouts, and no slack.
MutPLAYDEAD_SECONDS == 60

PLAYDEAD_SECONDS == 90

Init ==
    /\ InitTables /\ InitProbe /\ InitWorker
    /\ step = [r \in Run |-> "idle"]
    /\ answer = [r \in Run |-> "none"]
    /\ approved \in SUBSET Run
    /\ timer \in [Container -> 1..MaxSleep]
    /\ knocker \in Run
    /\ muddled = {}
    /\ stalls = [r \in Run |-> 0]
    /\ unasked = {}

Proceed(r, point) == step' = [step EXCEPT ![r] = point]

Finish(r, what) ==
    /\ step' = [step EXCEPT ![r] = "done"]
    /\ answer' = [answer EXCEPT ![r] = what]

-----------------------------------------------------------------------------
(* demo_decommission.                                                      *)

Busy(r) == step[r] \notin {"idle", "done"}

\* A run that passes the status test while another one is under way, or after
\* one that left its allow behind.
Company(r) ==
    LET others == {q \in Run \ {r} : Busy(q)}
        playing == IF server # "listening" THEN {knocker} ELSE {}
    IN  IF others \cup stopping \cup playing # {} \/ RecentAllowExists(Target)
        THEN others \cup stopping \cup playing \cup {r} ELSE {}

\* 429 from the limiter, 503 without a client or for a failed read.
TurnAway(r) ==
    /\ step[r] = "idle"
    /\ Finish(r, "turned away")
    /\ UNCHANGED <<tables, probeVars, workerVars, approved, timer, history>>

\* Mutant: a run that was not approved asks all the same.
MutStatusTest(r) ==
    /\ step[r] = "idle"
    /\ \/ topology[Target].status # "present" /\ Finish(r, "409") /\ UNCHANGED muddled
       \/ /\ topology[Target].status = "present"
          /\ Proceed(r, "decide")
          /\ muddled' = muddled \cup Company(r)
          /\ UNCHANGED answer
    /\ UNCHANGED <<tables, probeVars, workerVars, approved, timer, knocker, stalls, unasked>>

\* "One demo at a time", as far as the row's status tells.
StatusTest(r) ==
    /\ step[r] = "idle"
    /\ \/ /\ topology[Target].status # "present"
          /\ Finish(r, "409")
          /\ UNCHANGED muddled
       \/ /\ topology[Target].status = "present"
          /\ Proceed(r, IF r \in approved THEN "decide" ELSE "knock")
          /\ muddled' = muddled \cup Company(r)
          /\ UNCHANGED answer
    /\ UNCHANGED <<tables, probeVars, workerVars, approved, timer, knocker, stalls, unasked>>

\* The policies allow service.stop, and the decision is in the ledger.
Allowed(r) ==
    /\ step[r] = "decide"
    /\ \E c \in Container : Record("allow", Target, c)
    /\ Proceed(r, "knock")
    /\ UNCHANGED <<topology, faults, removals, probeVars, workerVars, answer, approved,
                   timer, history>>

\* They refuse it: honoured, and no allow recorded.
Refused(r) ==
    /\ step[r] = "decide"
    /\ Finish(r, "refused")
    /\ UNCHANGED <<tables, probeVars, workerVars, approved, timer, history>>

\* Mutant: a decision that could not be recorded is logged, and that is all.
MutNotRecorded(r) ==
    /\ step[r] = "decide"
    /\ faults < MaxFaults
    /\ faults' = faults + 1
    /\ Proceed(r, "knock")
    /\ UNCHANGED <<topology, ledger, now, removals, probeVars, workerVars, answer, approved,
                   timer, history>>

\* 503: the flags cannot be read, or the append fails, with or without a row.
NotRecorded(r) ==
    /\ step[r] = "decide"
    /\ faults < MaxFaults
    /\ faults' = faults + 1
    /\ \/ UNCHANGED <<ledger, now>>
       \/ \E c \in Container : Record("allow", Target, c)
    /\ Finish(r, "503")
    /\ UNCHANGED <<topology, removals, probeVars, workerVars, approved, timer, history>>

\* play_dead connects and sends its request, or is refused at the closed port.
Connect(r) ==
    /\ step[r] = "knock"
    /\ \/ server = "listening" /\ Proceed(r, "sent") /\ UNCHANGED answer
       \/ server # "listening" /\ Finish(r, "502")
    /\ UNCHANGED <<tables, probeVars, workerVars, approved, timer, history>>

\* The worker takes the order.
Deliver(r) ==
    /\ step[r] = "sent"
    /\ PlayDead(r)
    /\ Proceed(r, "replied")
    /\ UNCHANGED <<tables, probeVars, answer, approved, timer, history>>

\* closeAllConnections, or a timeout before the order got there: 502.
Undelivered(r) ==
    /\ step[r] = "sent"
    /\ \/ server # "listening" /\ UNCHANGED faults
       \/ faults < MaxFaults /\ faults' = faults + 1
    /\ Finish(r, "502")
    /\ UNCHANGED <<topology, ledger, now, removals, probeVars, workerVars, approved, timer,
                   history>>

\* 200, with what to expect: an audit if the run was approved, a drift if not.
Started(r) ==
    /\ step[r] = "replied"
    /\ Finish(r, "started")
    /\ UNCHANGED <<tables, probeVars, workerVars, approved, timer, history>>

\* The reply is lost or late: 502, though the order is under way.
ReplyLost(r) ==
    /\ step[r] = "replied"
    /\ faults < MaxFaults
    /\ faults' = faults + 1
    /\ Finish(r, "502")
    /\ UNCHANGED <<topology, ledger, now, removals, probeVars, workerVars, approved, timer,
                   history>>

HandlerStep(r) ==
    \/ Allowed(r) \/ Refused(r) \/ NotRecorded(r) \/ Connect(r) \/ Deliver(r)
    \/ Undelivered(r) \/ Started(r) \/ ReplyLost(r)

-----------------------------------------------------------------------------
(* The worker and the loops, with time.                                    *)

\* The port answers probes as long as the worker listens.
Port == answers' = [h \in Host |-> server' = "listening"] /\ UNCHANGED <<task, streak>>

WorkerStops(r) ==
    /\ StopListening(r, PLAYDEAD_SECONDS)
    /\ knocker' = IF server = "listening" THEN r ELSE knocker
    /\ Port
    /\ UNCHANGED <<tables, runVars, timer, muddled, stalls, unasked>>

WorkerStarts ==
    /\ Listen \/ ListenFails
    /\ Port
    /\ UNCHANGED <<tables, runVars, timer, history>>

\* A loop wakes up, and its probe has ProbeTicks.  When the cycle is over, it
\* sleeps for 15 s and jitter.
LoopTimer(c) ==
    \/ /\ At(c, "sleep") /\ timer[c] = 0
       /\ timer' = [timer EXCEPT ![c] = ProbeTicks]
    \/ /\ At(c, "join") /\ task'[c].at = "sleep"
       /\ \E t \in MinSleep..MaxSleep : timer' = [timer EXCEPT ![c] = t]
    \/ ~At(c, "sleep") /\ task'[c].at # "sleep" /\ UNCHANGED timer

\* A verdict from the ledger replaces one from an error, and none outlives its
\* removal.
Loop(c) ==
    /\ LoopStep(c) \/ ProbeOne(c, Target)
    /\ LoopTimer(c)
    /\ unasked' = IF At(c, "claimRemoval") THEN unasked ELSE unasked \ {c}
    /\ UNCHANGED <<workerVars, runVars, knocker, muddled, stalls>>

\* A statement fails, with the verdict unwrap_or(false) if it is the query for
\* an allow; or the loop starts over with a sleep, because its container goes
\* down or the query for the hosts fails.
LoopFails(c) ==
    /\ \/ /\ StatementFails(c)
          /\ unasked' = IF At(c, "verdict") THEN unasked \cup {c} ELSE unasked \ {c}
          /\ UNCHANGED timer
       \/ /\ CrashProbe(c)
          /\ unasked' = unasked \ {c}
          /\ \E t \in MinSleep..MaxSleep : timer' = [timer EXCEPT ![c] = t]
    /\ stalls' = [stalls EXCEPT ![knocker] = IF server = "null" THEN @ + 1 ELSE @]
    /\ UNCHANGED <<workerVars, runVars, knocker, muddled>>

\* A tick passes when nothing is left to be done in this one.
Tick ==
    /\ \A r \in Run : ~Busy(r)
    /\ stopping = {} /\ reopen # 0
    /\ \A c \in Container :
          /\ timer[c] > 0
          /\ At(c, "sleep") \/ (At(c, "join") /\ task[c].results[Target] = "probing")
    /\ timer' = [c \in Container |-> timer[c] - 1]
    /\ reopen' = IF reopen = Never THEN Never ELSE reopen - 1
    /\ UNCHANGED <<tables, probeVars, server, stopping, listenErrors, runVars, history>>

Next ==
    \/ \E r \in Run : TurnAway(r) \/ StatusTest(r) \/ HandlerStep(r) \/ WorkerStops(r)
    \/ WorkerStarts
    \/ \E c \in Container : Loop(c) \/ LoopFails(c)
    \/ Tick

Spec == Init /\ [][Next]_vars

\* Time goes on, and so does what is due: handlers, the worker's timers, the
\* loops.  Nobody is obliged to start a run.
Fairness ==
    /\ WF_vars(Tick)
    /\ WF_vars(WorkerStarts)
    /\ WF_vars(\E r \in Run : HandlerStep(r) \/ WorkerStops(r))
    /\ \A c \in Container : WF_vars(Loop(c))

FairSpec == Spec /\ Fairness

-----------------------------------------------------------------------------
(* Properties.                                                             *)

\* Every variable stays in its type.
TypeOK ==
    /\ TablesOK /\ ProbeOK /\ WorkerOK
    /\ step \in [Run -> {"idle", "decide", "knock", "sent", "replied", "done"}]
    /\ answer \in [Run -> {"none", "turned away", "503", "409", "502", "refused", "started"}]
    /\ approved \subseteq Run /\ muddled \subseteq Run /\ knocker \in Run
    /\ timer \in [Container -> 0..Max({MaxSleep, ProbeTicks})]
    /\ stalls \in [Run -> 0..MaxFaults] /\ unasked \subseteq Container

\* By the time the worker listens again, the loops have counted three failures
\* and claimed the removal: 90 s are "long enough for three 15 s probe cycles
\* plus slack" (demo.rs:13), jitter and timeouts included.  The slack is good
\* for Spare failures of a statement or restarts of a container meanwhile.
KnockIsNoticed ==
    [][server = "null" /\ server' # "null" /\ stalls[knocker] <= Spare
       => topology[Target].status # "present"]_vars

\* The loops have failed no more often than that in any absence so far.
Punctual == \A r \in Run : stalls[r] <= Spare

\* The entries about a removal that a step appends.
Filed == {i \in DOMAIN ledger' \ DOMAIN ledger : ledger'[i].kind \in {"audit", "drift"}}

\* The loop that files them has asked the ledger for an allow (probe.rs:166).
Asked == \A c \in unasked : ~At(c, "recordRemoval")

\* A run that asked first is not reported as drift by a loop that could ask the
\* ledger: its allow is there before it knocks, and no audit of another removal
\* comes between (http.rs:287-290).  Any other statement may fail, any reply be
\* lost, and the container restart.
ApprovedIsNotDrift ==
    [][\A i \in Filed : Punctual /\ Asked /\ ledger'[i].kind = "drift"
                         => knocker \notin approved]_vars

Announced(r) == IF r \in approved THEN "audit" ELSE "drift"

\* A run that was started is filed as its response said it would be
\* (expectKind).
FiledAsAnnounced ==
    [][\A i \in Filed : answer[knocker] = "started" => ledger'[i].kind = Announced(knocker)]_vars

\* The same for a run that had the stage for itself: no other run was under way
\* from its status test to its end, no earlier one had left an allow behind, and
\* the ledger was asked.
FiledAsAnnouncedAlone ==
    [][\A i \in Filed :
          answer[knocker] = "started" /\ knocker \notin muddled /\ Punctual /\ Asked
            => ledger'[i].kind = Announced(knocker)]_vars

\* "It reopens on its own, so a demo never leaves the project in a degraded
\* state" (server.js:6-8): however many runs there were and however their
\* orders met, in the end the worker listens and the model knows.
DemoLeavesNoTrace ==
    <>[](server = "listening" /\ topology[Target].status \in {"present", "absent"})
=============================================================================
