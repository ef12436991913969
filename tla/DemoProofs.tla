----------------------------- MODULE DemoProofs -----------------------------
(***************************************************************************)
(* Proofs about Demo for any runs, containers, jitter, timeouts and length *)
(* of a tick.                                                              *)
(*                                                                         *)
(* The argument in two paragraphs.  A timer fits the place its loop is at, *)
(* and the worker answers as long as it listens (BaseInv).  Once the       *)
(* worker is down and a tick has passed, all probes fail: a loop needs     *)
(* three cycles at most, less those it has counted already, to claim the   *)
(* removal.  Left counts that time down.  It is less than the worker's     *)
(* timer after the first tick, because three cycles fit; and every tick    *)
(* takes as much from one as from the other, while no move of a loop adds  *)
(* to it, and a failure no more than the reserve it takes a cycle from     *)
(* (NoticeInv).  So a worker that listens again has been noticed.          *)
(*                                                                         *)
(* With one loop, then, and as long as no absence had more failures than   *)
(* it has time for, a removal is claimed and filed only while the          *)
(* worker is down, and runs are under way only while the row is present    *)
(* (DownInv, RunsInv).  From an approved run's decision to the claim its   *)
(* allow, or a later one, is neither spent nor too old (BackedInv): no     *)
(* audit is filed in between, and each run adds one entry to its age, the  *)
(* loop one reappearance.  A run that was not approved and has the stage   *)
(* for itself begins without an allow and is alone to the end, so there is *)
(* none when the verdict is given (AloneInv).                              *)
(***************************************************************************)
EXTENDS Demo, ProbeProofs

-----------------------------------------------------------------------------
(* Types.                                                                  *)

Steps == {"idle", "decide", "knock", "sent", "replied", "done"}
Answers == {"none", "turned away", "503", "409", "502", "refused", "started"}

\* How long a worker that was knocked over is down.
Down == Clamp(PLAYDEAD_SECONDS) \div TickSeconds

RunInv ==
    /\ step \in [Run -> Steps]
    /\ answer \in [Run -> Answers]
    /\ approved \subseteq Run /\ muddled \subseteq Run /\ knocker \in Run

\* A loop that stalls has met a failure.
StallInv ==
    /\ stalls \in [Run -> Nat] /\ \A r \in Run : stalls[r] <= faults
    /\ unasked \subseteq Container

\* A loop's timer runs for a sleep or for a probe, of which there is one.
TimerInv ==
    /\ timer \in [Container -> Nat]
    /\ \A c \in Container :
          /\ At(c, "sleep") => timer[c] <= MaxSleep
          /\ ~At(c, "sleep") => timer[c] <= ProbeTicks
          /\ ~At(c, "join") => task[c].results[Target] = "none"

\* The worker answers when it listens; its timer runs when it does not.  There
\* is one such timer: no order is left once time has passed since the listener
\* was closed, so none comes upon a listen that is to be tried again.
WorkerInv ==
    /\ WorkerOK
    /\ answers[Target] = (server = "listening")
    /\ server = "listening" => reopen = Never
    /\ server = "failed" => reopen \in {0, 1} /\ stopping = {}
    /\ server = "null" => reopen \in 0..Down /\ (reopen # Down => stopping = {})

BaseInv == ProbeInv /\ RunInv /\ TimerInv /\ WorkerInv

LEMMA DownType ==
    /\ Down \in Nat \ {0} /\ MAX_SECONDS \div TickSeconds \in Nat \ {0}
    /\ Down <= MAX_SECONDS \div TickSeconds
<1>1. Clamp(PLAYDEAD_SECONDS) = 90 /\ MAX_SECONDS = 120
    BY DEF Clamp, PLAYDEAD_SECONDS, MAX_SECONDS
<1>2. TickSeconds \in {1, 2, 3, 4, 5}
    BY OldWorkerAssumption
<1>3. \A t \in {1, 2, 3, 4, 5} : 90 \div t \in Nat \ {0} /\ 120 \div t \in Nat /\ 90 \div t <= 120 \div t
    OBVIOUS
<1> QED
    BY <1>1, <1>2, <1>3 DEF Down

\* One of the runs takes a step of its handler.
HandlerMoves == \E r \in Run : TurnAway(r) \/ StatusTest(r) \/ HandlerStep(r)

LEMMA HandlerLeaves ==
    ASSUME HandlerMoves
    PROVE  UNCHANGED <<topology, removals, probeVars, server, reopen, listenErrors, timer, knocker,
                     stalls, unasked>>
BY DEF HandlerMoves, TurnAway, StatusTest, HandlerStep, Allowed, Refused, NotRecorded, Connect,
   Deliver, Undelivered, Started, ReplyLost, PlayDead, tables, probeVars, workerVars, history

LEMMA TargetIsHost == Target \in Host /\ Probeable = Host /\ Host = {Target}
BY DemoAssumption

LEMMA HandlerTables ==
    ASSUME BaseInv, HandlerMoves
    PROVE  TablesOK'
<1>1. TablesOK /\ faults \in 0..MaxFaults
    BY DEF BaseInv, ProbeInv, TablesOK
<1>2. ASSUME UNCHANGED tables PROVE TablesOK'
    BY <1>1, <1>2, TablesUnchanged
<1>3. ASSUME faults < MaxFaults, faults' = faults + 1, UNCHANGED <<topology, ledger, now, removals>>
      PROVE  TablesOK'
    BY <1>1, <1>3, FaultType
<1>4. ASSUME NEW c \in Container, Record("allow", Target, c), UNCHANGED <<topology, removals>>,
             faults' \in 0..MaxFaults
      PROVE  TablesOK'
    <2>1. "allow" \in Kind /\ Target \in Host \cup {NoHost}
        BY TargetIsHost DEF Kind
    <2> QED
        BY <1>1, <1>4, <2>1, RecordType
<1>5. ASSUME NEW r \in Run, TurnAway(r) \/ StatusTest(r) \/ Refused(r) \/ Connect(r) \/ Deliver(r) \/ Started(r)
      PROVE  UNCHANGED tables
    BY <1>5 DEF TurnAway, StatusTest, Refused, Connect, Deliver, Started
<1>6. ASSUME NEW r \in Run, Undelivered(r) PROVE TablesOK'
    <2>1. CASE UNCHANGED faults
        BY <1>1, <1>6, <2>1 DEF Undelivered, TablesOK
    <2>2. CASE faults < MaxFaults /\ faults' = faults + 1
        BY <1>3, <1>6, <2>2 DEF Undelivered
    <2> QED
        BY <1>6, <2>1, <2>2 DEF Undelivered
<1>7. ASSUME NEW r \in Run, ReplyLost(r) PROVE TablesOK'
    BY <1>3, <1>7 DEF ReplyLost
<1>8. ASSUME NEW r \in Run, Allowed(r) PROVE TablesOK'
    <2>1. PICK c \in Container : Record("allow", Target, c)
        BY <1>8 DEF Allowed
    <2>2. UNCHANGED <<topology, removals>> /\ faults' \in 0..MaxFaults
        BY <1>1, <1>8 DEF Allowed
    <2> QED
        BY <1>4, <2>1, <2>2
<1>9. ASSUME NEW r \in Run, NotRecorded(r) PROVE TablesOK'
    <2>1. UNCHANGED <<topology, removals>> /\ faults < MaxFaults /\ faults' = faults + 1
        BY <1>9 DEF NotRecorded
    <2>2. CASE UNCHANGED <<ledger, now>>
        BY <1>3, <2>1, <2>2
    <2>3. CASE \E c \in Container : Record("allow", Target, c)
        <3>1. faults' \in 0..MaxFaults
            BY <1>1, <2>1, BoundAssumption
        <3>2. PICK c \in Container : Record("allow", Target, c)
            BY <2>3
        <3> QED
            BY <1>4, <2>1, <3>1, <3>2
    <2> QED
        BY <1>9, <2>2, <2>3 DEF NotRecorded
<1> QED
    BY <1>2, <1>5, <1>6, <1>7, <1>8, <1>9 DEF HandlerMoves, HandlerStep

LEMMA HandlerRuns ==
    ASSUME BaseInv, HandlerMoves
    PROVE  RunInv'
<1>1. RunInv
    BY DEF BaseInv
<1>2. ASSUME NEW r \in Run, NEW what \in Answers, Finish(r, what), UNCHANGED <<approved, muddled, knocker>>
      PROVE  RunInv'
    BY <1>1, <1>2 DEF RunInv, Finish, Steps
<1>3. ASSUME NEW r \in Run, NEW point \in Steps, Proceed(r, point), muddled' \subseteq Run,
             UNCHANGED <<answer, approved, knocker>>
      PROVE  RunInv'
    BY <1>1, <1>3 DEF RunInv, Proceed
<1>4. ASSUME NEW r \in Run PROVE TurnAway(r) => RunInv'
    BY <1>2 DEF TurnAway, history, Answers
<1>5. ASSUME NEW r \in Run, StatusTest(r) PROVE RunInv'
    <2>1. ASSUME Finish(r, "409"), UNCHANGED <<approved, muddled, knocker>> PROVE RunInv'
        BY <1>2, <2>1 DEF Answers
    <2>2. stopping \subseteq Run
        BY DEF BaseInv, WorkerInv, WorkerOK, Run
    <2>3. Company(r) \subseteq Run
        BY <1>1, <2>2 DEF Company, RunInv
    <2>4. ASSUME Proceed(r, IF r \in approved THEN "decide" ELSE "knock"),
                 muddled' = muddled \cup Company(r), UNCHANGED <<answer, approved, knocker>>
          PROVE  RunInv'
        <3>1. CASE r \in approved
            BY <1>1, <1>3, <2>3, <2>4, <3>1 DEF RunInv, Steps
        <3>2. CASE r \notin approved
            BY <1>1, <1>3, <2>3, <2>4, <3>2 DEF RunInv, Steps
        <3> QED
            BY <3>1, <3>2
    <2> QED
        BY <1>5, <2>1, <2>4 DEF StatusTest
<1>6. ASSUME NEW r \in Run, Allowed(r) \/ Deliver(r) PROVE RunInv'
    BY <1>1, <1>3, <1>6 DEF Allowed, Deliver, RunInv, history, Steps
<1>7. ASSUME NEW r \in Run, Refused(r) \/ NotRecorded(r) \/ Undelivered(r) \/ Started(r) \/ ReplyLost(r)
      PROVE  RunInv'
    BY <1>2, <1>7 DEF Refused, NotRecorded, Undelivered, Started, ReplyLost, history, Answers
<1>8. ASSUME NEW r \in Run, Connect(r) PROVE RunInv'
    <2>1. UNCHANGED <<approved, muddled, knocker>>
        BY <1>8 DEF Connect, history
    <2>2. CASE Proceed(r, "sent") /\ UNCHANGED answer
        BY <1>1, <1>3, <2>1, <2>2 DEF RunInv, Steps
    <2>3. CASE Finish(r, "502")
        BY <1>2, <2>1, <2>3 DEF Answers
    <2> QED
        BY <1>8, <2>2, <2>3 DEF Connect
<1> QED
    BY <1>4, <1>5, <1>6, <1>7, <1>8 DEF HandlerMoves, HandlerStep

LEMMA HandlerStepInv ==
    ASSUME BaseInv, HandlerMoves
    PROVE  BaseInv'
<1>1. UNCHANGED <<topology, removals, probeVars, server, reopen, listenErrors, timer>>
    BY HandlerLeaves
<1>2. ProbeInv'
    BY <1>1, HandlerTables, ProbeUnchanged DEF BaseInv, ProbeInv, ProbeOK, probeVars
<1>3. TimerInv'
    BY <1>1 DEF BaseInv, TimerInv, probeVars, At
<1>4. stopping' \subseteq Order /\ (server # "listening" => stopping' = stopping)
    BY DEF HandlerMoves, TurnAway, StatusTest, HandlerStep, Allowed, Refused, NotRecorded, Connect,
       Deliver, Undelivered, Started, ReplyLost, PlayDead, workerVars, Run, BaseInv, WorkerInv,
       WorkerOK
<1>5. WorkerInv'
    BY <1>1, <1>4 DEF BaseInv, WorkerInv, WorkerOK, probeVars
<1> QED
    BY <1>2, <1>3, <1>5, HandlerRuns DEF BaseInv

-----------------------------------------------------------------------------
(* The worker, the loops and the clock.                                    *)

LEMMA PortEffect ==
    ASSUME BaseInv, Port
    PROVE  answers' \in [Host -> BOOLEAN] /\ answers'[Target] = (server' = "listening")
<1>1. answers' = [h \in Host |-> server' = "listening"]
    BY DEF Port
<1> QED
    BY <1>1, TargetIsHost

LEMMA PortInv ==
    ASSUME BaseInv, Port, UNCHANGED <<tables, step, answer, approved, timer>>, WorkerOK',
           muddled' \subseteq Run, knocker' \in Run,
           server' = "listening" => reopen' = Never,
           server' = "failed" => reopen' \in {0, 1} /\ stopping' = {},
           server' = "null" => reopen' \in 0..Down /\ (reopen' # Down => stopping' = {})
    PROVE  BaseInv'
<1>1. /\ answers' \in [Host -> BOOLEAN] /\ answers'[Target] = (server' = "listening")
      /\ task' = task /\ streak' = streak
    BY PortEffect DEF Port
<1>2. ProbeInv'
    BY <1>1, TablesUnchanged, ProbeUnchanged DEF BaseInv, ProbeInv
<1>3. RunInv'
    BY DEF BaseInv, RunInv
<1>4. TimerInv'
    BY <1>1 DEF BaseInv, TimerInv, At
<1>5. WorkerInv'
    BY <1>1 DEF WorkerInv
<1> QED
    BY <1>2, <1>3, <1>4, <1>5 DEF BaseInv

LEMMA WorkerStopsStep ==
    ASSUME BaseInv, NEW r \in Run, WorkerStops(r)
    PROVE  /\ BaseInv' /\ server' = "null"
           /\ reopen' = IF server = "null" THEN reopen ELSE Down
<1>1. /\ server' = "null" /\ stopping' \subseteq stopping /\ stopping \subseteq Order
      /\ listenErrors' = listenErrors
    BY DEF WorkerStops, StopListening, BaseInv, WorkerInv, WorkerOK
<1>2. reopen' = IF server = "null" THEN reopen ELSE Down
    BY DEF WorkerStops, StopListening, Down
<1>3. reopen' \in 0..Down /\ (reopen' # Down => stopping' = {})
    BY <1>1, <1>2, DownType DEF BaseInv, WorkerInv
<1>4. reopen' \in -1..(MAX_SECONDS \div TickSeconds)
    BY <1>3, DownType
<1>5. WorkerOK'
    BY <1>1, <1>4 DEF BaseInv, WorkerInv, WorkerOK
<1>6. knocker' \in Run /\ muddled' \subseteq Run
    BY DEF WorkerStops, BaseInv, RunInv
<1>7. Port /\ UNCHANGED <<tables, step, answer, approved, timer>>
    BY DEF WorkerStops, runVars
<1> QED
    BY <1>1, <1>2, <1>3, <1>5, <1>6, <1>7, PortInv

LEMMA WorkerStartsStep ==
    ASSUME BaseInv, WorkerStarts
    PROVE  BaseInv' /\ server' # "null" /\ reopen = 0
<1>1. /\ reopen = 0 /\ stopping' = stopping
      /\ \/ server' = "listening" /\ reopen' = Never /\ listenErrors' = listenErrors
         \/ /\ server' = "failed" /\ reopen' = 1
            /\ listenErrors < MaxListenErrors /\ listenErrors' = listenErrors + 1
    BY DEF WorkerStarts, Listen, ListenFails
<1>2. stopping = {}
    BY <1>1, DownType DEF BaseInv, WorkerInv, WorkerOK, Never
<1>3. listenErrors' \in 0..MaxListenErrors
    BY <1>1, OldWorkerAssumption DEF BaseInv, WorkerInv, WorkerOK
<1>4. reopen' \in -1..(MAX_SECONDS \div TickSeconds)
    BY <1>1, DownType DEF Never
<1>5. WorkerOK'
    BY <1>1, <1>2, <1>3, <1>4 DEF WorkerOK
<1>6. Port /\ UNCHANGED <<tables, step, answer, approved, timer, knocker, muddled>>
    BY DEF WorkerStarts, runVars, history
<1>7. knocker' \in Run /\ muddled' \subseteq Run
    BY <1>6 DEF BaseInv, RunInv
<1> QED
    BY <1>1, <1>2, <1>5, <1>6, <1>7, PortInv

\* A loop moves on.  Nothing is handled while a result is there to be handled.
LEMMA LoopMoves ==
    ASSUME BaseInv, NEW c \in Container, Loop(c)
    PROVE  /\ ProbeInv' /\ UNCHANGED <<workerVars, runVars, knocker, muddled, stalls, answers, faults>>
           /\ \A d \in Container : d # c => task'[d] = task[d]
<1>1. ProbeStep(c) /\ UNCHANGED <<workerVars, runVars, knocker, muddled, stalls>>
    BY TargetIsHost DEF Loop, ProbeStep
<1>2. ProbeInv'
    BY <1>1, ProbeInvStep DEF BaseInv
<1>3. answers' = answers /\ faults' = faults
    BY DEF Loop, LoopStep, StartCycle, JoinNext, EndCycle, ClaimReappear, RecordReappear,
       ResetFailures, CountFailure, Verdict, ClaimRemoval, RecordRemoval, ProbeOne, tables
<1>4. \A d \in Container : d # c => task'[d] = task[d]
    BY DEF Loop, LoopStep, StartCycle, JoinNext, EndCycle, ClaimReappear, RecordReappear,
       ResetFailures, CountFailure, Verdict, ClaimRemoval, RecordRemoval, ProbeOne,
       Goto, Resume, BaseInv, ProbeInv, ProbeOK
<1> QED
    BY <1>1, <1>2, <1>3, <1>4

\* What the moves of a loop do to its place, to its result and to the row.
LEMMA WakesUp ==
    ASSUME BaseInv, NEW c \in Container, StartCycle(c)
    PROVE  /\ task[c].at = "sleep" /\ task'[c].at = "join" /\ topology' = topology
           /\ task'[c].results[Target] \in {"none", "probing"}
           /\ topology[Target].status # "absent" => task'[c].results[Target] = "probing"
<1> DEFINE results == [h \in Host |-> IF h \in Probeable /\ topology[h].status # "absent"
                                      THEN "probing" ELSE "none"]
<1>1. task' = [task EXCEPT ![c].at = "join", ![c].results = results]
    BY DEF StartCycle
<1>2. /\ results[Target] \in {"none", "probing"}
      /\ topology[Target].status # "absent" => results[Target] = "probing"
    BY TargetIsHost
<1> HIDE DEF results
<1>3. task'[c].at = "join" /\ task'[c].results = results
    BY <1>1 DEF BaseInv, ProbeInv, ProbeOK
<1> QED
    BY <1>2, <1>3 DEF StartCycle, At, tables

LEMMA ComesToAnswer ==
    ASSUME BaseInv, NEW c \in Container, ProbeOne(c, Target)
    PROVE  /\ task[c].at = "join" /\ task'[c].at = "join" /\ topology' = topology
           /\ task[c].results[Target] = "probing"
           /\ task'[c].results[Target] = IF answers[Target] THEN "ok" ELSE "failed"
<1>1. task[c].results[Target] = "probing" /\ task[c].at = "join"
    BY DEF ProbeOne, BaseInv, TimerInv, At
<1>2. task'[c].at = task[c].at
    BY TargetIsHost DEF ProbeOne, BaseInv, ProbeInv, ProbeOK
<1>3. task'[c].results[Target] = IF answers[Target] THEN "ok" ELSE "failed"
    BY TargetIsHost DEF ProbeOne, BaseInv, ProbeInv, ProbeOK
<1> QED
    BY <1>1, <1>2, <1>3 DEF ProbeOne, tables

LEMMA TakesResult ==
    ASSUME BaseInv, NEW c \in Container, NEW h \in Host, JoinNext(c, h)
    PROVE  /\ task[c].at = "join" /\ topology' = topology
           /\ task'[c].results[Target] = "none"
           /\ \/ task[c].results[Target] = "ok" /\ task'[c].at = "claimReappear"
              \/ task[c].results[Target] = "failed" /\ task'[c].at = "countFailure"
<1>1. h = Target
    BY TargetIsHost
<1> QED
    BY <1>1, JoinNextStep DEF BaseInv, JoinNext, At, tables

LEMMA GoesToSleep ==
    ASSUME BaseInv, NEW c \in Container, EndCycle(c)
    PROVE  /\ task[c].at = "join" /\ task'[c].at = "sleep" /\ topology' = topology
           /\ task[c].results[Target] = "none" /\ task'[c].results[Target] = "none"
<1>1. task'[c] = Asleep
    BY EndCycleStep DEF BaseInv
<1> QED
    BY <1>1, TargetIsHost DEF EndCycle, At, tables, Asleep, NoResults

\* The row after a failure that was counted.
Counted(failures) == IF failures < FailureCap THEN failures + 1 ELSE FailureCap

LEMMA Handles ==
    ASSUME BaseInv, NEW c \in Container,
           \/ ClaimReappear(c) \/ RecordReappear(c) \/ ResetFailures(c)
           \/ CountFailure(c) \/ Verdict(c) \/ ClaimRemoval(c) \/ RecordRemoval(c)
    PROVE  /\ task[c].at \in Working /\ task'[c].at # "sleep"
           /\ task[c].results[Target] = "none" /\ task'[c].results[Target] = "none"
           /\ \/ /\ task[c].at \in {"claimReappear", "recordReappear", "resetFailures"}
              \/ /\ task[c].at = "countFailure"
                 /\ topology'[Target].status = topology[Target].status
                 /\ topology'[Target].failures = Counted(topology[Target].failures)
                 /\ \/ /\ Due(Counted(topology[Target].failures))
                       /\ task'[c].at = "verdict"
                    \/ /\ topology[Target].status = "present"
                          => ~Due(Counted(topology[Target].failures))
                       /\ task'[c].at = "join"
              \/ /\ task[c].at = "verdict" /\ task'[c].at = "claimRemoval"
                 /\ topology' = topology
              \/ /\ task[c].at = "claimRemoval" /\ task'[c].at \in {"join", "recordRemoval"}
                 /\ topology'[Target].status # "present"
              \/ /\ task[c].at = "recordRemoval" /\ task'[c].at = "join"
                 /\ topology' = topology
<1>1. /\ task[c].at \in Working /\ task[c].host = Target
      /\ task[c].at # "sleep" /\ task[c].at # "join"
    BY TargetIsHost, AtWork DEF BaseInv, ClaimReappear, RecordReappear, ResetFailures, CountFailure,
       Verdict, ClaimRemoval, RecordRemoval, At, Working
<1>2. task[c].results[Target] = "none"
    BY <1>1 DEF BaseInv, TimerInv, At
<1>3. ASSUME NEW point \in Point, Goto(c, point)
      PROVE  task'[c].at = point /\ task'[c].results[Target] = "none"
    BY <1>2, <1>3 DEF Goto, BaseInv, ProbeInv, ProbeOK
<1>4. ASSUME Resume(c)
      PROVE  task'[c].at = "join" /\ task'[c].results[Target] = "none"
    BY <1>2, <1>4, ResumeEffect DEF BaseInv
<1>5. Target \in Host /\ topology \in [Host -> TopoRow] /\ topology[Target].failures \in 0..FailureCap
    BY TargetIsHost DEF BaseInv, ProbeInv, TablesOK, TopoRow
<1>6. CASE ClaimReappear(c)
    BY <1>1, <1>2, <1>3, <1>6 DEF ClaimReappear, At, Point
<1>7. CASE RecordReappear(c)
    BY <1>1, <1>2, <1>4, <1>7 DEF RecordReappear, At
<1>8. CASE ResetFailures(c)
    BY <1>1, <1>2, <1>4, <1>8 DEF ResetFailures, At
<1>9. CASE CountFailure(c)
    <2> DEFINE n == Counted(topology[Target].failures)
    <2>1. Min({topology[Target].failures + 1, FailureCap}) = n
        BY <1>5, CountUp DEF Counted
    <2>2. /\ topology' = [topology EXCEPT ![Target].failures = n]
          /\ \/ Due(n) /\ topology[Target].status = "present" /\ Goto(c, "verdict")
             \/ ~(Due(n) /\ topology[Target].status = "present") /\ Resume(c)
          /\ task[c].at = "countFailure"
        BY <1>1, <1>9, <2>1 DEF CountFailure, At
    <2> HIDE DEF n
    <2>3. topology'[Target].status = topology[Target].status /\ topology'[Target].failures = n
        BY <1>5, <2>2 DEF TopoRow
    <2>4. CASE Due(n) /\ topology[Target].status = "present" /\ Goto(c, "verdict")
        <3>1. task'[c].at = "verdict" /\ task'[c].results[Target] = "none"
            BY <1>3, <2>4 DEF Point
        <3> QED
            BY <1>1, <1>2, <2>2, <2>3, <2>4, <3>1 DEF n
    <2>5. CASE ~(Due(n) /\ topology[Target].status = "present") /\ Resume(c)
        <3>1. task'[c].at = "join" /\ task'[c].results[Target] = "none"
            BY <1>4, <2>5
        <3> QED
            BY <1>1, <1>2, <2>2, <2>3, <2>5, <3>1 DEF n
    <2> QED
        BY <2>2, <2>4, <2>5
<1>10. CASE Verdict(c)
    <2>1. task'[c].at = "claimRemoval" /\ task'[c].results = task[c].results
        BY <1>10, VerdictStep DEF BaseInv
    <2> QED
        BY <1>1, <1>2, <1>10, <2>1 DEF Verdict, At, tables
<1>11. CASE ClaimRemoval(c)
    <2>1. topology'[Target].status # "present"
        <3>1. ClaimRemoved(Target, task[c].audited) /\ task[c].audited \in BOOLEAN
            BY <1>1, <1>11, AtWork DEF ClaimRemoval, BaseInv
        <3>2. TablesOK
            BY DEF BaseInv, ProbeInv
        <3>3. StatusFor(task[c].audited) # "present"
            BY DEF StatusFor
        <3> QED
            BY <1>5, <3>1, <3>2, <3>3, ClaimEffect
    <2>2. Goto(c, "recordRemoval") \/ Resume(c)
        BY <1>11 DEF ClaimRemoval
    <2> QED
        BY <1>1, <1>2, <1>3, <1>4, <1>11, <2>1, <2>2 DEF ClaimRemoval, At, Point
<1>12. CASE RecordRemoval(c)
    BY <1>1, <1>2, <1>4, <1>12 DEF RecordRemoval, At
<1> QED
    BY <1>6, <1>7, <1>8, <1>9, <1>10, <1>11, <1>12

LEMMA TimerMoves ==
    ASSUME BaseInv, NEW c \in Container, LoopTimer(c), Loop(c)
    PROVE  /\ timer' \in [Container -> Nat]
           /\ \A d \in Container : d # c => timer'[d] = timer[d]
           /\ \/ task[c].at = "sleep" /\ timer[c] = 0 /\ timer'[c] = ProbeTicks
              \/ /\ task[c].at = "join" /\ task'[c].at = "sleep"
                 /\ timer'[c] \in Nat /\ timer'[c] <= MaxSleep
              \/ task[c].at # "sleep" /\ task'[c].at # "sleep" /\ timer'[c] = timer[c]
<1>1. timer \in [Container -> Nat] /\ ProbeTicks \in Nat /\ MinSleep \in Nat /\ MaxSleep \in Nat
    BY DemoAssumption DEF BaseInv, TimerInv
<1>2. CASE At(c, "sleep") /\ timer[c] = 0 /\ timer' = [timer EXCEPT ![c] = ProbeTicks]
    BY <1>1, <1>2 DEF At
<1>3. CASE /\ At(c, "join") /\ task'[c].at = "sleep"
           /\ \E t \in MinSleep..MaxSleep : timer' = [timer EXCEPT ![c] = t]
    <2>1. PICK t \in MinSleep..MaxSleep : timer' = [timer EXCEPT ![c] = t]
        BY <1>3
    <2>2. t \in Nat /\ t <= MaxSleep
        BY <1>1
    <2> QED
        BY <1>1, <1>3, <2>1, <2>2 DEF At
<1>4. CASE ~At(c, "sleep") /\ task'[c].at # "sleep" /\ UNCHANGED timer
    BY <1>1, <1>4 DEF At
<1> QED
    BY <1>2, <1>3, <1>4 DEF LoopTimer

\* The loop's place, result and timer go together.
LEMMA PlaceHeld ==
    ASSUME BaseInv, NEW c \in Container, Loop(c)
    PROVE  task'[c].at # "join" => task'[c].results[Target] = "none"
<1>1. CASE StartCycle(c)
    BY <1>1, WakesUp
<1>2. CASE ProbeOne(c, Target)
    BY <1>2, ComesToAnswer
<1>3. CASE \E h \in Host : JoinNext(c, h)
    BY <1>3, TakesResult
<1>4. CASE EndCycle(c)
    BY <1>4, GoesToSleep
<1>5. CASE \/ ClaimReappear(c) \/ RecordReappear(c) \/ ResetFailures(c)
           \/ CountFailure(c) \/ Verdict(c) \/ ClaimRemoval(c) \/ RecordRemoval(c)
    BY <1>5, Handles
<1> QED
    BY <1>1, <1>2, <1>3, <1>4, <1>5 DEF Loop, LoopStep

LEMMA LoopInvStep ==
    ASSUME BaseInv, NEW c \in Container, Loop(c)
    PROVE  BaseInv'
<1>1. /\ ProbeInv' /\ UNCHANGED <<workerVars, runVars, knocker, muddled, stalls, answers>>
      /\ \A d \in Container : d # c => task'[d] = task[d]
    BY LoopMoves
<1>2. RunInv' /\ WorkerInv'
    BY <1>1 DEF BaseInv, RunInv, WorkerInv, WorkerOK, workerVars, runVars
<1>3. TimerInv'
    <2>1. LoopTimer(c)
        BY DEF Loop
    <2>2. /\ timer' \in [Container -> Nat]
          /\ \A d \in Container : d # c => timer'[d] = timer[d]
          /\ \/ task[c].at = "sleep" /\ timer[c] = 0 /\ timer'[c] = ProbeTicks
             \/ task[c].at = "join" /\ task'[c].at = "sleep" /\ timer'[c] \in Nat /\ timer'[c] <= MaxSleep
             \/ task[c].at # "sleep" /\ task'[c].at # "sleep" /\ timer'[c] = timer[c]
        BY <2>1, TimerMoves
    <2>3. task[c].at = "sleep" => task'[c].at = "join"
        <3>1. CASE StartCycle(c)
            BY <3>1, WakesUp
        <3>2. CASE ProbeOne(c, Target)
            BY <3>2, ComesToAnswer
        <3>3. CASE \/ (\E h \in Host : JoinNext(c, h)) \/ EndCycle(c) \/ ClaimReappear(c)
                   \/ RecordReappear(c) \/ ResetFailures(c) \/ CountFailure(c) \/ Verdict(c)
                   \/ ClaimRemoval(c) \/ RecordRemoval(c)
            BY <3>3 DEF JoinNext, EndCycle, ClaimReappear, RecordReappear, ResetFailures,
               CountFailure, Verdict, ClaimRemoval, RecordRemoval, At
        <3> QED
            BY <3>1, <3>2, <3>3 DEF Loop, LoopStep
    <2>4. ProbeTicks <= ProbeTicks
        BY DemoAssumption
    <2>5. /\ task'[c].at = "sleep" => timer'[c] <= MaxSleep
          /\ task'[c].at # "sleep" => timer'[c] <= ProbeTicks
        BY <2>2, <2>3, <2>4 DEF BaseInv, TimerInv, At
    <2>6. task'[c].at # "join" => task'[c].results[Target] = "none"
        BY PlaceHeld
    <2> QED
        BY <1>1, <2>2, <2>5, <2>6 DEF BaseInv, TimerInv, At
<1> QED
    BY <1>1, <1>2, <1>3 DEF BaseInv

\* What goes wrong with a loop leaves the tables as they are.  It sends the loop
\* back to join_next or to sleep, or from one statement to the next.
LEMMA FailsEffect ==
    ASSUME BaseInv, NEW c \in Container, LoopFails(c)
    PROVE  /\ ProbeInv' /\ UNCHANGED <<topology, ledger, now, removals, answers, workerVars, runVars,
                                      knocker, muddled>>
           /\ \A d \in Container : d # c => task'[d] = task[d] /\ timer'[d] = timer[d]
           /\ timer' \in [Container -> Nat] /\ task'[c].results[Target] = "none"
           /\ faults' = faults + 1
           /\ \/ task'[c].at = "sleep" /\ timer'[c] <= MaxSleep
              \/ /\ task[c].at \in Working /\ timer'[c] = timer[c]
                 /\ \/ task'[c].at = "join"
                    \/ task[c].at = "claimReappear" /\ task'[c].at = "resetFailures"
                    \/ /\ task[c].at = "verdict" /\ task'[c].at = "claimRemoval"
                       /\ ~task'[c].audited /\ c \in unasked'
<1>1. ProbeInv /\ timer \in [Container -> Nat] /\ Target \in Host
    BY TargetIsHost DEF BaseInv, TimerInv
<1>2. UNCHANGED <<topology, ledger, now, removals, answers, workerVars, runVars, knocker, muddled>>
      /\ faults' = faults + 1
    BY DEF LoopFails, StatementFails, CrashProbe
<1>3. CASE CrashProbe(c) /\ \E t \in MinSleep..MaxSleep : timer' = [timer EXCEPT ![c] = t]
    <2>1. /\ ProbeInv' /\ task'[c] = Asleep
          /\ \A d \in Container : d # c => task'[d] = task[d]
        BY <1>1, <1>3, CrashProbeStep
    <2>2. PICK t \in MinSleep..MaxSleep : timer' = [timer EXCEPT ![c] = t]
        BY <1>3
    <2>3. t \in Nat /\ t <= MaxSleep
        BY <2>2, DemoAssumption
    <2>4. task'[c].at = "sleep" /\ task'[c].results[Target] = "none"
        BY <1>1, <2>1 DEF Asleep, NoResults
    <2>5. /\ timer' \in [Container -> Nat] /\ timer'[c] <= MaxSleep
          /\ \A d \in Container : d # c => timer'[d] = timer[d]
        BY <1>1, <2>2, <2>3
    <2> QED
        BY <1>2, <2>1, <2>4, <2>5
<1>4. CASE StatementFails(c) /\ UNCHANGED timer
           /\ unasked' = IF At(c, "verdict") THEN unasked \cup {c} ELSE unasked \ {c}
    <2>1. /\ ProbeInv' /\ task[c].at \in Working
          /\ \/ Resume(c)
             \/ task[c].at = "claimReappear" /\ Goto(c, "resetFailures")
             \/ task[c].at = "verdict" /\ Goto(c, "claimRemoval")
        BY <1>1, <1>4, StatementFailsStep
    <2>2. task[c].results[Target] = "none" /\ (task[c].at = "verdict" => ~task[c].audited)
        BY <2>1 DEF BaseInv, TimerInv, ProbeInv, LoopInv, At, Working
    <2>3. CASE Resume(c)
        <3>1. /\ task'[c].at = "join" /\ task'[c].results = task[c].results
              /\ \A d \in Container : d # c => task'[d] = task[d]
            BY <1>1, <2>3, ResumeEffect DEF Resume, ProbeInv, ProbeOK
        <3> QED
            BY <1>1, <1>2, <1>4, <2>1, <2>2, <3>1
    <2>4. ASSUME NEW point \in Point, Goto(c, point)
          PROVE  /\ task'[c].at = point /\ task'[c].results = task[c].results
                 /\ task'[c].audited = task[c].audited
                 /\ \A d \in Container : d # c => task'[d] = task[d]
        BY <1>1, <2>4 DEF Goto, ProbeInv, ProbeOK
    <2>5. CASE task[c].at = "claimReappear" /\ Goto(c, "resetFailures")
        <3>1. "resetFailures" \in Point
            BY DEF Point
        <3> QED
            BY <1>1, <1>2, <1>4, <2>1, <2>2, <2>4, <2>5, <3>1
    <2>6. CASE task[c].at = "verdict" /\ Goto(c, "claimRemoval")
        <3>1. "claimRemoval" \in Point /\ c \in unasked'
            BY <1>4, <2>6 DEF Point, At
        <3> QED
            BY <1>1, <1>2, <1>4, <2>1, <2>2, <2>4, <2>6, <3>1
    <2> QED
        BY <2>1, <2>3, <2>5, <2>6
<1> QED
    BY <1>3, <1>4 DEF LoopFails

LEMMA LoopFailsStep ==
    ASSUME BaseInv, NEW c \in Container, LoopFails(c)
    PROVE  BaseInv'
<1>1. /\ ProbeInv' /\ UNCHANGED <<answers, workerVars, runVars, knocker, muddled>>
      /\ \A d \in Container : d # c => task'[d] = task[d] /\ timer'[d] = timer[d]
      /\ timer' \in [Container -> Nat] /\ task'[c].results[Target] = "none"
      /\ \/ task'[c].at = "sleep" /\ timer'[c] <= MaxSleep
         \/ task[c].at \in Working /\ task'[c].at # "sleep" /\ timer'[c] = timer[c]
    BY FailsEffect
<1>2. RunInv' /\ WorkerInv'
    BY <1>1 DEF BaseInv, RunInv, WorkerInv, WorkerOK, workerVars, runVars
<1>3. TimerInv'
    BY <1>1 DEF BaseInv, TimerInv, At, Working
<1> QED
    BY <1>1, <1>2, <1>3 DEF BaseInv

LEMMA TickStep ==
    ASSUME BaseInv, Tick
    PROVE  /\ BaseInv'
           /\ server = "null" => reopen \in Nat \ {0} /\ reopen' = reopen - 1
           /\ \A c \in Container : timer[c] \in Nat \ {0} /\ timer'[c] = timer[c] - 1
<1>1. /\ UNCHANGED <<tables, probeVars, server, stopping, listenErrors, runVars, history>>
      /\ stopping = {} /\ reopen # 0
      /\ reopen' = IF reopen = Never THEN Never ELSE reopen - 1
      /\ timer' = [c \in Container |-> timer[c] - 1]
      /\ \A c \in Container : timer[c] > 0
    BY DEF Tick
<1>2. timer \in [Container -> Nat]
    BY DEF BaseInv, TimerInv
<1>3. \A c \in Container : timer[c] \in Nat \ {0} /\ timer'[c] = timer[c] - 1
    BY <1>1, <1>2
<1>4. timer' \in [Container -> Nat]
    <2>1. \A c \in Container : timer[c] - 1 \in Nat
        BY <1>3
    <2> QED
        BY <1>1, <2>1
<1>5. TimerInv'
    <2>1. MaxSleep \in Nat /\ ProbeTicks \in Nat /\ task' = task
        BY <1>1, DemoAssumption DEF probeVars
    <2>2. ASSUME NEW c \in Container, NEW bound \in Nat, timer[c] <= bound
          PROVE  timer'[c] <= bound
        BY <1>3, <2>2
    <2>3. ASSUME NEW c \in Container
          PROVE  /\ task[c].at = "sleep" => timer[c] <= MaxSleep
                 /\ task[c].at # "sleep" => timer[c] <= ProbeTicks
                 /\ task[c].at # "join" => task[c].results[Target] = "none"
        BY DEF BaseInv, TimerInv, At
    <2>4. ASSUME NEW c \in Container
          PROVE  /\ task'[c].at = "sleep" => timer'[c] <= MaxSleep
                 /\ task'[c].at # "sleep" => timer'[c] <= ProbeTicks
                 /\ task'[c].at # "join" => task'[c].results[Target] = "none"
        BY <2>1, <2>2, <2>3
    <2> QED
        BY <1>4, <2>4 DEF TimerInv, At
<1>6. ProbeInv'
    BY <1>1, TablesUnchanged, ProbeUnchanged DEF BaseInv, ProbeInv, ProbeOK, probeVars
<1>7. RunInv'
    BY <1>1 DEF BaseInv, RunInv, runVars, history
<1>8. server = "null" => reopen \in Nat \ {0} /\ reopen' = reopen - 1
    BY <1>1, DownType DEF BaseInv, WorkerInv, Never
<1>9. WorkerInv'
    <2>1. /\ WorkerOK /\ answers[Target] = (server = "listening")
          /\ server = "listening" => reopen = Never
          /\ server = "failed" => reopen \in {0, 1}
          /\ server = "null" => reopen \in 0..Down
        BY DEF BaseInv, WorkerInv
    <2>2. reopen' \in -1..(MAX_SECONDS \div TickSeconds)
        BY <1>1, <2>1, DownType DEF WorkerOK, Never
    <2>3. WorkerOK'
        BY <1>1, <2>1, <2>2 DEF WorkerOK
    <2>4. server = "null" => reopen' \in 0..Down
        BY <1>8, <2>1, DownType
    <2>5. server = "failed" => reopen' \in {0, 1}
        BY <1>1, <2>1 DEF Never
    <2> QED
        BY <1>1, <2>1, <2>3, <2>4, <2>5 DEF WorkerInv, probeVars
<1> QED
    BY <1>3, <1>5, <1>6, <1>7, <1>8, <1>9 DEF BaseInv

LEMMA InitInv == Init => BaseInv
<1> SUFFICES ASSUME Init PROVE BaseInv
    OBVIOUS
<1>1. ProbeInv
    BY InitProbeInv DEF Init
<1>2. RunInv
    BY DEF Init, RunInv, Steps, Answers
<1>3. TimerInv
    <2>1. /\ timer \in [Container -> 1..MaxSleep] /\ task = [c \in Container |-> Asleep]
          /\ MaxSleep \in Nat
        BY DemoAssumption DEF Init, InitProbe
    <2>2. \A n \in 1..MaxSleep : n \in Nat /\ n <= MaxSleep
        BY <2>1
    <2>3. \A c \in Container : At(c, "sleep") /\ task[c].results[Target] = "none"
        BY <2>1, TargetIsHost DEF At, Asleep, NoResults
    <2> QED
        BY <2>1, <2>2, <2>3 DEF TimerInv, At
<1>4. WorkerInv
    <2>1. WorkerOK
        BY DownType, OldWorkerAssumption DEF Init, InitWorker, WorkerOK, Never
    <2>2. answers[Target] = TRUE
        BY TargetIsHost DEF Init, InitProbe
    <2> QED
        BY <2>1, <2>2 DEF WorkerInv, Init, InitWorker
<1> QED
    BY <1>1, <1>2, <1>3, <1>4 DEF BaseInv

LEMMA NextInv == BaseInv /\ [Next]_vars => BaseInv'
<1> SUFFICES ASSUME BaseInv, [Next]_vars PROVE BaseInv'
    OBVIOUS
<1>1. CASE \E r \in Run : TurnAway(r) \/ StatusTest(r) \/ HandlerStep(r)
    BY <1>1, HandlerStepInv DEF HandlerMoves
<1>2. CASE \E r \in Run : WorkerStops(r)
    BY <1>2, WorkerStopsStep
<1>3. CASE WorkerStarts
    BY <1>3, WorkerStartsStep
<1>4. CASE \E c \in Container : Loop(c) \/ LoopFails(c)
    BY <1>4, LoopInvStep, LoopFailsStep
<1>5. CASE Tick
    BY <1>5, TickStep
<1>6. CASE UNCHANGED vars
    <2>1. UNCHANGED <<tables, probeVars, workerVars, runVars, timer, history>>
        BY <1>6 DEF vars
    <2>2. ProbeInv'
        BY <2>1, TablesUnchanged, ProbeUnchanged DEF BaseInv, ProbeInv, ProbeOK, probeVars
    <2>3. RunInv'
        BY <2>1 DEF BaseInv, RunInv, runVars, history
    <2>4. TimerInv'
        BY <2>1 DEF BaseInv, TimerInv, At, probeVars
    <2>5. WorkerInv'
        BY <2>1 DEF BaseInv, WorkerInv, WorkerOK, workerVars, probeVars
    <2> QED
        BY <2>2, <2>3, <2>4, <2>5 DEF BaseInv
<1> QED
    BY <1>1, <1>2, <1>3, <1>4, <1>5, <1>6 DEF Next

\* Failures are counted in the table's faults first.
LEMMA StallStep ==
    ASSUME BaseInv, StallInv, [Next]_vars
    PROVE  StallInv' /\ \A r \in Run : stalls[r] <= stalls'[r]
<1>1. /\ stalls \in [Run -> Nat] /\ (\A r \in Run : stalls[r] <= faults) /\ unasked \subseteq Container
      /\ faults \in Nat /\ MaxFaults \in Nat
    BY BoundAssumption DEF BaseInv, ProbeInv, TablesOK, StallInv
<1>2. ASSUME stalls' = stalls, unasked' \subseteq Container, faults' = faults \/ faults' = faults + 1
      PROVE  StallInv' /\ \A r \in Run : stalls[r] <= stalls'[r]
    BY <1>1, <1>2 DEF StallInv
<1>3. ASSUME NEW r \in Run, TurnAway(r) \/ StatusTest(r) \/ HandlerStep(r)
      PROVE  UNCHANGED <<stalls, unasked>> /\ (faults' = faults \/ faults' = faults + 1)
    BY <1>3 DEF TurnAway, StatusTest, HandlerStep, Allowed, Refused, NotRecorded, Connect, Deliver,
       Undelivered, Started, ReplyLost, tables, history
<1>4. ASSUME \/ \E r \in Run : WorkerStops(r)
             \/ WorkerStarts \/ Tick \/ UNCHANGED vars
      PROVE  UNCHANGED <<stalls, unasked, faults>>
    BY <1>4 DEF WorkerStops, WorkerStarts, Tick, vars, tables, history
<1>5. ASSUME NEW c \in Container, Loop(c)
      PROVE  stalls' = stalls /\ unasked' \subseteq Container /\ faults' = faults
    BY <1>1, <1>5, LoopMoves DEF Loop
<1>6. ASSUME NEW c \in Container, LoopFails(c)
      PROVE  StallInv' /\ \A r \in Run : stalls[r] <= stalls'[r]
    <2>1. /\ faults' = faults + 1 /\ unasked' \subseteq Container
          /\ stalls' = [stalls EXCEPT ![knocker] = IF server = "null" THEN @ + 1 ELSE @]
        BY <1>1, <1>6 DEF LoopFails, StatementFails, CrashProbe
    <2>2. \A r \in Run : stalls'[r] = stalls[r] \/ stalls'[r] = stalls[r] + 1
        BY <1>1, <2>1
    <2>3. stalls' \in [Run -> Nat]
        <3>1. /\ knocker \in Run /\ stalls[knocker] \in Nat
              /\ (IF server = "null" THEN stalls[knocker] + 1 ELSE stalls[knocker]) \in Nat
            BY <1>1 DEF BaseInv, RunInv
        <3> QED
            BY <1>1, <2>1, <3>1
    <2>4. \A r \in Run : stalls[r] <= stalls'[r] /\ stalls'[r] <= faults'
        BY <1>1, <2>1, <2>2
    <2> QED
        BY <2>1, <2>3, <2>4 DEF StallInv
<1> QED
    BY <1>1, <1>2, <1>3, <1>4, <1>5, <1>6 DEF Next

LEMMA BaseInvHolds == Spec => [](BaseInv /\ StallInv)
<1>1. Init => StallInv
    BY InitInv DEF Init, StallInv, BaseInv, ProbeInv, TablesOK
<1>2. BaseInv /\ StallInv /\ [Next]_vars => BaseInv' /\ StallInv'
    BY NextInv, StallStep
<1> QED
    BY <1>1, <1>2, InitInv, PTL DEF Spec

LEMMA LongestTimer ==
    /\ Max({MaxSleep, ProbeTicks}) \in Nat
    /\ MaxSleep <= Max({MaxSleep, ProbeTicks}) /\ ProbeTicks <= Max({MaxSleep, ProbeTicks})
<1> DEFINE S == {MaxSleep, ProbeTicks}
           m == IF MaxSleep < ProbeTicks THEN ProbeTicks ELSE MaxSleep
<1>1. MaxSleep \in Nat /\ ProbeTicks \in Nat
    BY DemoAssumption
<1>2. m \in S /\ \A x \in S : x <= m
    BY <1>1
<1>3. Max(S) \in S /\ \A x \in S : x <= Max(S)
    BY <1>2 DEF Max
<1> QED
    BY <1>1, <1>3

\* The handlers' places and answers, the loops, the worker and the timers stay
\* in their types, whatever the order of requests, probes and ticks.
THEOREM TypeCorrect == Spec => []TypeOK
<1>1. BaseInv /\ StallInv => TypeOK
    <2> SUFFICES ASSUME BaseInv, StallInv PROVE TypeOK
        OBVIOUS
    <2>1. \A c \in Container : timer[c] \in 0..Max({MaxSleep, ProbeTicks})
        BY LongestTimer, DemoAssumption DEF BaseInv, TimerInv
    <2>2. timer \in [Container -> 0..Max({MaxSleep, ProbeTicks})]
        BY <2>1 DEF BaseInv, TimerInv
    <2>3. \A r \in Run : stalls[r] \in 0..MaxFaults
        BY BoundAssumption DEF StallInv, BaseInv, ProbeInv, TablesOK
    <2>4. stalls \in [Run -> 0..MaxFaults] /\ unasked \subseteq Container
        BY <2>3 DEF StallInv
    <2> QED
        BY <2>2, <2>4 DEF BaseInv, ProbeInv, RunInv, WorkerInv, Steps, Answers, TypeOK
<1> QED
    BY <1>1, BaseInvHolds, PTL

-----------------------------------------------------------------------------
(* The knock is noticed, if three cycles and the spare ones fit into the   *)
(* time the worker is down: a cycle is a sleep of 15 s, its jitter and a   *)
(* probe that runs into its timeout.  From the first tick on, every probe  *)
(* fails, and a loop that has counted f failures is at most 3 - f cycles   *)
(* away from its claim.  Left counts that time down, and it stays ahead of *)
(* the worker's timer, with a Reserve of one cycle for each failure of a   *)
(* loop that is still to be put up with.                                   *)

Cycle == MaxSleep + ProbeTicks

\* What the failures to come may cost.
Reserve(failures) == (Spare - failures) * Cycle

\* At the source: (3 + Spare) * (15 s + jitter + timeout) < 90 s.
CyclesFit == Cycle + Cycle + Cycle + Reserve(0) < Down

\* The most cycles to come once this one's failure is counted.
Rest(failures) ==
    IF failures = 0 THEN Cycle + Cycle ELSE IF failures = 1 THEN Cycle ELSE 0

\* The most time until a loop claims the removal.
LeftAt(place, result, time, failures) ==
    IF place = "sleep" THEN time + ProbeTicks + Rest(failures)
    ELSE IF place = "join" /\ result = "probing" THEN time + Rest(failures)
    ELSE IF (place = "join" /\ result = "failed") \/ place \in {"countFailure", "verdict", "claimRemoval"}
         THEN Rest(failures)
    ELSE Cycle + Rest(failures)

Left(c) == LeftAt(task[c].at, task[c].results[Target], timer[c], topology[Target].failures)

\* The worker is down, and time has passed.
Silent == server = "null" /\ reopen # Down

NoticeInv ==
    Silent => \A c \in Container :
        /\ task[c].results[Target] # "ok"
        /\ task[c].at \notin {"claimReappear", "recordReappear", "resetFailures"}
        /\ topology[Target].status = "present" /\ stalls[knocker] <= Spare
             => Left(c) + Reserve(stalls[knocker]) < reopen

LEMMA CycleType == MaxSleep \in Nat /\ ProbeTicks \in Nat /\ Cycle \in Nat
BY DemoAssumption DEF Cycle

LEMMA ReserveType ==
    ASSUME NEW n \in Nat, n <= Spare
    PROVE  Reserve(n) \in Nat /\ Reserve(n) <= Reserve(0)
<1>1. Cycle \in Nat /\ Spare \in Nat
    BY CycleType, DemoAssumption
<1>2. \A a, b, k \in Nat : a <= b => a * k \in Nat /\ b * k \in Nat /\ a * k <= b * k
    OBVIOUS
<1>3. Spare - n \in Nat /\ Spare - 0 \in Nat /\ Spare - n <= Spare - 0
    BY <1>1
<1> QED
    BY <1>1, <1>2, <1>3 DEF Reserve

\* A failure of a loop costs a cycle.
LEMMA ReserveSpent ==
    ASSUME NEW n \in Nat, n + 1 <= Spare
    PROVE  Reserve(n) = Reserve(n + 1) + Cycle
<1>1. Cycle \in Nat /\ Spare \in Nat
    BY CycleType, DemoAssumption
<1>2. \A a, k \in Nat : (a + 1) * k = a * k + k
    OBVIOUS
<1>3. PICK m \in Nat : m = Spare - (n + 1)
    BY <1>1
<1>4. Spare - n = m + 1
    BY <1>1, <1>3
<1> QED
    BY <1>1, <1>2, <1>3, <1>4 DEF Reserve

LEMMA RestType ==
    ASSUME NEW f \in 0..FailureCap
    PROVE  Rest(f) \in Nat /\ Rest(f) <= Cycle + Cycle
BY CycleType DEF Rest

\* A failure that does not make three takes a cycle off what is left.
LEMMA RestCounted ==
    ASSUME NEW f \in 0..FailureCap
    PROVE  /\ Counted(f) \in 0..FailureCap /\ Rest(Counted(f)) <= Rest(f)
           /\ ~Due(Counted(f)) => Cycle + Rest(Counted(f)) <= Rest(f)
<1>1. FailureCap = 4 /\ Threshold = 3
    BY DEF FailureCap, Threshold
<1>2. Counted(f) = IF f < 4 THEN f + 1 ELSE 4
    BY <1>1 DEF Counted
<1>3. CASE f = 0
    BY <1>1, <1>2, <1>3, CycleType DEF Rest, Due
<1>4. CASE f = 1
    BY <1>1, <1>2, <1>4, CycleType DEF Rest, Due
<1>5. CASE f >= 2
    BY <1>1, <1>2, <1>5, CycleType DEF Rest, Due
<1> QED
    BY <1>1, <1>3, <1>4, <1>5

LEMMA LeftType ==
    ASSUME BaseInv, NEW c \in Container
    PROVE  /\ Left(c) \in Nat /\ timer[c] \in Nat /\ topology[Target].failures \in 0..FailureCap
           /\ task[c].at = "sleep" => Left(c) <= Cycle + Cycle + Cycle
           /\ task[c].at = "join" /\ task[c].results[Target] = "probing"
                => Left(c) <= Cycle + Cycle + Cycle
<1> DEFINE f == topology[Target].failures
           r == Rest(f)
<1>1. timer[c] \in Nat /\ f \in 0..FailureCap
    BY TargetIsHost DEF BaseInv, TimerInv, ProbeInv, TablesOK, TopoRow
<1>2. r \in Nat /\ r <= Cycle + Cycle
    BY <1>1, RestType
<1>3. /\ task[c].at = "sleep" => timer[c] <= MaxSleep
      /\ task[c].at # "sleep" => timer[c] <= ProbeTicks
    BY DEF BaseInv, TimerInv, At
<1>4. Left(c) = IF task[c].at = "sleep" THEN timer[c] + ProbeTicks + r
                ELSE IF task[c].at = "join" /\ task[c].results[Target] = "probing" THEN timer[c] + r
                ELSE IF (task[c].at = "join" /\ task[c].results[Target] = "failed")
                        \/ task[c].at \in {"countFailure", "verdict", "claimRemoval"} THEN r
                ELSE Cycle + r
    BY DEF Left, LeftAt
<1> HIDE DEF f, r
<1>5. Left(c) \in Nat
    BY <1>1, <1>2, <1>4, CycleType
<1>6. task[c].at = "sleep" => Left(c) <= Cycle + Cycle + Cycle
    BY <1>1, <1>2, <1>3, <1>4, CycleType DEF Cycle
<1>7. task[c].at = "join" /\ task[c].results[Target] = "probing" => Left(c) <= Cycle + Cycle + Cycle
    BY <1>1, <1>2, <1>3, <1>4, CycleType DEF Cycle
<1> QED
    BY <1>1, <1>5, <1>6, <1>7 DEF f

\* What others count does not leave more to a loop.
LEMMA LeftLess ==
    ASSUME NEW place, NEW result, NEW time \in Nat, NEW f \in 0..FailureCap, NEW g \in 0..FailureCap,
           Rest(g) <= Rest(f)
    PROVE  /\ LeftAt(place, result, time, g) \in Nat /\ LeftAt(place, result, time, f) \in Nat
           /\ LeftAt(place, result, time, g) <= LeftAt(place, result, time, f)
<1> DEFINE a == Rest(f)
           b == Rest(g)
<1>1. a \in Nat /\ b \in Nat /\ b <= a
    BY RestType
<1>2. /\ ProbeTicks \in Nat /\ Cycle \in Nat
    BY CycleType
<1> HIDE DEF a, b
<1>3. /\ time + ProbeTicks + b <= time + ProbeTicks + a /\ time + b <= time + a
      /\ Cycle + b <= Cycle + a
      /\ time + ProbeTicks + b \in Nat /\ time + b \in Nat /\ Cycle + b \in Nat
      /\ time + ProbeTicks + a \in Nat /\ time + a \in Nat /\ Cycle + a \in Nat
    BY <1>1, <1>2
<1> QED
    BY <1>1, <1>3 DEF LeftAt, a, b

\* A move of a loop while the worker is silent.
LEMMA LoopCountsDown ==
    ASSUME BaseInv, BaseInv', NoticeInv, Silent, NEW c \in Container, Loop(c)
    PROVE  /\ task'[c].results[Target] # "ok"
           /\ task'[c].at \notin {"claimReappear", "recordReappear", "resetFailures"}
           /\ topology'[Target].status = "present" =>
                /\ topology[Target].status = "present"
                /\ Rest(topology'[Target].failures) <= Rest(topology[Target].failures)
                /\ LeftAt(task'[c].at, task'[c].results[Target], timer'[c],
                          topology'[Target].failures) <= Left(c)
<1> DEFINE f == topology[Target].failures
           g == topology'[Target].failures
           l == LeftAt(task'[c].at, task'[c].results[Target], timer'[c], g)
<1>1. /\ f \in 0..FailureCap /\ Rest(f) \in Nat /\ timer[c] \in Nat /\ Left(c) \in Nat
      /\ ProbeTicks \in Nat /\ MaxSleep \in Nat /\ Cycle \in Nat
    BY LeftType, RestType, CycleType
<1>2. /\ task[c].results[Target] # "ok"
      /\ task[c].at \notin {"claimReappear", "recordReappear", "resetFailures"}
    BY DEF NoticeInv
<1>3. ~answers[Target]
    BY DEF Silent, BaseInv, WorkerInv
<1>4. /\ timer' \in [Container -> Nat]
      /\ \/ task[c].at = "sleep" /\ timer[c] = 0 /\ timer'[c] = ProbeTicks
         \/ task[c].at = "join" /\ task'[c].at = "sleep" /\ timer'[c] \in Nat /\ timer'[c] <= MaxSleep
         \/ task[c].at # "sleep" /\ task'[c].at # "sleep" /\ timer'[c] = timer[c]
    BY TimerMoves DEF Loop
<1>5. Left(c) = LeftAt(task[c].at, task[c].results[Target], timer[c], f)
    BY DEF Left
<1>6. CASE StartCycle(c)
    <2>1. /\ task[c].at = "sleep" /\ task'[c].at = "join" /\ topology' = topology
          /\ task'[c].results[Target] \in {"none", "probing"}
          /\ topology[Target].status = "present" => task'[c].results[Target] = "probing"
        BY <1>6, WakesUp
    <2>2. timer[c] = 0 /\ timer'[c] = ProbeTicks
        BY <1>4, <2>1
    <2>3. Left(c) = timer[c] + ProbeTicks + Rest(f)
        BY <1>5, <2>1 DEF LeftAt
    <2>4. topology[Target].status = "present" => l = ProbeTicks + Rest(f)
        BY <2>1, <2>2 DEF LeftAt
    <2>5. topology[Target].status = "present" => l <= Left(c)
        BY <1>1, <2>2, <2>3, <2>4
    <2> QED
        BY <1>1, <2>1, <2>5
<1>7. CASE ProbeOne(c, Target)
    <2>1. /\ task[c].at = "join" /\ task'[c].at = "join" /\ topology' = topology
          /\ task[c].results[Target] = "probing"
          /\ task'[c].results[Target] = "failed"
        BY <1>3, <1>7, ComesToAnswer
    <2>2. Left(c) = timer[c] + Rest(f) /\ l = Rest(f)
        BY <1>5, <2>1 DEF LeftAt
    <2> QED
        BY <1>1, <2>1, <2>2
<1>8. CASE \E h \in Host : JoinNext(c, h)
    <2>1. /\ task[c].at = "join" /\ topology' = topology
          /\ task'[c].results[Target] = "none"
          /\ task[c].results[Target] = "failed" /\ task'[c].at = "countFailure"
        BY <1>2, <1>8, TakesResult
    <2>2. Left(c) = Rest(f) /\ l = Rest(f)
        BY <1>5, <2>1 DEF LeftAt
    <2> QED
        BY <1>1, <2>1, <2>2
<1>9. CASE EndCycle(c)
    <2>1. /\ task[c].at = "join" /\ task'[c].at = "sleep" /\ topology' = topology
          /\ task[c].results[Target] = "none" /\ task'[c].results[Target] = "none"
        BY <1>9, GoesToSleep
    <2>2. timer'[c] \in Nat /\ timer'[c] <= MaxSleep
        BY <1>4, <2>1
    <2>3. Left(c) = Cycle + Rest(f) /\ l = timer'[c] + ProbeTicks + Rest(f)
        BY <1>5, <2>1 DEF LeftAt
    <2>4. timer'[c] + ProbeTicks + Rest(f) <= Cycle + Rest(f)
        BY <1>1, <2>2 DEF Cycle
    <2> QED
        BY <1>1, <2>1, <2>3, <2>4
<1>10. CASE \/ ClaimReappear(c) \/ RecordReappear(c) \/ ResetFailures(c)
            \/ CountFailure(c) \/ Verdict(c) \/ ClaimRemoval(c) \/ RecordRemoval(c)
    <2>1. /\ task[c].at \in Working /\ task'[c].at # "sleep"
          /\ task[c].results[Target] = "none" /\ task'[c].results[Target] = "none"
          /\ \/ /\ task[c].at = "countFailure"
                /\ topology'[Target].status = topology[Target].status
                /\ g = Counted(f)
                /\ \/ Due(Counted(f)) /\ task'[c].at = "verdict"
                   \/ /\ topology[Target].status = "present" => ~Due(Counted(f))
                      /\ task'[c].at = "join"
             \/ task[c].at = "verdict" /\ task'[c].at = "claimRemoval" /\ topology' = topology
             \/ /\ task[c].at = "claimRemoval" /\ task'[c].at \in {"join", "recordRemoval"}
                /\ topology'[Target].status # "present"
             \/ task[c].at = "recordRemoval" /\ task'[c].at = "join" /\ topology' = topology
        BY <1>2, <1>10, Handles
    <2>2. CASE /\ task[c].at = "countFailure"
               /\ topology'[Target].status = topology[Target].status
               /\ g = Counted(f)
               /\ Due(Counted(f)) /\ task'[c].at = "verdict"
        <3>1. Left(c) = Rest(f) /\ l = Rest(g)
            BY <1>5, <2>1, <2>2 DEF LeftAt
        <3>2. Rest(g) <= Rest(f)
            BY <1>1, <2>2, RestCounted
        <3> QED
            BY <1>1, <2>1, <2>2, <3>1, <3>2
    <2>3. CASE /\ task[c].at = "countFailure"
               /\ topology'[Target].status = topology[Target].status
               /\ g = Counted(f)
               /\ topology[Target].status = "present" => ~Due(Counted(f))
               /\ task'[c].at = "join"
        <3>1. Left(c) = Rest(f) /\ l = Cycle + Rest(g)
            BY <1>5, <2>1, <2>3 DEF LeftAt
        <3>2. /\ Rest(g) <= Rest(f)
              /\ topology[Target].status = "present" => Cycle + Rest(g) <= Rest(f)
            BY <1>1, <2>3, RestCounted
        <3> QED
            BY <1>1, <2>1, <2>3, <3>1, <3>2
    <2>4. CASE task[c].at = "verdict" /\ task'[c].at = "claimRemoval" /\ topology' = topology
        <3>1. Left(c) = Rest(f) /\ l = Rest(f)
            BY <1>5, <2>1, <2>4 DEF LeftAt
        <3> QED
            BY <1>1, <2>1, <2>4, <3>1
    <2>5. CASE /\ task[c].at = "claimRemoval" /\ task'[c].at \in {"join", "recordRemoval"}
               /\ topology'[Target].status # "present"
        BY <2>1, <2>5
    <2>6. CASE task[c].at = "recordRemoval" /\ task'[c].at = "join" /\ topology' = topology
        <3>1. Left(c) = Cycle + Rest(f) /\ l = Cycle + Rest(f)
            BY <1>5, <2>1, <2>6 DEF LeftAt
        <3> QED
            BY <1>1, <2>1, <2>6, <3>1
    <2> QED
        BY <2>1, <2>2, <2>3, <2>4, <2>5, <2>6
<1> QED
    BY <1>6, <1>7, <1>8, <1>9, <1>10 DEF Loop, LoopStep

LEMMA NoticeLoop ==
    ASSUME BaseInv, StallInv, NoticeInv, NEW c \in Container, Loop(c)
    PROVE  NoticeInv'
<1>1. BaseInv' /\ UNCHANGED <<server, reopen, stalls, knocker>>
    BY LoopInvStep DEF Loop, workerVars
<1> DEFINE reserve == Reserve(stalls[knocker])
           inTime == stalls[knocker] <= Spare
<1> SUFFICES ASSUME Silent, NEW d \in Container
             PROVE  /\ task'[d].results[Target] # "ok"
                    /\ task'[d].at \notin {"claimReappear", "recordReappear", "resetFailures"}
                    /\ topology'[Target].status = "present" /\ inTime
                         => Left(d)' + reserve < reopen
    BY <1>1 DEF NoticeInv, Silent
<1>0. inTime => reserve \in Nat
    BY ReserveType DEF StallInv, BaseInv, RunInv
<1> HIDE DEF reserve, inTime
<1> DEFINE after == LeftAt(task'[d].at, task'[d].results[Target], timer'[d],
                           topology'[Target].failures)
<1>2. Left(d)' = after
    BY DEF Left
<1>3. /\ task'[c].results[Target] # "ok"
      /\ task'[c].at \notin {"claimReappear", "recordReappear", "resetFailures"}
      /\ topology'[Target].status = "present" =>
                /\ topology[Target].status = "present"
                /\ Rest(topology'[Target].failures) <= Rest(topology[Target].failures)
                /\ LeftAt(task'[c].at, task'[c].results[Target], timer'[c],
                          topology'[Target].failures) <= Left(c)
    BY <1>1, LoopCountsDown
<1>4. /\ task[d].results[Target] # "ok"
      /\ task[d].at \notin {"claimReappear", "recordReappear", "resetFailures"}
      /\ topology[Target].status = "present" /\ inTime => Left(d) + reserve < reopen
    BY DEF NoticeInv, reserve, inTime
<1>5. reopen \in Int /\ Left(d) \in Nat
    BY LeftType, DownType DEF Silent, BaseInv, WorkerInv
<1>6. Left(d)' \in Nat
    <2>1. timer'[d] \in Nat /\ topology'[Target].failures \in 0..FailureCap
        BY <1>1, TargetIsHost DEF BaseInv, TimerInv, ProbeInv, TablesOK, TopoRow
    <2>2. Rest(topology'[Target].failures) <= Rest(topology'[Target].failures)
        BY <2>1, RestType
    <2> QED
        BY <1>2, <2>1, <2>2, LeftLess
<1>7. CASE d = c
    BY <1>0, <1>2, <1>3, <1>4, <1>5, <1>6, <1>7
<1>8. CASE d # c
    <2>1. task'[d] = task[d] /\ timer'[d] = timer[d]
        BY <1>8, LoopMoves, TimerMoves DEF Loop
    <2>2. ASSUME topology'[Target].status = "present", inTime PROVE Left(d)' + reserve < reopen
        <3>1. /\ topology[Target].status = "present"
              /\ Rest(topology'[Target].failures) <= Rest(topology[Target].failures)
            BY <1>3, <2>2
        <3>2. /\ timer[d] \in Nat /\ topology'[Target].failures \in 0..FailureCap
              /\ topology[Target].failures \in 0..FailureCap
            BY <1>1, TargetIsHost DEF BaseInv, TimerInv, ProbeInv, TablesOK, TopoRow
        <3>3. Left(d)' <= Left(d)
            BY <1>2, <2>1, <3>1, <3>2, LeftLess DEF Left
        <3> QED
            BY <1>0, <1>4, <1>5, <1>6, <2>2, <3>1, <3>3
    <2> QED
        BY <1>4, <2>1, <2>2
<1> QED
    BY <1>7, <1>8

\* What goes wrong costs the loop a cycle at the most, and takes it from the
\* reserve.
LEMMA NoticeFails ==
    ASSUME BaseInv, StallInv, NoticeInv, NEW c \in Container, LoopFails(c)
    PROVE  NoticeInv'
<1> DEFINE f == topology[Target].failures
           n == stalls[knocker]
<1>1. /\ UNCHANGED <<topology, server, reopen, knocker>>
      /\ \A d \in Container : d # c => task'[d] = task[d] /\ timer'[d] = timer[d]
      /\ timer' \in [Container -> Nat] /\ task'[c].results[Target] = "none"
      /\ \/ task'[c].at = "sleep" /\ timer'[c] <= MaxSleep
         \/ /\ task[c].at \in Working /\ timer'[c] = timer[c]
            /\ \/ task'[c].at = "join"
               \/ task[c].at = "claimReappear" /\ task'[c].at = "resetFailures"
               \/ task[c].at = "verdict" /\ task'[c].at = "claimRemoval"
    BY FailsEffect DEF workerVars
<1> SUFFICES ASSUME Silent, NEW d \in Container
             PROVE  /\ task'[d].results[Target] # "ok"
                    /\ task'[d].at \notin {"claimReappear", "recordReappear", "resetFailures"}
                    /\ topology'[Target].status = "present" /\ stalls'[knocker] <= Spare
                         => Left(d)' + Reserve(stalls'[knocker]) < reopen
    BY <1>1 DEF NoticeInv, Silent
<1>2. n \in Nat /\ stalls'[knocker] = n + 1
    BY DEF LoopFails, StallInv, BaseInv, RunInv, Silent
<1>3. /\ task[d].results[Target] # "ok" /\ task[c].at # "claimReappear"
      /\ task[d].at \notin {"claimReappear", "recordReappear", "resetFailures"}
      /\ topology[Target].status = "present" /\ n <= Spare => Left(d) + Reserve(n) < reopen
    BY DEF NoticeInv
<1>4. /\ task'[d].results[Target] # "ok"
      /\ task'[d].at \notin {"claimReappear", "recordReappear", "resetFailures"}
    BY <1>1, <1>3
<1>5. /\ Left(d) \in Nat /\ f \in 0..FailureCap /\ Rest(f) \in Nat /\ timer[d] \in Nat
      /\ ProbeTicks \in Nat /\ MaxSleep \in Nat /\ Cycle \in Nat /\ Cycle = MaxSleep + ProbeTicks
      /\ reopen \in Int /\ Spare \in Nat
    BY LeftType, RestType, CycleType, DemoAssumption, DownType DEF BaseInv, WorkerInv, Cycle, Silent
<1>6. Left(d)' = LeftAt(task'[d].at, task'[d].results[Target], timer'[d], f)
    BY <1>1 DEF Left
<1>7. Left(d)' \in Nat /\ Left(d)' <= Left(d) + Cycle
    <2>1. CASE d # c
        <3>1. Left(d)' = Left(d)
            BY <1>1, <2>1 DEF Left
        <3> QED
            BY <1>5, <3>1
    <2>2. CASE d = c /\ task'[c].at = "sleep" /\ timer'[c] <= MaxSleep
        <3>1. Left(d)' = timer'[c] + ProbeTicks + Rest(f)
            BY <1>6, <2>2 DEF LeftAt
        <3>2. Left(d) >= Rest(f)
            BY <1>5 DEF Left, LeftAt
        <3>3. timer'[c] \in Nat
            BY <1>1
        <3> HIDE DEF f
        <3> QED
            BY <1>5, <2>2, <3>1, <3>2, <3>3
    <2>3. CASE d = c /\ task[c].at \in Working /\ task'[c].at = "join"
        <3>1. Left(d)' = Cycle + Rest(f)
            BY <1>1, <1>6, <2>3 DEF LeftAt
        <3>2. Left(d) >= Rest(f)
            BY <1>5 DEF Left, LeftAt
        <3> HIDE DEF f
        <3> QED
            BY <1>5, <3>1, <3>2
    <2>4. CASE d = c /\ task[c].at = "verdict" /\ task'[c].at = "claimRemoval"
        <3>1. Left(d)' = Rest(f)
            BY <1>6, <2>4 DEF LeftAt
        <3>2. Left(d) = Rest(f)
            BY <2>4 DEF Left, LeftAt
        <3> HIDE DEF f
        <3> QED
            BY <1>5, <3>1, <3>2
    <2> QED
        BY <1>1, <1>3, <2>1, <2>2, <2>3, <2>4
<1>8. ASSUME topology[Target].status = "present", n + 1 <= Spare
      PROVE  Left(d)' + Reserve(n + 1) < reopen
    <2>1. n \in Nat /\ n + 1 \in Nat /\ n <= Spare
        BY <1>2, <1>5, <1>8
    <2>2. /\ Reserve(n) \in Nat /\ Reserve(n + 1) \in Nat
          /\ Reserve(n) = Reserve(n + 1) + Cycle
        BY <1>8, <2>1, ReserveType, ReserveSpent
    <2>3. Left(d) + Reserve(n) < reopen
        BY <1>3, <1>8, <2>1
    <2> HIDE DEF n
    <2> QED
        BY <1>5, <1>7, <2>2, <2>3
<1> QED
    BY <1>1, <1>2, <1>4, <1>8

\* The first tick finds no answer left to be handled; every tick takes as much
\* from what is left as from the worker's timer.
LEMMA NoticeTick ==
    ASSUME CyclesFit, BaseInv, StallInv, NoticeInv, Tick
    PROVE  NoticeInv'
<1> DEFINE reserve == Reserve(stalls[knocker])
           inTime == stalls[knocker] <= Spare
<1>1. /\ UNCHANGED <<server, topology, task, stalls, knocker>>
      /\ server = "null" => reopen \in Nat \ {0} /\ reopen' = reopen - 1
      /\ \A c \in Container : timer[c] \in Nat \ {0} /\ timer'[c] = timer[c] - 1
      /\ \A c \in Container :
            task[c].at = "sleep" \/ (task[c].at = "join" /\ task[c].results[Target] = "probing")
    BY TickStep DEF Tick, tables, probeVars, history, At
<1> SUFFICES ASSUME server = "null", NEW c \in Container
             PROVE  /\ task'[c].results[Target] # "ok"
                    /\ task'[c].at \notin {"claimReappear", "recordReappear", "resetFailures"}
                    /\ topology'[Target].status = "present" /\ inTime
                         => Left(c)' + reserve < reopen'
    BY <1>1 DEF NoticeInv, Silent
<1>0. inTime => reserve \in Nat /\ reserve <= Reserve(0) /\ Reserve(0) \in Nat
    <2>1. 0 \in Nat /\ 0 <= Spare
        BY DemoAssumption
    <2> QED
        BY <2>1, ReserveType DEF StallInv, BaseInv, RunInv
<1> HIDE DEF reserve, inTime
<1>2. task[c].at = "sleep" => task[c].results[Target] = "none"
    BY DEF BaseInv, TimerInv, At
<1>3. ASSUME topology[Target].status = "present", inTime PROVE Left(c)' + reserve < reopen'
    <2> DEFINE r == Rest(topology[Target].failures)
    <2>1. Left(c) \in Nat /\ Left(c) <= Cycle + Cycle + Cycle
        BY <1>1, LeftType
    <2>2. Left(c) + reserve < reopen
        <3>1. CASE reopen = Down
            BY <1>0, <1>3, <2>1, <3>1, CycleType, DownType DEF CyclesFit
        <3>2. CASE reopen # Down
            BY <1>3, <3>2 DEF NoticeInv, Silent, reserve, inTime
        <3> QED
            BY <3>1, <3>2
    <2>3. r \in Nat /\ ProbeTicks \in Nat
        BY LeftType, RestType, CycleType
    <2>4. timer[c] \in Nat \ {0} /\ timer'[c] = timer[c] - 1
        BY <1>1
    <2>5. CASE task[c].at = "sleep"
        <3>1. Left(c) = timer[c] + ProbeTicks + r
            BY <2>5 DEF Left, LeftAt
        <3>2. Left(c)' = timer'[c] + ProbeTicks + r
            BY <1>1, <2>5 DEF Left, LeftAt
        <3> HIDE DEF r
        <3> QED
            BY <1>0, <1>1, <1>3, <2>2, <2>3, <2>4, <3>1, <3>2
    <2>6. CASE task[c].at = "join" /\ task[c].results[Target] = "probing"
        <3>1. Left(c) = timer[c] + r
            BY <2>6 DEF Left, LeftAt
        <3>2. Left(c)' = timer'[c] + r
            BY <1>1, <2>6 DEF Left, LeftAt
        <3> HIDE DEF r
        <3> QED
            BY <1>0, <1>1, <1>3, <2>2, <2>3, <2>4, <3>1, <3>2
    <2> QED
        BY <1>1, <2>5, <2>6
<1> QED
    BY <1>1, <1>2, <1>3

\* The other steps leave the loops and the row alone, and let no time pass.
LEMMA NoticeElse ==
    ASSUME BaseInv, NoticeInv, UNCHANGED <<topology, task, timer, stalls>>,
           server = "null" => knocker' = knocker,
           \/ server' = server /\ reopen' = reopen
           \/ server' # "null"
           \/ server' = "null" /\ reopen' = IF server = "null" THEN reopen ELSE Down
    PROVE  NoticeInv'
<1> SUFFICES ASSUME Silent' PROVE NoticeInv'
    BY DEF NoticeInv
<1>1. Silent /\ reopen' = reopen /\ knocker' = knocker
    BY DEF Silent
<1>2. \A c \in Container : Left(c)' = Left(c)
    BY DEF Left
<1> QED
    BY <1>1, <1>2 DEF NoticeInv

LEMMA NoticeStep ==
    ASSUME CyclesFit
    PROVE  BaseInv /\ StallInv /\ NoticeInv /\ [Next]_vars => NoticeInv'
<1> SUFFICES ASSUME BaseInv, StallInv, NoticeInv, [Next]_vars PROVE NoticeInv'
    OBVIOUS
<1>1. CASE \E r \in Run : TurnAway(r) \/ StatusTest(r) \/ HandlerStep(r)
    BY <1>1, HandlerLeaves, NoticeElse DEF HandlerMoves, probeVars
<1>2. CASE \E r \in Run : WorkerStops(r)
    BY <1>2, WorkerStopsStep, NoticeElse DEF WorkerStops, Port, tables, runVars
<1>3. CASE WorkerStarts
    BY <1>3, WorkerStartsStep, NoticeElse DEF WorkerStarts, Port, tables, history
<1>4. CASE \E c \in Container : Loop(c) \/ LoopFails(c)
    BY <1>4, NoticeLoop, NoticeFails
<1>5. CASE Tick
    BY <1>5, NoticeTick
<1>6. CASE UNCHANGED vars
    BY <1>6, NoticeElse DEF vars, tables, probeVars, workerVars, history
<1> QED
    BY <1>1, <1>2, <1>3, <1>4, <1>5, <1>6 DEF Next

LEMMA NoticeHolds ==
    ASSUME CyclesFit
    PROVE  Spec => [](BaseInv /\ StallInv /\ NoticeInv)
<1>1. Init => NoticeInv
    BY DEF Init, InitWorker, NoticeInv, Silent
<1> QED
    BY <1>1, BaseInvHolds, NoticeStep, PTL DEF Spec

\* Ninety seconds are "long enough for three 15 s probe cycles plus slack"
\* (demo.rs:13), whatever the jitter, the timeouts and the number of loops: when
\* the worker listens again, the removal has been claimed, unless the loops have
\* failed more than Spare times since it went down.  Three of the longest cycles
\* and Spare more have to fit.
THEOREM KnocksAreNoticed ==
    ASSUME CyclesFit
    PROVE  Spec => KnockIsNoticed
<1>1. BaseInv /\ StallInv /\ NoticeInv /\ [Next]_vars
        => [server = "null" /\ server' # "null" /\ stalls[knocker] <= Spare
            => topology[Target].status # "present"]_vars
    <2> SUFFICES ASSUME BaseInv, StallInv, NoticeInv, [Next]_vars, server = "null", server' # "null",
                        stalls[knocker] <= Spare, topology[Target].status = "present"
                 PROVE  FALSE
        OBVIOUS
    <2>1. WorkerStarts
        <3>1. ASSUME NEW r \in Run, TurnAway(r) \/ StatusTest(r) \/ HandlerStep(r) PROVE FALSE
            BY <3>1, HandlerLeaves DEF HandlerMoves
        <3>2. ASSUME NEW r \in Run, WorkerStops(r) PROVE FALSE
            BY <3>2, WorkerStopsStep
        <3>3. ASSUME NEW c \in Container, Loop(c) \/ LoopFails(c) PROVE FALSE
            BY <3>3 DEF Loop, LoopFails, workerVars
        <3>4. ASSUME Tick \/ UNCHANGED vars PROVE FALSE
            BY <3>4 DEF Tick, vars, workerVars
        <3> QED
            BY <3>1, <3>2, <3>3, <3>4 DEF Next
    <2>2. reopen = 0 /\ 0 # Down
        BY <2>1, WorkerStartsStep, DownType
    <2>3. PICK c \in Container : TRUE
        BY ContainerAssumption
    <2>4. Left(c) \in Nat /\ Reserve(stalls[knocker]) \in Nat
        BY <2>3, LeftType, ReserveType DEF StallInv, BaseInv, RunInv
    <2>5. Left(c) + Reserve(stalls[knocker]) < 0
        BY <2>2, <2>3 DEF NoticeInv, Silent
    <2> QED
        BY <2>4, <2>5
<1> QED
    BY <1>1, NoticeHolds, PTL DEF Spec, KnockIsNoticed

-----------------------------------------------------------------------------
(* One container's loop, and what it files.                                *)

Place == task[Solo].at
Outcome == task[Solo].results[Target]
Audited == task[Solo].audited
RowStatus == topology[Target].status

\* The moves of the loop, by what they do to the place, the result, the verdict
\* and the status, and what they append.
Waits ==
    /\ UNCHANGED <<ledger, now, RowStatus, Audited>>
    /\ \/ Place = "sleep" /\ Place' = "join" /\ Outcome' \in {"none", "probing"}
       \/ /\ Place = "join" /\ Place' = "join" /\ Outcome = "probing"
          /\ Outcome' = IF server = "listening" THEN "ok" ELSE "failed"
       \/ Place = "join" /\ Place' = "claimReappear" /\ Outcome = "ok" /\ Outcome' = "none"
       \/ Place = "join" /\ Place' = "countFailure" /\ Outcome = "failed" /\ Outcome' = "none"
       \/ Place = "join" /\ Place' = "sleep" /\ Outcome = "none" /\ Outcome' = "none"

Returns ==
    /\ Outcome = "none" /\ Outcome' = "none"
    /\ \/ /\ Place = "claimReappear" /\ RowStatus \in Gone /\ RowStatus' = "present"
          /\ Place' = "recordReappear" /\ UNCHANGED <<ledger, now>>
       \/ /\ Place = "claimReappear" /\ RowStatus' = RowStatus
          /\ Place' = "resetFailures" /\ UNCHANGED <<ledger, now>>
       \/ /\ Place = "recordReappear" /\ RowStatus' = RowStatus
          /\ Place' = "join" /\ Record("reappear", Target, Solo)
       \/ /\ Place = "resetFailures" /\ RowStatus' = RowStatus
          /\ Place' = "join" /\ UNCHANGED <<ledger, now>>

Departs ==
    /\ Outcome = "none" /\ Outcome' = "none"
    /\ \/ /\ Place = "countFailure" /\ RowStatus' = RowStatus /\ UNCHANGED <<ledger, now>>
          /\ \/ Place' = "join"
             \/ Place' = "verdict" /\ RowStatus = "present"
       \/ /\ Place = "verdict" /\ RowStatus' = RowStatus /\ UNCHANGED <<ledger, now>>
          /\ Place' = "claimRemoval" /\ Audited' = RecentAllowExists(Target)
       \/ /\ Place = "claimRemoval" /\ UNCHANGED <<ledger, now>> /\ RowStatus' # "present"
          /\ \/ RowStatus = "present" /\ Place' = "recordRemoval" /\ Audited' = Audited
             \/ RowStatus # "present" /\ Place' = "join"
          /\ Solo \in unasked => Solo \in unasked'
       \/ /\ Place = "recordRemoval" /\ RowStatus' = RowStatus /\ Place' = "join"
          /\ Record(IF Audited THEN "audit" ELSE "drift", Target, Solo)

\* What goes wrong with it.
Slips ==
    /\ UNCHANGED <<ledger, now, RowStatus>> /\ Outcome' = "none"
    /\ \/ Place' \in {"join", "sleep"}
       \/ Place = "claimReappear" /\ Place' = "resetFailures"
       \/ Place = "verdict" /\ Place' = "claimRemoval" /\ ~Audited' /\ Solo \in unasked'

LEMMA SoloSlips ==
    ASSUME OneLoop, BaseInv, NEW c \in Container, LoopFails(c)
    PROVE  /\ Slips
           /\ UNCHANGED <<server, stopping, reopen, listenErrors, step, answer, approved,
                          knocker, muddled>>
<1>1. c = Solo
    BY SoloLoop
<1>2. UNCHANGED <<server, stopping, reopen, listenErrors, step, answer, approved, knocker, muddled>>
    BY DEF LoopFails, workerVars, runVars
<1>3. UNCHANGED <<topology, ledger, now>> /\ task'[c].results[Target] = "none"
      /\ \/ task'[c].at \in {"join", "sleep"}
         \/ task[c].at = "claimReappear" /\ task'[c].at = "resetFailures"
         \/ /\ task[c].at = "verdict" /\ task'[c].at = "claimRemoval"
            /\ ~task'[c].audited /\ c \in unasked'
    BY FailsEffect
<1> QED
    BY <1>1, <1>2, <1>3 DEF Slips, Place, Outcome, RowStatus, Audited

LEMMA SoloMoves ==
    ASSUME OneLoop, BaseInv, NEW c \in Container, Loop(c)
    PROVE  /\ Waits \/ Returns \/ Departs
           /\ UNCHANGED <<server, stopping, reopen, listenErrors, step, answer, approved,
                          knocker, muddled>>
<1>1. c = Solo
    BY SoloLoop
<1>2. UNCHANGED <<server, stopping, reopen, listenErrors, step, answer, approved, knocker, muddled>>
    BY DEF Loop, workerVars, runVars
<1>3. /\ Target \in Host /\ (answers[Target] <=> server = "listening") 
      /\ ProbeInv /\ topology \in [Host -> TopoRow]
    BY TargetIsHost DEF BaseInv, WorkerInv, ProbeInv, TablesOK
<1>4. CASE StartCycle(c)
    <2>1. /\ Place = "sleep" /\ Place' = "join" /\ RowStatus' = RowStatus
          /\ Outcome' \in {"none", "probing"}
        BY <1>1, <1>4, WakesUp DEF Place, Outcome, RowStatus
    <2>2. Audited' = Audited /\ UNCHANGED <<ledger, now>>
        BY <1>1, <1>3, <1>4, StartCycleStep DEF Audited, StartCycle, tables
    <2> QED
        BY <1>2, <2>1, <2>2 DEF Waits
<1>5. CASE ProbeOne(c, Target)
    <2>1. /\ Place = "join" /\ Place' = "join" /\ RowStatus' = RowStatus /\ Outcome = "probing"
          /\ Outcome' = IF server = "listening" THEN "ok" ELSE "failed"
        BY <1>1, <1>3, <1>5, ComesToAnswer DEF Place, Outcome, RowStatus
    <2>2. Audited' = Audited /\ UNCHANGED <<ledger, now>>
        BY <1>1, <1>3, <1>5, ProbeOneStep DEF Audited, ProbeOne, tables
    <2> QED
        BY <1>2, <2>1, <2>2 DEF Waits
<1>6. CASE \E h \in Host : JoinNext(c, h)
    <2>1. /\ Place = "join" /\ RowStatus' = RowStatus /\ Outcome' = "none"
          /\ \/ Outcome = "ok" /\ Place' = "claimReappear"
             \/ Outcome = "failed" /\ Place' = "countFailure"
        BY <1>1, <1>6, TakesResult DEF Place, Outcome, RowStatus
    <2>2. Audited' = FALSE /\ UNCHANGED <<ledger, now>>
        BY <1>1, <1>3, <1>6, JoinNextStep DEF Audited, JoinNext, tables
    <2>3. Audited = FALSE
        BY <1>1, <1>3, <2>1, SoloLoop DEF Audited, Place, ProbeInv, ProbeOK, LoopInv
    <2> QED
        BY <1>2, <2>1, <2>2, <2>3 DEF Waits
<1>7. CASE EndCycle(c)
    <2>1. /\ Place = "join" /\ Place' = "sleep" /\ RowStatus' = RowStatus
          /\ Outcome = "none" /\ Outcome' = "none"
        BY <1>1, <1>7, GoesToSleep DEF Place, Outcome, RowStatus
    <2>2. task'[c] = Asleep /\ UNCHANGED <<ledger, now>>
        BY <1>3, <1>7, EndCycleStep DEF EndCycle, tables
    <2>4. Audited' = FALSE
        BY <1>1, <2>2 DEF Audited, Asleep
    <2>3. Audited = FALSE
        BY <1>1, <1>3, <2>1, SoloLoop DEF Audited, Place, ProbeInv, ProbeOK, LoopInv
    <2> QED
        BY <2>1, <2>2, <2>3, <2>4, <1>2 DEF Waits
<1>8. CASE \/ ClaimReappear(c) \/ RecordReappear(c) \/ ResetFailures(c)
           \/ CountFailure(c) \/ Verdict(c) \/ ClaimRemoval(c) \/ RecordRemoval(c)
    <2>1. Outcome = "none" /\ Outcome' = "none" /\ task[c].host = Target
        <3>1. task[c].at \in Working
            BY <1>8, Handles
        <3> QED
            BY <1>1, <1>3, <1>8, <3>1, Handles, AtWork, TargetIsHost DEF Outcome
    <2>2. ASSUME NEW point \in Point, Goto(c, point)
          PROVE  Place' = point /\ Audited' = Audited
        BY <1>1, <1>3, <2>2 DEF Goto, ProbeInv, ProbeOK, Place, Audited
    <2>3. ASSUME Resume(c)
          PROVE  Place' = "join"
        BY <1>1, <1>3, <2>3, ResumeEffect DEF Place
    <2>4. CASE ClaimReappear(c)
        <3>1. Place = "claimReappear" /\ UNCHANGED <<ledger, now>>
            BY <1>1, <2>4 DEF ClaimReappear, At, Place
        <3>2. CASE RowStatus \in Gone /\ Goto(c, "recordReappear")
                   /\ topology' = [topology EXCEPT ![Target] = [status |-> "present", failures |-> 0]]
            <4>1. RowStatus' = "present"
                BY <1>3, <3>2 DEF RowStatus
            <4>2. Place' = "recordReappear"
                BY <2>2, <3>2 DEF Point
            <4> QED
                BY <1>2, <2>1, <3>1, <3>2, <4>1, <4>2 DEF Returns
        <3>3. CASE topology' = topology /\ Goto(c, "resetFailures")
            <4>1. Place' = "resetFailures"
                BY <2>2, <3>3 DEF Point
            <4>2. RowStatus' = RowStatus
                BY <3>3 DEF RowStatus
            <4> QED
                BY <1>2, <2>1, <3>1, <4>1, <4>2 DEF Returns
        <3> QED
            BY <1>2, <2>1, <2>4, <3>2, <3>3 DEF ClaimReappear, RowStatus
    <2>5. CASE RecordReappear(c)
        BY <1>1, <1>2, <2>1, <2>3, <2>5 DEF RecordReappear, At, Place, RowStatus, Returns
    <2>6. CASE ResetFailures(c)
        <3>1. topology' = [topology EXCEPT ![Target].failures = 0]
            BY <2>1, <2>6 DEF ResetFailures
        <3>2. RowStatus' = RowStatus
            BY <1>3, <3>1 DEF RowStatus, TopoRow
        <3> QED
            BY <1>1, <1>2, <2>1, <2>3, <2>6, <3>2 DEF ResetFailures, At, Place, Returns
    <2>7. CASE CountFailure(c)
        <3>1. /\ Place = "countFailure" /\ UNCHANGED <<ledger, now>>
              /\ \/ Goto(c, "verdict") /\ RowStatus = "present"
                 \/ Resume(c)
            BY <1>1, <2>1, <2>7 DEF CountFailure, At, Place, RowStatus
        <3>2. RowStatus' = RowStatus
            BY <1>1, <2>7, <3>1, Handles DEF Place, RowStatus
        <3>3. CASE Goto(c, "verdict") /\ RowStatus = "present"
            <4>1. Place' = "verdict"
                BY <2>2, <3>3 DEF Point
            <4> QED
                BY <1>2, <2>1, <3>1, <3>2, <3>3, <4>1 DEF Departs
        <3>4. CASE Resume(c)
            BY <1>2, <2>1, <2>3, <3>1, <3>2, <3>4 DEF Departs
        <3> QED
            BY <3>1, <3>3, <3>4
    <2>8. CASE Verdict(c)
        <3>1. Place' = "claimRemoval" /\ Audited' = RecentAllowExists(Target)
            BY <1>1, <1>3, <2>1, <2>8, VerdictStep DEF Place, Audited
        <3>2. Place = "verdict" /\ UNCHANGED <<ledger, now, topology>>
            BY <1>1, <2>8 DEF Verdict, At, Place, tables
        <3> QED
            BY <1>2, <2>1, <3>1, <3>2 DEF Departs, RowStatus
    <2>9. CASE ClaimRemoval(c)
        <3>1. /\ Place = "claimRemoval" /\ UNCHANGED <<ledger, now>> /\ unasked' = unasked
              /\ \/ RowStatus = "present" /\ Goto(c, "recordRemoval")
                 \/ RowStatus # "present" /\ Resume(c)
            BY <1>1, <2>1, <2>9 DEF ClaimRemoval, At, Place, RowStatus, Loop
        <3>2. RowStatus' # "present"
            BY <1>1, <2>9, <3>1, Handles DEF Place, RowStatus
        <3>3. CASE RowStatus = "present" /\ Goto(c, "recordRemoval")
            BY <1>2, <2>1, <2>2, <3>1, <3>2, <3>3 DEF Departs, Point
        <3>4. CASE RowStatus # "present" /\ Resume(c)
            BY <1>2, <2>1, <2>3, <3>1, <3>2, <3>4 DEF Departs
        <3> QED
            BY <3>1, <3>3, <3>4
    <2>10. CASE RecordRemoval(c)
        BY <1>1, <1>2, <2>1, <2>3, <2>10
           DEF RecordRemoval, At, Place, RowStatus, Audited, Departs
    <2> QED
        BY <1>8, <2>4, <2>5, <2>6, <2>7, <2>8, <2>9, <2>10
<1> QED
    BY <1>4, <1>5, <1>6, <1>7, <1>8 DEF Loop, LoopStep

\* The moves of a run's handler, by what they do to the runs, the orders and
\* the ledger.
OnlyMoves(r, points) ==
    /\ step' \in [Run -> Steps]
    /\ step'[r] \in points /\ \A q \in Run \ {r} : step'[q] = step[q]

Ends(r) == OnlyMoves(r, {"done"}) /\ UNCHANGED <<ledger, now, stopping, muddled>>

Begins(r) ==
    /\ step[r] = "idle" /\ RowStatus = "present"
    /\ OnlyMoves(r, IF r \in approved THEN {"decide"} ELSE {"knock"})
    /\ muddled' = muddled \cup Company(r)
    /\ UNCHANGED <<ledger, now, stopping>>

Allows(r) ==
    /\ step[r] = "decide" /\ OnlyMoves(r, {"knock", "done"})
    /\ Record("allow", Target, Solo)
    /\ UNCHANGED <<stopping, muddled>>

Knocks(r) ==
    /\ step[r] \in {"knock", "sent"} /\ OnlyMoves(r, {"sent", "replied"})
    /\ server = "listening" /\ stopping' \in {stopping, stopping \cup {r}}
    /\ UNCHANGED <<ledger, now, muddled>>

HandlerGoes(r) ==
    /\ Ends(r) \/ Begins(r) \/ Allows(r) \/ Knocks(r)
    /\ UNCHANGED <<Place, Outcome, Audited, RowStatus, server, reopen, approved, knocker, unasked>>

LEMMA HandlerCases ==
    ASSUME OneLoop, BaseInv, HandlerMoves
    PROVE  \E r \in Run : HandlerGoes(r)
<1>1. UNCHANGED <<Place, Outcome, Audited, RowStatus, server, reopen, unasked>>
    BY HandlerLeaves DEF Place, Outcome, Audited, RowStatus, probeVars
<1>2. approved' = approved /\ knocker' = knocker
    BY DEF HandlerMoves, TurnAway, StatusTest, HandlerStep, Allowed, Refused, NotRecorded, Connect,
       Deliver, Undelivered, Started, ReplyLost, history
<1>3. step \in [Run -> Steps]
    BY DEF BaseInv, RunInv
<1>4. ASSUME NEW r \in Run, NEW what, Finish(r, what) PROVE OnlyMoves(r, {"done"})
    BY <1>3, <1>4 DEF Finish, OnlyMoves, Steps
<1>5. ASSUME NEW r \in Run, NEW point \in Steps, Proceed(r, point) PROVE OnlyMoves(r, {point})
    BY <1>3, <1>5 DEF Proceed, OnlyMoves
<1>6. \A c \in Container : c = Solo
    BY SoloLoop
<1>7. PICK r \in Run : TurnAway(r) \/ StatusTest(r) \/ HandlerStep(r)
    BY DEF HandlerMoves
<1>8. SUFFICES Ends(r) \/ Begins(r) \/ Allows(r) \/ Knocks(r)
    BY <1>1, <1>2 DEF HandlerGoes
<1>9. CASE TurnAway(r) \/ Refused(r) \/ Undelivered(r) \/ Started(r) \/ ReplyLost(r)
    <2>1. UNCHANGED <<ledger, now, stopping, muddled>>
        BY <1>9 DEF TurnAway, Refused, Undelivered, Started, ReplyLost, tables, workerVars, history
    <2>2. \E what : Finish(r, what)
        BY <1>9 DEF TurnAway, Refused, Undelivered, Started, ReplyLost
    <2> QED
        BY <1>4, <2>1, <2>2 DEF Ends
<1>10. CASE StatusTest(r)
    <2>1. UNCHANGED <<ledger, now, stopping>>
        BY <1>10 DEF StatusTest, tables, workerVars
    <2>2. CASE Finish(r, "409") /\ UNCHANGED muddled
        BY <1>4, <2>1, <2>2 DEF Ends
    <2>3. CASE /\ RowStatus = "present" /\ Proceed(r, IF r \in approved THEN "decide" ELSE "knock")
               /\ muddled' = muddled \cup Company(r)
        <3>1. OnlyMoves(r, IF r \in approved THEN {"decide"} ELSE {"knock"})
            <4>1. CASE r \in approved
                BY <1>5, <2>3, <4>1 DEF Steps
            <4>2. CASE r \notin approved
                BY <1>5, <2>3, <4>2 DEF Steps
            <4> QED
                BY <4>1, <4>2
        <3>2. step[r] = "idle"
            BY <1>10 DEF StatusTest
        <3> QED
            BY <2>1, <2>3, <3>1, <3>2 DEF Begins
    <2> QED
        BY <1>10, <2>2, <2>3 DEF StatusTest, RowStatus
<1>11. CASE Allowed(r)
    <2>1. Record("allow", Target, Solo) /\ step[r] = "decide" /\ UNCHANGED <<stopping, muddled>>
        BY <1>6, <1>11 DEF Allowed, workerVars, history
    <2>2. OnlyMoves(r, {"knock"})
        BY <1>5, <1>11 DEF Allowed, Steps
    <2> QED
        BY <2>1, <2>2 DEF Allows, OnlyMoves
<1>12. CASE NotRecorded(r)
    <2>1. /\ step[r] = "decide" /\ UNCHANGED <<stopping, muddled>>
          /\ (UNCHANGED <<ledger, now>>) \/ Record("allow", Target, Solo)
        BY <1>6, <1>12 DEF NotRecorded, workerVars, history
    <2>2. OnlyMoves(r, {"done"})
        BY <1>4, <1>12 DEF NotRecorded
    <2> QED
        BY <2>1, <2>2 DEF Allows, Ends, OnlyMoves
<1>13. CASE Connect(r)
    <2>1. UNCHANGED <<ledger, now, stopping, muddled>> /\ step[r] = "knock"
        BY <1>13 DEF Connect, tables, workerVars, history
    <2>2. CASE server = "listening" /\ Proceed(r, "sent")
        <3>1. OnlyMoves(r, {"sent"})
            BY <1>5, <2>2 DEF Steps
        <3> QED
            BY <2>1, <2>2, <3>1 DEF Knocks, OnlyMoves
    <2>3. CASE Finish(r, "502")
        BY <1>4, <2>1, <2>3 DEF Ends
    <2> QED
        BY <1>13, <2>2, <2>3 DEF Connect
<1>14. CASE Deliver(r)
    <2>1. /\ UNCHANGED <<ledger, now, muddled>> /\ step[r] = "sent"
          /\ server = "listening" /\ stopping' = stopping \cup {r}
        BY <1>14 DEF Deliver, PlayDead, tables, history
    <2>2. OnlyMoves(r, {"replied"})
        BY <1>5, <1>14 DEF Deliver, Steps
    <2> QED
        BY <2>1, <2>2 DEF Knocks, OnlyMoves
<1> QED
    BY <1>7, <1>9, <1>10, <1>11, <1>12, <1>13, <1>14 DEF HandlerStep

\* The moves of the worker and of the clock, likewise.
LoopStill == UNCHANGED <<Place, Outcome, Audited, RowStatus, ledger, now, unasked>>
RunsStill == UNCHANGED <<step, approved, muddled>>

Falls(r) ==
    /\ r \in stopping /\ stopping' = stopping \ {r} /\ server' = "null"
    /\ server # "null" => server = "listening" /\ reopen' = Down /\ knocker' = r
    /\ server = "null" => reopen' = reopen /\ knocker' = knocker
    /\ LoopStill /\ RunsStill

Rises ==
    /\ server # "listening" /\ server' # "null" /\ reopen = 0
    /\ UNCHANGED <<stopping, knocker>>
    /\ LoopStill /\ RunsStill

TimeFlies ==
    /\ \A r \in Run : ~Busy(r)
    /\ Place = "sleep" \/ (Place = "join" /\ Outcome = "probing")
    /\ UNCHANGED <<server, stopping, knocker>>
    /\ LoopStill /\ RunsStill

LoopGoes ==
    /\ Waits \/ Returns \/ Departs \/ Slips
    /\ UNCHANGED <<server, stopping, reopen, knocker>> /\ RunsStill

NothingGoes == UNCHANGED <<server, stopping, reopen, knocker>> /\ LoopStill /\ RunsStill

LEMMA Moves ==
    ASSUME OneLoop, BaseInv, [Next]_vars
    PROVE  \/ \E r \in Run : HandlerGoes(r) \/ Falls(r)
           \/ Rises \/ LoopGoes \/ TimeFlies \/ NothingGoes
<1>1. CASE \E r \in Run : TurnAway(r) \/ StatusTest(r) \/ HandlerStep(r)
    BY <1>1, HandlerCases DEF HandlerMoves
<1>2. ASSUME NEW r \in Run, WorkerStops(r) PROVE Falls(r)
    <2>1. /\ r \in stopping /\ stopping' = stopping \ {r} /\ server' = "null"
          /\ reopen' = IF server = "null" THEN reopen ELSE Down
        BY <1>2, WorkerStopsStep DEF WorkerStops, StopListening
    <2>2. server # "null" => server = "listening"
        BY <2>1 DEF BaseInv, WorkerInv, WorkerOK
    <2>3. knocker' = IF server = "listening" THEN r ELSE knocker
        BY <1>2 DEF WorkerStops
    <2>4. LoopStill /\ RunsStill
        BY <1>2 DEF WorkerStops, Port, LoopStill, RunsStill, tables, runVars, Place, Outcome,
           Audited, RowStatus
    <2> QED
        BY <2>1, <2>2, <2>3, <2>4 DEF Falls
<1>3. CASE WorkerStarts
    <2>1. server' # "null" /\ reopen = 0
        BY <1>3, WorkerStartsStep
    <2>2. server # "listening"
        BY <2>1 DEF BaseInv, WorkerInv, Never
    <2>3. UNCHANGED <<stopping, knocker>>
        BY <1>3 DEF WorkerStarts, Listen, ListenFails, history
    <2>4. LoopStill /\ RunsStill
        BY <1>3 DEF WorkerStarts, Port, LoopStill, RunsStill, tables, runVars, history, Place,
           Outcome, Audited, RowStatus
    <2> QED
        BY <2>1, <2>2, <2>3, <2>4 DEF Rises
<1>4. CASE \E c \in Container : Loop(c) \/ LoopFails(c)
    BY <1>4, SoloMoves, SoloSlips DEF LoopGoes, RunsStill
<1>5. CASE Tick
    <2>1. Place = "sleep" \/ (Place = "join" /\ Outcome = "probing")
        BY <1>5, SoloLoop DEF Tick, At, Place, Outcome
    <2>2. (\A r \in Run : ~Busy(r)) /\ UNCHANGED <<server, stopping, knocker>>
        BY <1>5 DEF Tick, history
    <2>3. LoopStill /\ RunsStill
        BY <1>5 DEF Tick, LoopStill, RunsStill, tables, probeVars, runVars, history, Place, Outcome,
           Audited, RowStatus
    <2> QED
        BY <2>1, <2>2, <2>3 DEF TimeFlies
<1>6. CASE UNCHANGED vars
    BY <1>6 DEF vars, tables, probeVars, workerVars, runVars, history, NothingGoes, LoopStill,
       RunsStill, Place, Outcome, Audited, RowStatus
<1> QED
    BY <1>1, <1>2, <1>3, <1>4, <1>5, <1>6 DEF Next

\* What the place of the loop tells of the worker: a failure is counted and a
\* removal claimed and filed only while the worker is down, and an answer from
\* before it went down finds the row present.
DownInv ==
    /\ server = "failed" => RowStatus # "present" /\ Outcome # "ok" /\ Place # "claimReappear"
    /\ (Outcome = "failed" \/ Place = "countFailure") /\ RowStatus = "present" => server = "null"
    /\ Place \in {"verdict", "claimRemoval"} => RowStatus = "present" /\ server = "null"
    /\ Place = "recordRemoval" => server = "null" /\ reopen # 0 /\ RowStatus # "present"
    /\ server = "null" /\ (Outcome = "ok" \/ Place = "claimReappear") => RowStatus = "present"

\* A run is under way only while the row is present, and done before the worker
\* opens its port again.  Only approved runs ask the policies.
RunsInv ==
    /\ server = "failed" \/ (server = "null" /\ reopen = 0) => \A r \in Run : ~Busy(r)
    /\ server = "listening" /\ (stopping # {} \/ \E r \in Run : Busy(r)) => RowStatus = "present"
    /\ \A r \in Run : step[r] = "decide" => r \in approved

LEMMA SoloType ==
    ASSUME BaseInv
    PROVE  /\ server \in {"listening", "failed", "null"} /\ Down # 0
           /\ stopping \subseteq Run /\ step \in [Run -> Steps] /\ knocker \in Run
           /\ approved \subseteq Run
           /\ server = "failed" => stopping = {}
           /\ server = "null" /\ reopen = 0 => stopping = {}
           /\ Place # "join" => Outcome = "none"
<1>1. Solo \in Container
    BY ContainerAssumption DEF Solo
<1>2. Place # "join" => Outcome = "none"
    BY <1>1 DEF BaseInv, TimerInv, At, Place, Outcome
<1> QED
    BY <1>2, DownType DEF BaseInv, WorkerInv, WorkerOK, RunInv, Run

\* The worker opens its port again when its removal has been claimed, and no
\* answer from before is left.
LEMMA NoticedInTime ==
    ASSUME BaseInv, StallInv, NoticeInv, Punctual, server = "null", reopen = 0
    PROVE  RowStatus # "present" /\ Outcome # "ok" /\ Place # "claimReappear"
<1>1. Silent /\ Solo \in Container
    BY DownType, ContainerAssumption DEF Silent, Solo
<1>2. stalls[knocker] \in Nat /\ stalls[knocker] <= Spare
    BY DEF Punctual, StallInv, BaseInv, RunInv
<1>3. Left(Solo) \in Nat /\ Reserve(stalls[knocker]) \in Nat
    BY <1>1, <1>2, LeftType, ReserveType
<1>4. RowStatus = "present" => Left(Solo) + Reserve(stalls[knocker]) < 0
    BY <1>1, <1>2 DEF NoticeInv, RowStatus
<1> QED
    BY <1>1, <1>3, <1>4 DEF NoticeInv, Place, Outcome

LEMMA DownStep ==
    ASSUME OneLoop, BaseInv, StallInv, NoticeInv, Punctual, DownInv, RunsInv, [Next]_vars
    PROVE  DownInv'
<1>1. CASE \E r \in Run : HandlerGoes(r)
    BY <1>1 DEF HandlerGoes, DownInv
<1>2. ASSUME NEW r \in Run, Falls(r) PROVE DownInv'
    <2>1. server = "listening" => RowStatus = "present" /\ reopen' # 0
        BY <1>2, SoloType DEF Falls, RunsInv
    <2>2. /\ server' = "null" /\ LoopStill
          /\ server = "listening" \/ (server = "null" /\ reopen' = reopen)
        BY <1>2 DEF Falls
    <2> QED
        BY <2>1, <2>2 DEF DownInv, LoopStill
<1>3. CASE Rises
    <2>1. RowStatus # "present" /\ Outcome # "ok" /\ Place # "claimReappear"
        BY <1>3, SoloType, NoticedInTime DEF Rises, DownInv
    <2>2. Place # "recordRemoval" /\ Place \notin {"verdict", "claimRemoval"}
        BY <1>3, <2>1 DEF Rises, DownInv
    <2> QED
        BY <1>3, <2>1, <2>2 DEF Rises, LoopStill, DownInv
<1>4. CASE LoopGoes
    <2>1. server' = server /\ reopen' = reopen
        BY <1>4 DEF LoopGoes
    <2>2. server \in {"listening", "failed", "null"} /\ (Place # "join" => Outcome = "none")
        BY SoloType
    <2>3. CASE Waits
        BY <2>1, <2>2, <2>3 DEF Waits, DownInv
    <2>4. CASE Returns
        BY <2>1, <2>2, <2>4 DEF Returns, DownInv, Gone
    <2>5. CASE Departs
        <3>1. server = "null" /\ reopen = 0 => RowStatus # "present"
            BY NoticedInTime
        <3> QED
            BY <2>1, <2>2, <2>5, <3>1 DEF Departs, DownInv
    <2>6. CASE Slips
        BY <2>1, <2>2, <2>6 DEF Slips, DownInv
    <2> QED
        BY <1>4, <2>3, <2>4, <2>5, <2>6 DEF LoopGoes
<1>5. CASE TimeFlies
    BY <1>5 DEF TimeFlies, LoopStill, DownInv
<1>6. CASE NothingGoes
    BY <1>6 DEF NothingGoes, LoopStill, DownInv
<1> QED
    BY <1>1, <1>2, <1>3, <1>4, <1>5, <1>6, Moves

LEMMA RunsStep ==
    ASSUME OneLoop, BaseInv, BaseInv', StallInv, NoticeInv, Punctual, DownInv, RunsInv, [Next]_vars
    PROVE  RunsInv'
<1>1. ASSUME NEW r \in Run, HandlerGoes(r) PROVE RunsInv'
    <2>1. UNCHANGED <<Place, Outcome, RowStatus, server, reopen, approved>>
        BY <1>1 DEF HandlerGoes
    <2>2. \A q \in Run : Busy(q)' /\ ~Busy(q) => q = r /\ RowStatus = "present"
        BY <1>1, SoloType DEF HandlerGoes, Ends, Begins, Allows, Knocks, OnlyMoves, Busy
    <2>3. stopping' # {} => stopping # {} \/ Busy(r)
        BY <1>1 DEF HandlerGoes, Ends, Begins, Allows, Knocks, Busy
    <2>4. \A q \in Run : step'[q] = "decide" => q \in approved
        BY <1>1 DEF HandlerGoes, Ends, Begins, Allows, Knocks, OnlyMoves, RunsInv
    <2>5. server = "failed" \/ (server = "null" /\ reopen = 0) => RowStatus # "present"
        BY NoticedInTime DEF DownInv
    <2> QED
        BY <2>1, <2>2, <2>3, <2>4, <2>5 DEF RunsInv
<1>2. ASSUME NEW r \in Run, Falls(r) PROVE RunsInv'
    <2>1. server' = "null" /\ reopen' # 0
        BY <1>2, SoloType DEF Falls
    <2> QED
        BY <1>2, <2>1 DEF Falls, RunsStill, RunsInv
<1>3. CASE Rises
    <2>1. stopping = {} /\ \A r \in Run : ~Busy(r)
        BY <1>3, SoloType DEF Rises, RunsInv
    <2> QED
        BY <1>3, <2>1 DEF Rises, RunsStill, RunsInv, Busy
<1>4. CASE LoopGoes
    <2>1. server = "listening" /\ RowStatus = "present" => RowStatus' = "present"
        BY <1>4 DEF LoopGoes, Waits, Returns, Departs, Slips, DownInv
    <2> QED
        BY <1>4, <2>1 DEF LoopGoes, RunsStill, RunsInv, Busy
<1>5. CASE TimeFlies
    BY <1>5 DEF TimeFlies, RunsStill, LoopStill, RunsInv, Busy
<1>6. CASE NothingGoes
    BY <1>6 DEF NothingGoes, RunsStill, LoopStill, RunsInv, Busy
<1> QED
    BY <1>1, <1>2, <1>3, <1>4, <1>5, <1>6, Moves

\* The runs that are past their decision: each of them has appended one entry
\* at most, and the loop one reappearance, since one of them was allowed.
Past == {r \in Run : step[r] \notin {"idle", "decide"}}

Slack == Cardinality(Past) - (IF Place = "recordReappear" THEN 1 ELSE 0)

\* An allow that no audit followed, and how old it is.
BackedBy(i) ==
    /\ ledger[i].kind = "allow" /\ ledger[i].target = Target
    /\ \A j \in DOMAIN ledger : i < j => ledger[j].kind # "audit"
    /\ now + Skew[Solo] <= ledger[i].ts + Slack + 1

Backed == \E i \in DOMAIN ledger : BackedBy(i)

\* All runs there may be fit into a window.
AllowsFit == IsFiniteSet(Order) /\ Cardinality(Order) + 1 < Window

LEMMA PastType ==
    ASSUME AllowsFit
    PROVE  /\ IsFiniteSet(Past) /\ Cardinality(Past) \in Nat
           /\ Cardinality(Past) <= Cardinality(Order)
           /\ Cardinality(Order) \in Nat /\ Slack \in Int
<1>1. Past \in SUBSET Order /\ IsFiniteSet(Order)
    BY DEF Past, Run, AllowsFit
<1>2. IsFiniteSet(Past) /\ Cardinality(Past) <= Cardinality(Order)
    BY <1>1, FS_Subset
<1>3. Cardinality(Past) \in Nat /\ Cardinality(Order) \in Nat
    BY <1>1, <1>2, FS_CardinalityType
<1> QED
    BY <1>2, <1>3 DEF Slack

\* Runs do not come back to their decision.
LEMMA PastGrows ==
    ASSUME AllowsFit, Past \subseteq Past'
    PROVE  /\ Cardinality(Past)' \in Nat /\ Cardinality(Past) <= Cardinality(Past)'
           /\ \A r \in Past' \ Past : Cardinality(Past) + 1 <= Cardinality(Past)'
<1>1. IsFiniteSet(Past) /\ Cardinality(Past) \in Nat
    BY PastType
<1>2. Past' \in SUBSET Order /\ IsFiniteSet(Order)
    BY DEF Past, Run, AllowsFit
<1>3. IsFiniteSet(Past') /\ Cardinality(Past') \in Nat
    BY <1>2, FS_Subset, FS_CardinalityType
<1>4. Cardinality(Past) <= Cardinality(Past')
    BY <1>3, FS_Subset
<1>5. ASSUME NEW r \in Past' \ Past PROVE Cardinality(Past) + 1 <= Cardinality(Past')
    <2>1. Cardinality(Past \cup {r}) = Cardinality(Past) + 1
        BY <1>1, FS_AddElement
    <2>2. Past \cup {r} \in SUBSET Past'
        OBVIOUS
    <2>3. Cardinality(Past \cup {r}) <= Cardinality(Past')
        BY <1>3, <2>2, FS_Subset
    <2> QED
        BY <2>1, <2>3
<1> QED
    BY <1>3, <1>4, <1>5

\* The allow is there for the verdict to be found.
LEMMA BackedSeen ==
    ASSUME AllowsFit, BaseInv, InOrder, Backed
    PROVE  RecentAllowExists(Target)
<1>1. TablesOK /\ Solo \in Container
    BY ContainerAssumption DEF BaseInv, ProbeInv, Solo
<1>2. PICK i \in DOMAIN ledger : BackedBy(i)
    BY DEF Backed
<1>3. /\ ledger[i].ts \in Nat /\ now \in Nat /\ \A j \in DOMAIN ledger : j \in Nat
      /\ Skew[Solo] \in Nat /\ Window \in Nat
    BY <1>1, LedgerType, SkewAssumption, BoundAssumption
<1>4. Slack <= Cardinality(Order) /\ Slack \in Int /\ Cardinality(Order) \in Nat
    BY PastType DEF Slack
<1>5. now + Skew[Solo] <= ledger[i].ts + Slack + 1 /\ Cardinality(Order) + 1 < Window
    BY <1>2 DEF BackedBy, AllowsFit
<1>6. ledger[i].ts > now - Window
    BY <1>3, <1>4, <1>5
<1>7. ASSUME NEW j \in DOMAIN ledger, ledger[j].kind = "audit" PROVE ledger[i].ts > ledger[j].ts
    <2>1. j < i
        <3>1. ~(i < j) /\ j # i
            BY <1>2, <1>7 DEF BackedBy
        <3> QED
            BY <1>3, <3>1
    <2>2. ledger[j].ts < ledger[i].ts
        BY <2>1 DEF InOrder
    <2>3. ledger[j].ts \in Nat
        BY <1>1, LedgerType
    <2> QED
        BY <1>3, <2>2, <2>3
<1> QED
    BY <1>2, <1>6, <1>7 DEF BackedBy, RecentAllowExists

LEMMA BackedStays ==
    ASSUME AllowsFit, BaseInv, Backed, UNCHANGED <<ledger, now>>, Slack' \in Int, Slack <= Slack'
    PROVE  Backed'
<1>1. PICK i \in DOMAIN ledger : BackedBy(i)
    BY DEF Backed
<1>2. ledger[i].ts \in Nat /\ now \in Nat /\ Skew[Solo] \in Nat /\ Slack \in Int
    BY LedgerType, SkewAssumption, ContainerAssumption, PastType DEF BaseInv, ProbeInv, Solo
<1>3. now + Skew[Solo] <= ledger[i].ts + Slack' + 1
    BY <1>1, <1>2 DEF BackedBy
<1>4. BackedBy(i)'
    BY <1>1, <1>3 DEF BackedBy
<1> QED
    BY <1>4 DEF Backed

LEMMA BackedRecord ==
    ASSUME AllowsFit, BaseInv, Backed, NEW kind \in Kind \ {"audit"}, Record(kind, Target, Solo),
           Slack' \in Int, Slack + 1 <= Slack'
    PROVE  Backed'
<1> DEFINE n == Len(ledger) + 1
<1>1. TablesOK /\ Solo \in Container /\ Target \in Host \cup {NoHost} /\ kind \in Kind
    BY TargetIsHost, ContainerAssumption DEF BaseInv, ProbeInv, Solo
<1>2. /\ DOMAIN ledger' = DOMAIN ledger \cup {n}
      /\ \A i \in DOMAIN ledger : ledger'[i] = ledger[i]
      /\ ledger'[n] = [kind |-> kind, target |-> Target, ts |-> now + Skew[Solo]]
      /\ now' = now + 1 /\ now \in Nat /\ Skew[Solo] \in Nat
    BY <1>1, RecordEffect
<1> HIDE DEF n
<1>3. PICK i \in DOMAIN ledger : BackedBy(i)
    BY DEF Backed
<1>4. ledger[i].ts \in Nat /\ Slack \in Int
    BY <1>1, LedgerType, PastType
<1>5. now + Skew[Solo] <= ledger[i].ts + Slack + 1
    BY <1>3 DEF BackedBy
<1>6. now' + Skew[Solo] <= ledger[i].ts + Slack' + 1
    BY <1>2, <1>4, <1>5
<1>7. \A j \in DOMAIN ledger' : i < j => ledger'[j].kind # "audit"
    BY <1>2, <1>3 DEF BackedBy
<1>8. BackedBy(i)'
    BY <1>2, <1>3, <1>6, <1>7 DEF BackedBy
<1> QED
    BY <1>2, <1>8 DEF Backed

\* A new allow backs the runs of its time.
LEMMA BackedNow ==
    ASSUME AllowsFit, BaseInv, Record("allow", Target, Solo), Slack' \in Nat
    PROVE  Backed'
<1>0. PICK n : n = Len(ledger) + 1
    OBVIOUS
<1>1. TablesOK /\ Solo \in Container /\ Target \in Host \cup {NoHost} /\ "allow" \in Kind
    BY TargetIsHost, ContainerAssumption DEF BaseInv, ProbeInv, Solo, Kind
<1>2. /\ DOMAIN ledger' = DOMAIN ledger \cup {n}
      /\ ledger'[n] = [kind |-> "allow", target |-> Target, ts |-> now + Skew[Solo]]
      /\ now' = now + 1 /\ now \in Nat /\ Skew[Solo] \in Nat
    BY <1>0, <1>1, RecordEffect
<1>3. \A j \in DOMAIN ledger' : ~(n < j)
    <2>1. \A j \in DOMAIN ledger : j \in Nat /\ j <= Len(ledger)
        BY <1>1, LedgerType
    <2>2. Len(ledger) \in Nat
        BY <1>1, LedgerType
    <2> QED
        BY <1>0, <1>2, <2>1, <2>2
<1>4. now' + Skew[Solo] <= ledger'[n].ts + Slack' + 1
    <2>1. ledger'[n].ts = now + Skew[Solo]
        BY <1>2
    <2> QED
        BY <1>2, <2>1
<1>5. BackedBy(n)'
    BY <1>2, <1>3, <1>4 DEF BackedBy
<1> QED
    BY <1>2, <1>5 DEF Backed

LEMMA SlackStays ==
    ASSUME AllowsFit, Past \subseteq Past', Place' = "recordReappear" => Place = "recordReappear"
    PROVE  Slack' \in Int /\ Slack <= Slack'
<1>1. Cardinality(Past)' \in Nat /\ Cardinality(Past) <= Cardinality(Past)'
    BY PastGrows
<1>2. Cardinality(Past) \in Nat
    BY PastType
<1> QED
    BY <1>1, <1>2 DEF Slack

\* The run's order is on its way.
Active(r) == step[r] \in {"knock", "sent", "replied"} \/ r \in stopping

\* An approved run's order is on its way, or has brought the worker down and
\* the loop has not claimed the removal.
Needed ==
    \/ server = "listening" /\ \E r \in approved : Active(r)
    \/ server = "null" /\ knocker \in approved /\ RowStatus = "present"

\* Then its allow is there to be found; and once it has been asked for, the
\* verdict says so until the removal is filed.
BackedInv ==
    /\ Needed => Backed
    /\ server = "null" /\ knocker \in approved /\ Place \in {"claimRemoval", "recordRemoval"}
        => Audited \/ Solo \in unasked

LEMMA BackedHandler ==
    ASSUME AllowsFit, OneLoop, BaseInv, BackedInv, NEW r \in Run, HandlerGoes(r)
    PROVE  BackedInv'
<1>1. UNCHANGED <<Place, Audited, RowStatus, server, approved, knocker, unasked>>
    BY DEF HandlerGoes
<1>2. Past \subseteq Past'
    BY DEF HandlerGoes, Ends, Begins, Allows, Knocks, OnlyMoves, Past, Steps
<1>3. Slack' \in Int /\ Slack <= Slack'
    BY <1>1, <1>2, SlackStays
<1>4. CASE Ends(r) \/ Begins(r) \/ Knocks(r)
    <2>1. \A q \in approved : Active(q)' => Active(q)
        BY <1>4, SoloType DEF Ends, Begins, Knocks, OnlyMoves, Active
    <2>2. Needed' => Needed
        BY <1>1, <2>1 DEF Needed
    <2>3. UNCHANGED <<ledger, now>>
        BY <1>4 DEF Ends, Begins, Knocks
    <2>4. Backed => Backed'
        BY <1>3, <2>3, BackedStays
    <2> QED
        BY <1>1, <2>2, <2>4 DEF BackedInv
<1>5. CASE Allows(r)
    <2>1. r \in Past' /\ r \notin Past
        BY <1>5 DEF Allows, OnlyMoves, Past
    <2>2. Cardinality(Past)' \in Nat /\ Cardinality(Past) + 1 <= Cardinality(Past)'
        BY <1>2, <2>1, PastGrows
    <2>3. Cardinality(Past) \in Nat
        BY PastType
    <2>4. Slack' \in Nat
        BY <2>2, <2>3 DEF Slack
    <2>5. Backed'
        BY <1>5, <2>4, BackedNow DEF Allows
    <2> QED
        BY <1>1, <2>5 DEF BackedInv
<1> QED
    BY <1>4, <1>5 DEF HandlerGoes

LEMMA BackedLoop ==
    ASSUME AllowsFit, BaseInv, InOrder, DownInv, RunsInv, BackedInv, LoopGoes
    PROVE  BackedInv'
<1>1. UNCHANGED <<server, stopping, approved, knocker, step>>
    BY DEF LoopGoes, RunsStill
<1>2. Past' = Past
    BY <1>1 DEF Past
<1>3. (\E r \in approved : Active(r)') <=> \E r \in approved : Active(r)
    BY <1>1 DEF Active
<1>4. ASSUME UNCHANGED <<ledger, now>>, Place' # "recordReappear", RowStatus' = RowStatus
      PROVE  Needed' => Backed'
    <2>1. Needed' => Needed
        BY <1>1, <1>3, <1>4 DEF Needed
    <2>2. Backed => Backed'
        BY <1>2, <1>4, SlackStays, BackedStays
    <2> QED
        BY <2>1, <2>2 DEF BackedInv
<1>5. CASE Waits
    <2>1. /\ UNCHANGED <<ledger, now, RowStatus>>
          /\ Place' \notin {"recordReappear", "claimRemoval", "recordRemoval"}
        BY <1>5 DEF Waits
    <2> QED
        BY <1>4, <2>1 DEF BackedInv
<1>6. CASE Returns
    <2>1. Place' \notin {"claimRemoval", "recordRemoval"}
        BY <1>6 DEF Returns
    <2>2. CASE Place = "claimReappear" /\ RowStatus \in Gone
        <3>1. RowStatus # "present"
            BY <2>2 DEF Gone
        <3>2. server # "null"
            BY <2>2, <3>1 DEF DownInv
        <3>3. server = "listening" => \A r \in approved : ~Active(r)
            BY <3>1, SoloType DEF RunsInv, Active, Busy
        <3>4. ~Needed'
            BY <1>1, <1>3, <3>2, <3>3 DEF Needed
        <3> QED
            BY <2>1, <3>4 DEF BackedInv
    <2>3. CASE UNCHANGED <<ledger, now, RowStatus>> /\ Place' # "recordReappear"
        BY <1>4, <2>1, <2>3 DEF BackedInv
    <2>4. CASE /\ Place = "recordReappear" /\ RowStatus' = RowStatus
               /\ Place' = "join" /\ Record("reappear", Target, Solo)
        <3>1. Slack' = Slack + 1 /\ Slack \in Int
            <4>1. Cardinality(Past') = Cardinality(Past) /\ Cardinality(Past) \in Nat
                BY <1>2, PastType
            <4> QED
                BY <2>4, <4>1 DEF Slack
        <3>2. Needed' => Needed
            BY <1>1, <1>3, <2>4 DEF Needed
        <3>3. "reappear" \in Kind \ {"audit"}
            BY DEF Kind
        <3>4. Backed => Backed'
            BY <2>4, <3>1, <3>3, BackedRecord
        <3> QED
            BY <2>1, <3>2, <3>4 DEF BackedInv
    <2> QED
        BY <1>6, <2>2, <2>3, <2>4 DEF Returns
<1>7. CASE Departs
    <2>1. CASE Place = "countFailure"
        <3>1. /\ UNCHANGED <<ledger, now, RowStatus>>
              /\ Place' \notin {"recordReappear", "claimRemoval", "recordRemoval"}
            BY <1>7, <2>1 DEF Departs
        <3> QED
            BY <1>4, <3>1 DEF BackedInv
    <2>2. CASE Place = "verdict"
        <3>1. /\ UNCHANGED <<ledger, now, RowStatus>> /\ Place' = "claimRemoval"
              /\ Audited' = RecentAllowExists(Target)
            BY <1>7, <2>2 DEF Departs
        <3>2. RowStatus = "present" /\ server = "null"
            BY <2>2 DEF DownInv
        <3>3. knocker \in approved => Audited'
            BY <3>1, <3>2, BackedSeen DEF BackedInv, Needed
        <3> QED
            BY <1>1, <1>4, <3>1, <3>3 DEF BackedInv
    <2>3. CASE Place = "claimRemoval"
        <3>1. /\ RowStatus' # "present" /\ server' = "null"
              /\ Place' = "recordRemoval" => Audited' = Audited
              /\ Place' # "claimRemoval" /\ (Solo \in unasked => Solo \in unasked')
            BY <1>1, <1>7, <2>3 DEF Departs, DownInv
        <3>2. ~Needed'
            BY <3>1 DEF Needed
        <3> QED
            BY <1>1, <2>3, <3>1, <3>2 DEF BackedInv
    <2>4. CASE Place = "recordRemoval"
        <3>1. RowStatus' # "present" /\ server' = "null" /\ Place' = "join"
            BY <1>1, <1>7, <2>4 DEF Departs, DownInv
        <3>2. ~Needed'
            BY <3>1 DEF Needed
        <3> QED
            BY <3>1, <3>2 DEF BackedInv
    <2> QED
        BY <1>7, <2>1, <2>2, <2>3, <2>4 DEF Departs
<1>8. CASE Slips
    <2>1. /\ UNCHANGED <<ledger, now, RowStatus>> /\ Place' \notin {"recordReappear", "recordRemoval"}
          /\ Place' = "claimRemoval" => Solo \in unasked'
        BY <1>8 DEF Slips
    <2> QED
        BY <1>4, <2>1 DEF BackedInv
<1> QED
    BY <1>5, <1>6, <1>7, <1>8 DEF LoopGoes

LEMMA BackedStep ==
    ASSUME AllowsFit, OneLoop, BaseInv, InOrder, DownInv, RunsInv, BackedInv, [Next]_vars
    PROVE  BackedInv'
<1>1. ASSUME LoopStill, RunsStill PROVE Backed => Backed'
    <2>1. Past' = Past /\ Place' = Place /\ UNCHANGED <<ledger, now>>
        BY <1>1 DEF Past, LoopStill, RunsStill
    <2> QED
        BY <2>1, SlackStays, BackedStays
<1>2. ASSUME NEW r \in Run, Falls(r) PROVE BackedInv'
    <2>1. /\ LoopStill /\ RunsStill /\ server' = "null" /\ r \in stopping
          /\ server # "null" => server = "listening" /\ knocker' = r
          /\ server = "null" => knocker' = knocker
        BY <1>2 DEF Falls
    <2>2. Needed' => Needed
        BY <2>1 DEF Needed, Active, LoopStill, RunsStill
    <2>3. Place \in {"claimRemoval", "recordRemoval"} => server = "null"
        BY DEF DownInv
    <2> QED
        BY <1>1, <2>1, <2>2, <2>3 DEF BackedInv, LoopStill, RunsStill
<1>3. CASE Rises
    <2>1. stopping = {} /\ \A r \in Run : ~Busy(r)
        BY <1>3, SoloType DEF Rises, RunsInv
    <2>2. server' # "null" /\ stopping' = {} /\ step' = step /\ approved' \subseteq Run
        BY <1>3, <2>1, SoloType DEF Rises, RunsStill
    <2>3. ~Needed'
        BY <2>1, <2>2 DEF Needed, Active, Busy
    <2> QED
        BY <2>2, <2>3 DEF BackedInv
<1>4. CASE TimeFlies \/ NothingGoes
    <2>1. /\ LoopStill /\ RunsStill
          /\ UNCHANGED <<server, stopping, knocker>>
        BY <1>4 DEF TimeFlies, NothingGoes
    <2>2. Needed' <=> Needed
        BY <2>1 DEF Needed, Active, LoopStill, RunsStill
    <2> QED
        BY <1>1, <2>1, <2>2 DEF BackedInv, LoopStill, RunsStill
<1> QED
    BY <1>2, <1>3, <1>4, BackedHandler, BackedLoop, Moves

\* Only another allow can make a recent one exist.
LEMMA RecentLost ==
    ASSUME BaseInv, NEW kind \in Kind \ {"allow"}, Record(kind, Target, Solo), RecentAllowExists(Target)'
    PROVE  RecentAllowExists(Target)
<1>0. PICK n : n = Len(ledger) + 1
    OBVIOUS
<1>1. TablesOK /\ Solo \in Container /\ Target \in Host \cup {NoHost} /\ kind \in Kind
    BY TargetIsHost, ContainerAssumption DEF BaseInv, ProbeInv, Solo
<1>2. /\ DOMAIN ledger' = DOMAIN ledger \cup {n}
      /\ \A i \in DOMAIN ledger : ledger'[i] = ledger[i]
      /\ ledger'[n] = [kind |-> kind, target |-> Target, ts |-> now + Skew[Solo]]
      /\ now' = now + 1 /\ now \in Nat
    BY <1>0, <1>1, RecordEffect
<1>3. PICK i \in DOMAIN ledger' :
          /\ ledger'[i].kind = "allow" /\ ledger'[i].target = Target
          /\ ledger'[i].ts > now' - Window
          /\ \A j \in DOMAIN ledger' :
                ledger'[j].kind = "audit" /\ ledger'[j].target = Target
                  => ledger'[i].ts > ledger'[j].ts
    BY DEF RecentAllowExists
<1>4. i # n
    BY <1>2, <1>3
<1>5. i \in DOMAIN ledger /\ ledger'[i] = ledger[i]
    BY <1>2, <1>4
<1>6. ledger[i].ts \in Nat /\ Window \in Nat
    BY <1>1, <1>5, LedgerType, BoundAssumption
<1>7. ledger[i].ts > now - Window
    <2>1. ledger[i].ts > now' - Window
        BY <1>3, <1>5
    <2> QED
        BY <1>2, <1>6, <2>1
<1>8. \A j \in DOMAIN ledger :
          ledger[j].kind = "audit" /\ ledger[j].target = Target => ledger[i].ts > ledger[j].ts
    BY <1>2, <1>3, <1>5
<1> QED
    BY <1>3, <1>5, <1>7, <1>8 DEF RecentAllowExists

\* The run has passed its status test, and its removal is not over.
Live(r) ==
    \/ step[r] \in {"knock", "sent", "replied"} \/ r \in stopping
    \/ server # "listening" /\ knocker = r

\* As long as a run that was not approved has the stage for itself, there is no
\* allow to be found, and nobody to record one; so the verdict finds none.
AloneInv ==
    /\ \A r \in Run \ (approved \cup muddled) : Live(r) =>
          ~RecentAllowExists(Target) /\ \A q \in Run \ {r} : ~Busy(q)
    /\ /\ server = "null" /\ knocker \notin approved \cup muddled
       /\ Place \in {"claimRemoval", "recordRemoval"}
       => ~Audited

\* What keeps the first part.
LEMMA AloneKept ==
    ASSUME AloneInv, NEW r \in Run \ (approved' \cup muddled'), approved' = approved,
           muddled \subseteq muddled', Live(r)' => Live(r), \A q \in Run \ {r} : Busy(q)' => Busy(q),
           RecentAllowExists(Target)' => RecentAllowExists(Target)
    PROVE  Live(r)' => ~RecentAllowExists(Target)' /\ \A q \in Run \ {r} : ~Busy(q)'
BY DEF AloneInv

LEMMA RecentSame ==
    ASSUME UNCHANGED <<ledger, now>>
    PROVE  RecentAllowExists(Target)' => RecentAllowExists(Target)
BY DEF RecentAllowExists

LEMMA AloneHandler ==
    ASSUME BaseInv, RunsInv, AloneInv, NEW q \in Run, HandlerGoes(q)
    PROVE  AloneInv'
<1>1. UNCHANGED <<Place, Audited, server, approved, knocker>>
    BY DEF HandlerGoes
<1>2. muddled \subseteq muddled'
    BY DEF HandlerGoes, Ends, Begins, Allows, Knocks
<1>3. SUFFICES ASSUME NEW r \in Run \ (approved' \cup muddled'), Live(r)'
               PROVE  ~RecentAllowExists(Target)' /\ \A p \in Run \ {r} : ~Busy(p)'
    BY <1>1, <1>2 DEF AloneInv
<1>4. CASE Ends(q) \/ Knocks(q)
    <2>1. Live(r)' => Live(r)
        BY <1>1, <1>4 DEF Ends, Knocks, OnlyMoves, Live
    <2>2. \A p \in Run : Busy(p)' => Busy(p)
        BY <1>4 DEF Ends, Knocks, OnlyMoves, Busy
    <2>3. UNCHANGED <<ledger, now>>
        BY <1>4 DEF Ends, Knocks
    <2> QED
        BY <1>1, <1>2, <1>3, <2>1, <2>2, <2>3, RecentSame, AloneKept
<1>5. CASE Begins(q)
    <2> DEFINE others == {p \in Run \ {q} : Busy(p)}
               playing == IF server # "listening" THEN {knocker} ELSE {}
               present == others \cup stopping \cup playing
    <2>1. /\ muddled' = muddled \cup Company(q) /\ r \notin Company(q)
          /\ UNCHANGED <<ledger, now, stopping>>
          /\ \A p \in Run \ {q} : step'[p] = step[p]
        BY <1>5 DEF Begins, OnlyMoves
    <2>2. Company(q) = IF present # {} \/ RecentAllowExists(Target) THEN present \cup {q} ELSE {}
        BY DEF Company
    <2>3. r = q
        <3>1. ASSUME r # q PROVE r \in present
            <4>1. step'[r] = step[r]
                BY <2>1, <3>1
            <4>2. CASE step[r] \in {"knock", "sent", "replied"}
                BY <3>1, <4>2 DEF Busy
            <4>3. CASE r \in stopping
                BY <4>3
            <4>4. CASE server # "listening" /\ knocker = r
                BY <4>4
            <4> QED
                BY <1>1, <1>3, <2>1, <4>1, <4>2, <4>3, <4>4 DEF Live
        <3> QED
            BY <2>1, <2>2, <3>1
    <2>4. present = {} /\ ~RecentAllowExists(Target)
        BY <2>1, <2>2, <2>3
    <2>5. \A p \in Run \ {r} : ~Busy(p) /\ step'[p] = step[p]
        BY <2>1, <2>3, <2>4
    <2> QED
        BY <2>1, <2>4, <2>5, RecentSame DEF Busy
<1>6. CASE Allows(q)
    <2>1. step[q] = "decide" /\ q \in approved /\ Busy(q) /\ q # r
        BY <1>1, <1>6 DEF Allows, RunsInv, Busy
    <2>2. Live(r)
        BY <1>1, <1>3, <1>6, <2>1 DEF Allows, OnlyMoves, Live
    <2> QED
        BY <1>1, <1>2, <2>1, <2>2 DEF AloneInv
<1> QED
    BY <1>4, <1>5, <1>6 DEF HandlerGoes

LEMMA AloneLoop ==
    ASSUME BaseInv, DownInv, AloneInv, LoopGoes
    PROVE  AloneInv'
<1>1. UNCHANGED <<server, stopping, approved, knocker, step, muddled>>
    BY DEF LoopGoes, RunsStill
<1>2. RecentAllowExists(Target)' => RecentAllowExists(Target)
    <2>1. CASE UNCHANGED <<ledger, now>>
        BY <2>1, RecentSame
    <2>2. CASE Record("reappear", Target, Solo)
        BY <2>2, RecentLost DEF Kind
    <2>3. CASE Record(IF Audited THEN "audit" ELSE "drift", Target, Solo)
        <3>1. (IF Audited THEN "audit" ELSE "drift") \in Kind \ {"allow"}
            BY DEF Kind
        <3> QED
            BY <2>3, <3>1, RecentLost
    <2> QED
        BY <2>1, <2>2, <2>3 DEF LoopGoes, Waits, Returns, Departs, Slips
<1>3. \A r \in Run : (Live(r)' => Live(r)) /\ (Busy(r)' => Busy(r))
    BY <1>1 DEF Live, Busy
<1>4. ASSUME server = "null", knocker \notin approved \cup muddled,
             Place' \in {"claimRemoval", "recordRemoval"}
      PROVE  ~Audited'
    <2>1. knocker \in Run /\ Live(knocker)
        BY <1>4, SoloType DEF Live
    <2>2. ~RecentAllowExists(Target)
        BY <1>4, <2>1 DEF AloneInv
    <2>3. Departs \/ ~Audited'
        BY <1>4 DEF LoopGoes, Waits, Returns, Slips
    <2>4. CASE Place = "verdict"
        BY <2>2, <2>3, <2>4 DEF Departs
    <2>5. CASE Place = "claimRemoval"
        <3>1. ~Audited
            BY <1>4, <2>5 DEF AloneInv
        <3> QED
            BY <1>4, <2>3, <2>5, <3>1 DEF Departs
    <2> QED
        BY <1>4, <2>3, <2>4, <2>5 DEF Departs
<1>5. \A r \in Run \ (approved' \cup muddled') :
          Live(r)' => ~RecentAllowExists(Target)' /\ \A q \in Run \ {r} : ~Busy(q)'
    BY <1>1, <1>2, <1>3, AloneKept
<1> QED
    BY <1>1, <1>4, <1>5 DEF AloneInv

LEMMA AloneStep ==
    ASSUME OneLoop, BaseInv, DownInv, RunsInv, AloneInv, [Next]_vars
    PROVE  AloneInv'
<1>1. ASSUME RunsStill, LoopStill, \A r \in Run : Live(r)' => Live(r)
      PROVE  \A r \in Run \ (approved' \cup muddled') :
                Live(r)' => ~RecentAllowExists(Target)' /\ \A q \in Run \ {r} : ~Busy(q)'
    <2>1. \A q \in Run : Busy(q)' => Busy(q)
        BY <1>1 DEF RunsStill, Busy
    <2>2. approved' = approved /\ muddled' = muddled /\ UNCHANGED <<ledger, now>>
        BY <1>1 DEF RunsStill, LoopStill
    <2> QED
        BY <1>1, <2>1, <2>2, RecentSame, AloneKept
<1>2. ASSUME NEW q \in Run, Falls(q) PROVE AloneInv'
    <2>1. /\ LoopStill /\ RunsStill /\ server' = "null" /\ q \in stopping
          /\ stopping' = stopping \ {q}
          /\ server # "null" => server = "listening" /\ knocker' = q
          /\ server = "null" => knocker' = knocker
        BY <1>2 DEF Falls
    <2>2. \A r \in Run : Live(r)' => Live(r)
        BY <2>1 DEF Live, RunsStill
    <2>3. Place \in {"claimRemoval", "recordRemoval"} => server = "null"
        BY DEF DownInv
    <2>4. /\ server' = "null" /\ knocker' \notin approved' \cup muddled'
          /\ Place' \in {"claimRemoval", "recordRemoval"}
          => ~Audited'
        BY <2>1, <2>3 DEF AloneInv, LoopStill, RunsStill
    <2> QED
        BY <1>1, <2>1, <2>2, <2>4 DEF AloneInv
<1>3. CASE Rises
    <2>1. LoopStill /\ RunsStill /\ server' # "null" /\ \A r \in Run : Live(r)' => Live(r)
        BY <1>3 DEF Rises, Live, RunsStill
    <2> QED
        BY <1>1, <2>1 DEF AloneInv
<1>4. CASE TimeFlies \/ NothingGoes
    <2>1. LoopStill /\ RunsStill /\ UNCHANGED <<server, stopping, knocker>>
        BY <1>4 DEF TimeFlies, NothingGoes
    <2>2. \A r \in Run : Live(r)' => Live(r)
        BY <2>1 DEF Live, RunsStill
    <2>3. /\ server' = "null" /\ knocker' \notin approved' \cup muddled'
          /\ Place' \in {"claimRemoval", "recordRemoval"}
          => ~Audited'
        BY <2>1 DEF AloneInv, LoopStill, RunsStill
    <2> QED
        BY <1>1, <2>1, <2>2, <2>3 DEF AloneInv
<1> QED
    BY <1>2, <1>3, <1>4, AloneHandler, AloneLoop, Moves

LEMMA OneLoopOneClock == OneLoop => OneClock
BY DEF OneLoop, OneClock

LEMMA OrderStep ==
    ASSUME OneLoop, BaseInv, BaseInv', InOrder, [Next]_vars
    PROVE  InOrder'
<1>1. TablesOK /\ TablesOK' /\ OneClock /\ now \in Nat /\ Solo \in Container
      /\ Target \in Host \cup {NoHost}
    BY OneLoopOneClock, TargetIsHost, ContainerAssumption DEF BaseInv, ProbeInv, TablesOK, Solo
<1>2. ASSUME UNCHANGED <<ledger, now>> PROVE InOrder'
    BY <1>1, <1>2, NoEntryInOrder
<1>3. ASSUME NEW kind \in Kind, Record(kind, Target, Solo) PROVE InOrder'
    BY <1>1, <1>3, RecordInOrder
<1>4. CASE \E r \in Run : HandlerGoes(r)
    BY <1>2, <1>3, <1>4 DEF HandlerGoes, Ends, Begins, Allows, Knocks, Kind
<1>5. CASE \E r \in Run : Falls(r)
    BY <1>2, <1>5 DEF Falls, LoopStill
<1>6. CASE Rises \/ TimeFlies \/ NothingGoes
    BY <1>2, <1>6 DEF Rises, TimeFlies, NothingGoes, LoopStill
<1>7. CASE LoopGoes
    <2>1. (IF Audited THEN "audit" ELSE "drift") \in Kind /\ "reappear" \in Kind
        BY DEF Kind
    <2> QED
        BY <1>2, <1>3, <1>7, <2>1 DEF LoopGoes, Waits, Returns, Departs, Slips
<1> QED
    BY <1>4, <1>5, <1>6, <1>7, Moves

\* As long as no absence has had more failures than there is time for.
StageInv ==
    /\ BaseInv /\ StallInv /\ NoticeInv /\ InOrder
    /\ Punctual => DownInv /\ RunsInv /\ BackedInv /\ AloneInv

LEMMA PunctualBefore ==
    ASSUME BaseInv, StallInv, [Next]_vars, Punctual'
    PROVE  Punctual
<1>1. \A r \in Run : /\ stalls[r] \in Nat /\ stalls'[r] \in Nat
                     /\ stalls[r] <= stalls'[r] /\ stalls'[r] <= Spare
    BY StallStep DEF StallInv, Punctual
<1>2. Spare \in Nat
    BY DemoAssumption
<1> QED
    BY <1>1, <1>2 DEF Punctual

LEMMA InitStage == Init => StageInv
<1> SUFFICES ASSUME Init PROVE StageInv
    OBVIOUS
<1>1. BaseInv /\ StallInv
    BY InitInv DEF Init, StallInv, BaseInv, ProbeInv, TablesOK
<1>2. /\ Place = "sleep" /\ Outcome = "none" /\ server = "listening" /\ stopping = {}
      /\ ledger = <<>> /\ \A r \in Run : step[r] = "idle"
    <2>1. Solo \in Container /\ task = [c \in Container |-> Asleep]
        BY ContainerAssumption DEF Init, InitProbe, Solo
    <2> QED
        BY <2>1, TargetIsHost DEF Init, InitTables, InitWorker, Place, Outcome, Asleep, NoResults
<1>3. NoticeInv
    BY <1>2 DEF NoticeInv, Silent
<1>4. InOrder
    BY <1>2 DEF InOrder
<1>5. DownInv /\ RunsInv
    BY <1>2 DEF DownInv, RunsInv, Busy
<1>6. \A r \in Run : ~Active(r) /\ ~Live(r)
    BY <1>2 DEF Active, Live
<1>7. BackedInv
    BY <1>1, <1>2, <1>6, SoloType DEF BackedInv, Needed
<1>8. AloneInv
    BY <1>2, <1>6 DEF AloneInv
<1> QED
    BY <1>1, <1>3, <1>4, <1>5, <1>7, <1>8 DEF StageInv

LEMMA StageHolds ==
    ASSUME OneLoop, CyclesFit, AllowsFit
    PROVE  Spec => []StageInv
<1>1. StageInv /\ [Next]_vars => StageInv'
    <2> SUFFICES ASSUME StageInv, [Next]_vars PROVE StageInv'
        OBVIOUS
    <2>1. BaseInv /\ StallInv /\ NoticeInv /\ InOrder
        BY DEF StageInv
    <2>2. BaseInv' /\ StallInv' /\ NoticeInv'
        BY <2>1, NextInv, StallStep, NoticeStep
    <2>3. InOrder'
        BY <2>1, <2>2, OrderStep
    <2>4. ASSUME Punctual' PROVE DownInv' /\ RunsInv' /\ BackedInv' /\ AloneInv'
        <3>1. Punctual /\ DownInv /\ RunsInv /\ BackedInv /\ AloneInv
            BY <2>1, <2>4, PunctualBefore DEF StageInv
        <3>2. DownInv' /\ RunsInv'
            BY <2>1, <2>2, <3>1, DownStep, RunsStep
        <3> QED
            BY <2>1, <3>1, <3>2, BackedStep, AloneStep
    <2> QED
        BY <2>2, <2>3, <2>4 DEF StageInv
<1> QED
    BY <1>1, InitStage, PTL DEF Spec

\* What a step files, it files for the verdict, while the worker is down.
LEMMA FiledHow ==
    ASSUME OneLoop, BaseInv, DownInv, [Next]_vars, NEW i \in Filed
    PROVE  /\ Place = "recordRemoval" /\ server = "null"
           /\ ledger'[i].kind = IF Audited THEN "audit" ELSE "drift"
<1>0. PICK n : n = Len(ledger) + 1
    OBVIOUS
<1>1. TablesOK /\ Solo \in Container /\ Target \in Host \cup {NoHost}
    BY TargetIsHost, ContainerAssumption DEF BaseInv, ProbeInv, Solo
<1>2. ledger' # ledger /\ i \in DOMAIN ledger' /\ i \notin DOMAIN ledger
      /\ ledger'[i].kind \in {"audit", "drift"}
    BY DEF Filed
<1>3. ASSUME NEW kind \in Kind, Record(kind, Target, Solo) PROVE ledger'[i].kind = kind
    <2>1. /\ DOMAIN ledger' = DOMAIN ledger \cup {n}
          /\ ledger'[n] = [kind |-> kind, target |-> Target, ts |-> now + Skew[Solo]]
        BY <1>0, <1>1, <1>3, RecordEffect
    <2> QED
        BY <1>2, <2>1
<1>4. ~Record("allow", Target, Solo) /\ ~Record("reappear", Target, Solo)
    BY <1>2, <1>3 DEF Kind
<1>5. Place = "recordRemoval" /\ Record(IF Audited THEN "audit" ELSE "drift", Target, Solo)
    BY <1>2, <1>4, Moves DEF HandlerGoes, Ends, Begins, Allows, Knocks, Falls, Rises, TimeFlies,
       NothingGoes, LoopStill, LoopGoes, Waits, Returns, Departs, Slips
<1>6. (IF Audited THEN "audit" ELSE "drift") \in Kind
    BY DEF Kind
<1> QED
    BY <1>3, <1>5, <1>6 DEF DownInv

\* A removal that an approved run brought about is not filed as drift by a loop
\* that could ask the ledger, whatever other statement fails, whatever reply is
\* lost and however often the container restarts, as long as no absence of the
\* worker has had more than Spare failures of the loop, one container's loop
\* watches and the runs fit into the thirty minutes an allow is good for.
\* demo_decommission appends the decision before it knocks (http.rs:287-290), and
\* that is enough.
THEOREM ApprovedRunsAreNotDrift ==
    ASSUME OneLoop, CyclesFit, AllowsFit
    PROVE  Spec => ApprovedIsNotDrift
<1>1. StageInv /\ [Next]_vars
        => [\A i \in Filed : Punctual /\ Asked /\ ledger'[i].kind = "drift"
                             => knocker \notin approved]_vars
    <2> SUFFICES ASSUME StageInv, [Next]_vars, NEW i \in Filed, Punctual, Asked,
                        ledger'[i].kind = "drift", knocker \in approved
                 PROVE  FALSE
        OBVIOUS
    <2>1. BaseInv /\ DownInv /\ BackedInv
        BY DEF StageInv
    <2>2. Place = "recordRemoval" /\ server = "null" /\ ~Audited
        BY <2>1, FiledHow
    <2>3. Solo \notin unasked
        BY <2>2 DEF Asked, Place, At
    <2> QED
        BY <2>1, <2>2, <2>3 DEF BackedInv
<1> QED
    BY <1>1, StageHolds, PTL DEF Spec, ApprovedIsNotDrift

\* A run that had the stage for itself is filed as its response announced
\* (expectKind), approved as audit and not approved as drift, by a loop that
\* could ask the ledger.
THEOREM AloneIsFiledAsAnnounced ==
    ASSUME OneLoop, CyclesFit, AllowsFit
    PROVE  Spec => FiledAsAnnouncedAlone
<1>1. StageInv /\ [Next]_vars
        => [\A i \in Filed :
               answer[knocker] = "started" /\ knocker \notin muddled /\ Punctual /\ Asked
                 => ledger'[i].kind = Announced(knocker)]_vars
    <2> SUFFICES ASSUME StageInv, [Next]_vars, NEW i \in Filed, knocker \notin muddled,
                        Punctual, Asked
                 PROVE  ledger'[i].kind = Announced(knocker)
        OBVIOUS
    <2>1. BaseInv /\ DownInv /\ BackedInv /\ AloneInv
        BY DEF StageInv
    <2>2. /\ Place = "recordRemoval" /\ server = "null"
          /\ ledger'[i].kind = IF Audited THEN "audit" ELSE "drift"
        BY <2>1, FiledHow
    <2>3. Solo \notin unasked
        BY <2>2 DEF Asked, Place, At
    <2>4. Audited <=> knocker \in approved
        BY <2>1, <2>2, <2>3 DEF BackedInv, AloneInv
    <2> QED
        BY <2>2, <2>4 DEF Announced
<1> QED
    BY <1>1, StageHolds, PTL DEF Spec, FiledAsAnnouncedAlone
=============================================================================
