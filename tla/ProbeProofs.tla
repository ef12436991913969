---------------------------- MODULE ProbeProofs ----------------------------
(***************************************************************************)
(* What Tables' operators and the steps of the probe loop do to the types, *)
(* for any hosts, containers and clocks: the lemmas the proofs about       *)
(* Observe and Demo share.                                                 *)
(*                                                                         *)
(* ProbeInv is what they keep: the types, and that a loop which handles a  *)
(* result knows whose it is, and has a verdict only from the moment it     *)
(* asked for one until it has recorded the removal (LoopInv).              *)
(***************************************************************************)
EXTENDS Probe, FiniteSetTheorems, SequenceTheorems, TLAPS

-----------------------------------------------------------------------------
(* Tables.                                                                 *)

Entry == [kind : Kind, target : Host \cup {NoHost}, ts : Nat]

LEMMA LedgerType ==
    ASSUME TablesOK
    PROVE  /\ ledger \in Seq(Entry) /\ Len(ledger) \in Nat /\ now \in Nat
           /\ DOMAIN ledger = 1..Len(ledger) /\ Len(ledger) + 1 \notin DOMAIN ledger
           /\ \A i \in DOMAIN ledger : i \in Nat /\ i <= Len(ledger) /\ i < Len(ledger) + 1
           /\ \A i \in DOMAIN ledger : ledger[i].ts \in Nat
<1>1. ledger \in Seq(Entry) /\ now \in Nat
    BY DEF TablesOK, Entry
<1>2. Len(ledger) \in Nat /\ DOMAIN ledger = 1..Len(ledger)
    BY <1>1
<1>3. ASSUME NEW i \in DOMAIN ledger PROVE ledger[i].ts \in Nat
    <2>1. ledger[i] \in Entry
        BY <1>1, <1>2
    <2> QED
        BY <2>1 DEF Entry
<1> QED
    BY <1>1, <1>2, <1>3

\* The counter counts up to its cap.
LEMMA CountUp ==
    ASSUME NEW n \in 0..FailureCap
    PROVE  Min({n + 1, FailureCap}) = IF n < FailureCap THEN n + 1 ELSE FailureCap
<1> DEFINE S == {n + 1, FailureCap}
           m == IF n < FailureCap THEN n + 1 ELSE FailureCap
<1>1. n \in Nat /\ FailureCap = 4
    BY DEF FailureCap
<1>2. m \in S /\ \A x \in S : m <= x
    BY <1>1
<1>3. S \in SUBSET Nat
    BY <1>1
<1>4. Min(S) \in S /\ \A x \in S : Min(S) <= x
    BY <1>2 DEF Min
<1>5. m \in Nat /\ Min(S) \in Nat /\ m <= Min(S) /\ Min(S) <= m
    BY <1>2, <1>3, <1>4
<1> HIDE DEF m, S
<1>6. m = Min(S)
    BY <1>5
<1> QED
    BY <1>6 DEF m, S

LEMMA CountUpType ==
    ASSUME NEW n \in 0..FailureCap
    PROVE  Min({n + 1, FailureCap}) \in 0..FailureCap
BY CountUp DEF FailureCap

\* An append makes one more entry, with the clock of the container.
LEMMA RecordEffect ==
    ASSUME TablesOK, NEW kind \in Kind, NEW h \in Host \cup {NoHost}, NEW c \in Container,
           Record(kind, h, c)
    PROVE  /\ ledger \in Seq(Entry) /\ ledger' \in Seq(Entry)
           /\ Len(ledger') = Len(ledger) + 1
           /\ DOMAIN ledger' = DOMAIN ledger \cup {Len(ledger) + 1}
           /\ \A i \in DOMAIN ledger : ledger'[i] = ledger[i]
           /\ ledger'[Len(ledger) + 1] = [kind |-> kind, target |-> h, ts |-> now + Skew[c]]
           /\ now' = now + 1 /\ now \in Nat /\ Skew[c] \in Nat
<1>1. Skew[c] \in Nat /\ now \in Nat
    BY SkewAssumption DEF TablesOK
<1>2. ledger \in Seq(Entry)
    BY DEF TablesOK, Entry
<1> DEFINE e == [kind |-> kind, target |-> h, ts |-> now + Skew[c]]
<1>3. e \in Entry
    BY <1>1 DEF Entry
<1>4. ledger' = Append(ledger, e) /\ now' = now + 1
    BY DEF Record
<1> HIDE DEF e
<1>5. /\ ledger' \in Seq(Entry) /\ Len(ledger') = Len(ledger) + 1
      /\ DOMAIN ledger' = DOMAIN ledger \cup {Len(ledger) + 1}
      /\ \A i \in DOMAIN ledger : ledger'[i] = ledger[i]
      /\ ledger'[Len(ledger) + 1] = e
    BY <1>2, <1>3, <1>4
<1> QED
    BY <1>1, <1>2, <1>4, <1>5 DEF e

LEMMA RecordType ==
    ASSUME TablesOK, NEW kind \in Kind, NEW h \in Host \cup {NoHost}, NEW c \in Container,
           Record(kind, h, c), UNCHANGED <<topology, removals>>, faults' \in 0..MaxFaults
    PROVE  TablesOK'
<1>1. ledger' \in Seq(Entry)
    BY RecordEffect, Zenon
<1>2. now \in Nat /\ now' = now + 1
    BY DEF Record, TablesOK
<1> QED
    BY <1>1, <1>2 DEF TablesOK, Entry

\* A claim changes the row it finds present, and counts it.
LEMMA ClaimEffect ==
    ASSUME TablesOK, NEW h \in Host, NEW audited \in BOOLEAN, ClaimRemoved(h, audited)
    PROVE  /\ topology' \in [Host -> TopoRow]
           /\ removals' \in [Host -> [audited : Nat, unaudited : Nat]]
           /\ \A g \in Host : topology'[g].failures = topology[g].failures
           /\ \A g \in Host \ {h} : topology'[g] = topology[g] /\ removals'[g] = removals[g]
           /\ topology[h].status = "present" =>
                /\ topology'[h].status = StatusFor(audited)
                /\ removals'[h].audited =
                      IF audited THEN removals[h].audited + 1 ELSE removals[h].audited
                /\ removals'[h].unaudited =
                      IF audited THEN removals[h].unaudited ELSE removals[h].unaudited + 1
           /\ topology[h].status # "present" =>
                topology' = topology /\ removals' = removals
<1>1. topology \in [Host -> TopoRow] /\ removals \in [Host -> [audited : Nat, unaudited : Nat]]
    BY DEF TablesOK
<1>2. StatusFor(audited) \in Status
    BY DEF StatusFor, Status, Gone
<1>3. CASE topology[h].status = "present"
    <2>1. topology' = [topology EXCEPT ![h].status = StatusFor(audited)]
        BY <1>3 DEF ClaimRemoved
    <2>2. /\ topology' \in [Host -> TopoRow] /\ topology'[h].status = StatusFor(audited)
          /\ \A g \in Host : topology'[g].failures = topology[g].failures
          /\ \A g \in Host \ {h} : topology'[g] = topology[g]
        BY <1>1, <1>2, <2>1 DEF TopoRow
    <2> DEFINE a == IF audited THEN removals[h].audited + 1 ELSE removals[h].audited
               u == IF audited THEN removals[h].unaudited ELSE removals[h].unaudited + 1
    <2>3. a \in Nat /\ u \in Nat
        BY <1>1
    <2>4. removals' = [removals EXCEPT ![h].audited = a, ![h].unaudited = u]
        BY <1>3 DEF ClaimRemoved
    <2> HIDE DEF a, u
    <2>5. /\ removals' \in [Host -> [audited : Nat, unaudited : Nat]]
          /\ removals'[h].audited = a /\ removals'[h].unaudited = u
          /\ \A g \in Host \ {h} : removals'[g] = removals[g]
        BY <1>1, <2>3, <2>4
    <2> QED
        BY <1>3, <2>2, <2>5 DEF a, u
<1>4. CASE topology[h].status # "present"
    BY <1>1, <1>4 DEF ClaimRemoved
<1> QED
    BY <1>3, <1>4

LEMMA ClaimType ==
    ASSUME TablesOK, NEW h \in Host, NEW audited \in BOOLEAN, ClaimRemoved(h, audited),
           UNCHANGED <<ledger, now, faults>>
    PROVE  TablesOK'
BY ClaimEffect DEF TablesOK

-----------------------------------------------------------------------------
(* The order of the ledger and the order of the clocks.                    *)

\* The containers' clocks agree, or there is one container.
OneClock == \A c, d \in Container : Skew[c] = Skew[d]

\* Then an entry is younger than those before it, and older than the next.
InOrder ==
    /\ \A i \in DOMAIN ledger, c \in Container : ledger[i].ts < now + Skew[c]
    /\ \A i, j \in DOMAIN ledger : i < j => ledger[i].ts < ledger[j].ts

LEMMA NoEntryInOrder ==
    ASSUME TablesOK, TablesOK', InOrder, ledger' = ledger, now' >= now
    PROVE  InOrder'
<1>1. now \in Nat /\ now' \in Nat /\ Skew \in [Container -> Nat]
    BY SkewAssumption DEF TablesOK
<1>2. \A i \in DOMAIN ledger : ledger[i].ts \in Nat
    BY LedgerType
<1>3. ASSUME NEW i \in DOMAIN ledger, NEW c \in Container
      PROVE  ledger'[i].ts < now' + Skew[c]
    <2>1. ledger[i].ts < now + Skew[c] /\ Skew[c] \in Nat
        BY <1>1 DEF InOrder
    <2> QED
        BY <1>1, <1>2, <2>1
<1> QED
    BY <1>3 DEF InOrder

LEMMA RecordInOrder ==
    ASSUME OneClock, TablesOK, InOrder, NEW kind \in Kind, NEW h \in Host \cup {NoHost},
           NEW c \in Container, Record(kind, h, c)
    PROVE  InOrder'
<1> DEFINE n == Len(ledger) + 1
<1>1. /\ DOMAIN ledger' = DOMAIN ledger \cup {n}
      /\ \A i \in DOMAIN ledger : ledger'[i] = ledger[i]
      /\ ledger'[n] = [kind |-> kind, target |-> h, ts |-> now + Skew[c]]
      /\ now' = now + 1
    BY RecordEffect
<1>2. /\ \A i \in DOMAIN ledger : i \in Nat /\ i < n /\ ledger[i].ts \in Nat
      /\ n \in Nat /\ n \notin DOMAIN ledger /\ now \in Nat
    BY LedgerType
<1> HIDE DEF n
<1>3. ASSUME NEW i \in DOMAIN ledger', NEW d \in Container
      PROVE  ledger'[i].ts < now' + Skew[d]
    <2>1. Skew[d] = Skew[c] /\ Skew[d] \in Nat
        BY SkewAssumption DEF OneClock
    <2>2. CASE i \in DOMAIN ledger
        <3>1. ledger[i].ts < now + Skew[d]
            BY <2>2 DEF InOrder
        <3> QED
            BY <1>1, <1>2, <2>1, <2>2, <3>1
    <2>3. CASE i = n
        <3>1. ledger'[i].ts = now + Skew[c]
            BY <1>1, <2>3
        <3> QED
            BY <1>1, <1>2, <2>1, <3>1
    <2> QED
        BY <1>1, <2>2, <2>3
<1>4. ASSUME NEW i \in DOMAIN ledger', NEW j \in DOMAIN ledger', i < j
      PROVE  ledger'[i].ts < ledger'[j].ts
    <2>1. i \in DOMAIN ledger
        BY <1>1, <1>2, <1>4
    <2>2. CASE j \in DOMAIN ledger
        BY <1>1, <1>4, <2>1, <2>2 DEF InOrder
    <2>3. CASE j = n
        <3>1. ledger'[j].ts = now + Skew[c]
            BY <1>1, <2>3
        <3> QED
            BY <1>1, <2>1, <3>1 DEF InOrder
    <2> QED
        BY <1>1, <2>2, <2>3
<1> QED
    BY <1>3, <1>4 DEF InOrder

-----------------------------------------------------------------------------
(* The loop.                                                               *)

Loops ==
    [at : Point, host : Host \cup {NoHost}, audited : BOOLEAN, results : [Host -> Result]]

Working == {"claimReappear", "recordReappear", "resetFailures", "countFailure", "verdict",
            "claimRemoval", "recordRemoval"}

\* A loop that is handling a result knows whose, and a verdict is kept for the
\* two statements that need it.
LoopInv ==
    \A c \in Container :
        /\ task[c].at \in Working => task[c].host \in Host
        /\ task[c].audited => task[c].at \in {"claimRemoval", "recordRemoval"}

ProbeInv == TablesOK /\ ProbeOK /\ LoopInv

LEMMA GotoEffect ==
    ASSUME ProbeInv, NEW c \in Container, NEW point \in Point, Goto(c, point)
    PROVE  /\ task' \in [Container -> Loops]
           /\ \A d \in Container : d # c => task'[d] = task[d]
           /\ task'[c].at = point /\ task'[c].host = task[c].host
           /\ task'[c].audited = task[c].audited /\ task'[c].results = task[c].results
BY DEF Goto, ProbeInv, ProbeOK, Loops

LEMMA ResumeEffect ==
    ASSUME ProbeInv, NEW c \in Container, Resume(c)
    PROVE  /\ task' \in [Container -> Loops]
           /\ \A d \in Container : d # c => task'[d] = task[d]
           /\ task'[c].at = "join" /\ task'[c].host = NoHost
           /\ task'[c].audited = FALSE /\ task'[c].results = task[c].results
BY DEF Resume, ProbeInv, ProbeOK, Loops, Point

LEMMA AsleepType == Asleep \in Loops
BY DEF Asleep, Loops, Point, NoResults, Result

\* What is left to show when a loop has moved and the rest is as it should be.
LEMMA LoopMoved ==
    ASSUME ProbeInv, TablesOK', NEW c \in Container, task' \in [Container -> Loops],
           \A d \in Container : d # c => task'[d] = task[d],
           task'[c].at \in Working => task'[c].host \in Host,
           task'[c].audited => task'[c].at \in {"claimRemoval", "recordRemoval"},
           answers' = answers, streak' \in [Host -> 0..FailureCap]
    PROVE  ProbeInv'
BY DEF ProbeInv, ProbeOK, LoopInv, Loops

LEMMA TablesUnchanged ==
    ASSUME TablesOK, UNCHANGED tables
    PROVE  TablesOK'
BY DEF TablesOK, tables

LEMMA StartCycleStep ==
    ASSUME ProbeInv, NEW c \in Container, StartCycle(c)
    PROVE  /\ ProbeInv'
           /\ \A d \in Container : d # c => task'[d] = task[d]
           /\ task'[c].at = "join" /\ task'[c].host = task[c].host
           /\ task'[c].audited = task[c].audited
           /\ \A h \in Host : task'[c].results[h] = "probing" =>
                 h \in Probeable /\ topology[h].status # "absent"
           /\ task'[c].results \in [Host -> {"none", "probing"}]
<1> DEFINE results == [h \in Host |-> IF h \in Probeable /\ topology[h].status # "absent"
                                      THEN "probing" ELSE "none"]
<1>1. results \in [Host -> {"none", "probing"}] /\ results \in [Host -> Result]
    BY DEF Result
<1>2. \A h \in Host : results[h] = "probing" => h \in Probeable /\ topology[h].status # "absent"
    OBVIOUS
<1>3. task' = [task EXCEPT ![c].at = "join", ![c].results = results]
    BY DEF StartCycle
<1> HIDE DEF results
<1>4. /\ task' \in [Container -> Loops] /\ \A d \in Container : d # c => task'[d] = task[d]
      /\ task'[c].at = "join" /\ task'[c].host = task[c].host
      /\ task'[c].audited = task[c].audited /\ task'[c].results = results
    BY <1>1, <1>3 DEF ProbeInv, ProbeOK, Loops, Point
<1>5. ~task[c].audited
    BY DEF ProbeInv, LoopInv, StartCycle, At
<1>6. TablesOK' /\ UNCHANGED <<answers, streak>>
    BY TablesUnchanged DEF StartCycle, ProbeInv
<1>7. ProbeInv'
    BY <1>4, <1>5, <1>6, LoopMoved DEF Working, ProbeInv, ProbeOK
<1> QED
    BY <1>1, <1>2, <1>4, <1>7

LEMMA ProbeOneStep ==
    ASSUME ProbeInv, NEW c \in Container, NEW h \in Host, ProbeOne(c, h)
    PROVE  /\ ProbeInv'
           /\ \A d \in Container : d # c => task'[d] = task[d]
           /\ task'[c].at = task[c].at /\ task'[c].host = task[c].host
           /\ task'[c].audited = task[c].audited
           /\ task[c].results[h] = "probing"
           /\ \A g \in Host : g # h => task'[c].results[g] = task[c].results[g]
<1>1. /\ task' \in [Container -> Loops] /\ \A d \in Container : d # c => task'[d] = task[d]
      /\ task'[c].at = task[c].at /\ task'[c].host = task[c].host
      /\ task'[c].audited = task[c].audited
      /\ \A g \in Host : g # h => task'[c].results[g] = task[c].results[g]
    BY DEF ProbeOne, ProbeInv, ProbeOK, Loops, Result
<1>2. TablesOK' /\ UNCHANGED <<answers, streak>> /\ task[c].results[h] = "probing"
    BY TablesUnchanged DEF ProbeOne, ProbeInv
<1>3. ProbeInv'
    BY <1>1, <1>2, LoopMoved DEF ProbeInv, ProbeOK, LoopInv
<1> QED
    BY <1>1, <1>2, <1>3

LEMMA JoinNextStep ==
    ASSUME ProbeInv, NEW c \in Container, NEW h \in Host, JoinNext(c, h)
    PROVE  /\ ProbeInv'
           /\ \A d \in Container : d # c => task'[d] = task[d]
           /\ task[c].results[h] \in {"ok", "failed"}
           /\ task'[c].at = IF task[c].results[h] = "ok" THEN "claimReappear"
                            ELSE "countFailure"
           /\ task'[c].host = h /\ task'[c].audited = FALSE
           /\ task'[c].results[h] = "none"
           /\ \A g \in Host : g # h => task'[c].results[g] = task[c].results[g]
           /\ streak' = [streak EXCEPT ![h] = IF task[c].results[h] = "ok" THEN 0
                                              ELSE Min({streak[h] + 1, FailureCap})]
<1>1. /\ task[c].results[h] \in {"ok", "failed"} /\ ~task[c].audited
      /\ streak' = [streak EXCEPT ![h] = IF task[c].results[h] = "ok" THEN 0
                                         ELSE Min({streak[h] + 1, FailureCap})]
    BY DEF JoinNext, ProbeInv, LoopInv, At
<1>2. /\ task' \in [Container -> Loops] /\ \A d \in Container : d # c => task'[d] = task[d]
      /\ task'[c].at = IF task[c].results[h] = "ok" THEN "claimReappear" ELSE "countFailure"
      /\ task'[c].host = h /\ task'[c].audited = task[c].audited
      /\ task'[c].results[h] = "none"
      /\ \A g \in Host : g # h => task'[c].results[g] = task[c].results[g]
    BY DEF JoinNext, ProbeInv, ProbeOK, Loops, Result, Point
<1>3. streak' \in [Host -> 0..FailureCap]
    <2> DEFINE n == IF task[c].results[h] = "ok" THEN 0 ELSE Min({streak[h] + 1, FailureCap})
    <2>1. streak \in [Host -> 0..FailureCap]
        BY DEF ProbeInv, ProbeOK
    <2>2. n \in 0..FailureCap
        BY <2>1, CountUpType DEF FailureCap
    <2> HIDE DEF n
    <2>3. streak' = [streak EXCEPT ![h] = n]
        BY <1>1 DEF n
    <2> QED
        BY <2>1, <2>2, <2>3
<1>4. TablesOK' /\ answers' = answers
    BY TablesUnchanged DEF JoinNext, ProbeInv
<1>5. ProbeInv'
    BY <1>1, <1>2, <1>3, <1>4, LoopMoved
<1>6. task[c].audited = FALSE
    BY <1>1 DEF ProbeInv, ProbeOK
<1> QED
    BY <1>1, <1>2, <1>5, <1>6

LEMMA EndCycleStep ==
    ASSUME ProbeInv, NEW c \in Container, EndCycle(c)
    PROVE  /\ ProbeInv'
           /\ \A d \in Container : d # c => task'[d] = task[d]
           /\ task'[c] = Asleep
<1>1. /\ task' \in [Container -> Loops] /\ \A d \in Container : d # c => task'[d] = task[d]
      /\ task'[c] = Asleep
    BY AsleepType DEF EndCycle, ProbeInv, ProbeOK, Loops
<1>2. TablesOK' /\ UNCHANGED <<answers, streak>>
    BY TablesUnchanged DEF EndCycle, ProbeInv
<1>3. ProbeInv'
    BY <1>1, <1>2, LoopMoved DEF ProbeInv, ProbeOK, Asleep, Working
<1> QED
    BY <1>1, <1>3

\* A statement at a point of the loop, by what it leaves behind.
LEMMA GotoStep ==
    ASSUME ProbeInv, TablesOK', NEW c \in Container, task[c].at \in Working,
           NEW point \in Working, Goto(c, point), UNCHANGED <<answers, streak>>,
           task[c].audited => point \in {"claimRemoval", "recordRemoval"}
    PROVE  ProbeInv'
<1>1. task[c].host \in Host
    BY DEF ProbeInv, LoopInv
<1>2. Working \subseteq Point
    BY DEF Working, Point
<1>3. /\ task' \in [Container -> Loops] /\ \A d \in Container : d # c => task'[d] = task[d]
      /\ task'[c].at = point /\ task'[c].host = task[c].host
      /\ task'[c].audited = task[c].audited
    BY <1>2, GotoEffect
<1> QED
    BY <1>1, <1>3, LoopMoved DEF ProbeInv, ProbeOK

LEMMA ResumeStep ==
    ASSUME ProbeInv, TablesOK', NEW c \in Container, Resume(c), UNCHANGED <<answers, streak>>
    PROVE  ProbeInv'
<1>1. /\ task' \in [Container -> Loops] /\ \A d \in Container : d # c => task'[d] = task[d]
      /\ task'[c].at = "join" /\ task'[c].host = NoHost /\ task'[c].audited = FALSE
    BY ResumeEffect
<1> QED
    BY <1>1, LoopMoved DEF ProbeInv, ProbeOK, Working

\* A row changes its status, its counter, or both.
LEMMA RowType ==
    ASSUME TablesOK, NEW h \in Host, NEW row \in TopoRow, topology' = [topology EXCEPT ![h] = row],
           UNCHANGED <<ledger, now, faults, removals>>
    PROVE  TablesOK'
BY DEF TablesOK

LEMMA Present == [status |-> "present", failures |-> 0] \in TopoRow
BY DEF TopoRow, Status, FailureCap

LEMMA AtWork ==
    ASSUME ProbeInv, NEW c \in Container, task[c].at \in Working
    PROVE  /\ task[c].host \in Host /\ task[c].audited \in BOOLEAN
           /\ topology[task[c].host] \in TopoRow
           /\ topology[task[c].host].failures \in 0..FailureCap
BY DEF ProbeInv, LoopInv, ProbeOK, TablesOK, TopoRow

LEMMA ClaimReappearStep ==
    ASSUME ProbeInv, NEW c \in Container, ClaimReappear(c)
    PROVE  ProbeInv'
<1>1. /\ task[c].at = "claimReappear" /\ task[c].at \in Working
      /\ UNCHANGED <<ledger, now, faults, removals, answers, streak>>
    BY DEF ClaimReappear, At, Working
<1>2. task[c].host \in Host /\ ~task[c].audited
    BY <1>1, AtWork DEF ProbeInv, LoopInv
<1>3. CASE /\ topology' = [topology EXCEPT ![task[c].host] = [status |-> "present", failures |-> 0]]
           /\ Goto(c, "recordReappear")
    BY <1>1, <1>2, <1>3, RowType, Present, GotoStep DEF ProbeInv, Working
<1>4. CASE topology' = topology /\ Goto(c, "resetFailures")
    <2>1. TablesOK'
        BY <1>1, <1>4, TablesUnchanged DEF ProbeInv, tables
    <2> QED
        BY <1>1, <1>2, <1>4, <2>1, GotoStep DEF Working
<1> QED
    BY <1>3, <1>4 DEF ClaimReappear

LEMMA RecordReappearStep ==
    ASSUME ProbeInv, NEW c \in Container, RecordReappear(c)
    PROVE  ProbeInv'
<1>1. task[c].host \in Host
    BY AtWork DEF RecordReappear, At, Working
<1>2. TablesOK'
    BY <1>1, RecordType DEF RecordReappear, ProbeInv, Kind, TablesOK
<1> QED
    BY <1>2, ResumeStep DEF RecordReappear

LEMMA ResetFailuresStep ==
    ASSUME ProbeInv, NEW c \in Container, ResetFailures(c)
    PROVE  ProbeInv'
<1>1. task[c].host \in Host
    BY AtWork DEF ResetFailures, At, Working
<1>2. /\ topology' = [topology EXCEPT ![task[c].host].failures = 0]
      /\ UNCHANGED <<ledger, now, faults, removals>>
    BY DEF ResetFailures
<1>3. topology \in [Host -> TopoRow] /\ 0 \in 0..FailureCap
    BY DEF ProbeInv, TablesOK, FailureCap
<1>4. topology' \in [Host -> TopoRow]
    BY <1>1, <1>2, <1>3 DEF TopoRow
<1>5. TablesOK'
    BY <1>2, <1>4 DEF ProbeInv, TablesOK
<1> QED
    BY <1>5, ResumeStep DEF ResetFailures

LEMMA CountFailureStep ==
    ASSUME ProbeInv, NEW c \in Container, CountFailure(c)
    PROVE  ProbeInv'
<1> DEFINE h == task[c].host
           failures == Min({topology[h].failures + 1, FailureCap})
<1>1. task[c].at \in Working /\ h \in Host /\ ~task[c].audited
    BY AtWork DEF CountFailure, At, Working, ProbeInv, LoopInv
<1>2. failures \in 0..FailureCap
    BY <1>1, AtWork, CountUpType
<1>3. /\ topology' = [topology EXCEPT ![h].failures = failures]
      /\ UNCHANGED <<ledger, now, faults, removals, answers, streak>>
      /\ Goto(c, "verdict") \/ Resume(c)
    BY DEF CountFailure
<1> HIDE DEF failures
<1>4. TablesOK'
    BY <1>1, <1>2, <1>3 DEF ProbeInv, TablesOK, TopoRow
<1> QED
    BY <1>1, <1>3, <1>4, GotoStep, ResumeStep DEF Working

LEMMA VerdictStep ==
    ASSUME ProbeInv, NEW c \in Container, Verdict(c)
    PROVE  /\ ProbeInv'
           /\ \A d \in Container : d # c => task'[d] = task[d]
           /\ task'[c].at = "claimRemoval" /\ task'[c].host = task[c].host
           /\ task'[c].audited = RecentAllowExists(task[c].host)
           /\ task'[c].results = task[c].results
<1> DEFINE recent == RecentAllowExists(task[c].host)
<1>1. task[c].host \in Host
    BY AtWork DEF Verdict, At, Working
<1>2. recent \in BOOLEAN
    BY DEF RecentAllowExists
<1>3. task' = [task EXCEPT ![c].at = "claimRemoval", ![c].audited = recent]
    BY DEF Verdict
<1> HIDE DEF recent
<1>4. /\ task' \in [Container -> Loops] /\ \A d \in Container : d # c => task'[d] = task[d]
      /\ task'[c].at = "claimRemoval" /\ task'[c].host = task[c].host
      /\ task'[c].audited = recent /\ task'[c].results = task[c].results
    BY <1>2, <1>3 DEF ProbeInv, ProbeOK, Loops, Point
<1>5. TablesOK' /\ UNCHANGED <<answers, streak>>
    BY TablesUnchanged DEF Verdict, ProbeInv
<1>6. ProbeInv'
    BY <1>1, <1>4, <1>5, LoopMoved DEF ProbeInv, ProbeOK
<1> QED
    BY <1>4, <1>6 DEF recent

LEMMA ClaimRemovalStep ==
    ASSUME ProbeInv, NEW c \in Container, ClaimRemoval(c)
    PROVE  ProbeInv'
<1>1. task[c].at \in Working /\ task[c].host \in Host /\ task[c].audited \in BOOLEAN
    BY AtWork DEF ClaimRemoval, At, Working
<1>2. TablesOK'
    BY <1>1, ClaimType DEF ClaimRemoval, ProbeInv
<1> QED
    BY <1>1, <1>2, GotoStep, ResumeStep DEF ClaimRemoval, Working

LEMMA RecordRemovalStep ==
    ASSUME ProbeInv, NEW c \in Container, RecordRemoval(c)
    PROVE  ProbeInv'
<1> DEFINE kind == IF task[c].audited THEN "audit" ELSE "drift"
<1>1. task[c].host \in Host
    BY AtWork DEF RecordRemoval, At, Working
<1>2. kind \in Kind /\ Record(kind, task[c].host, c)
    BY DEF RecordRemoval, Kind
<1> HIDE DEF kind
<1>3. TablesOK'
    BY <1>1, <1>2, RecordType DEF RecordRemoval, ProbeInv, TablesOK
<1> QED
    BY <1>3, ResumeStep DEF RecordRemoval

LEMMA FaultType ==
    ASSUME TablesOK, faults < MaxFaults, faults' = faults + 1,
           UNCHANGED <<topology, ledger, now, removals>>
    PROVE  TablesOK'
BY BoundAssumption DEF TablesOK

LEMMA StatementFailsStep ==
    ASSUME ProbeInv, NEW c \in Container, StatementFails(c)
    PROVE  /\ ProbeInv' /\ task[c].at \in Working
           /\ \/ Resume(c)
              \/ task[c].at = "claimReappear" /\ Goto(c, "resetFailures")
              \/ task[c].at = "verdict" /\ Goto(c, "claimRemoval")
<1>1. TablesOK' /\ UNCHANGED <<answers, streak>>
    BY FaultType DEF StatementFails, ProbeInv
<1>2. task[c].at \in Working
    BY DEF StatementFails, AfterError, Working
<1>3. \/ Resume(c)
      \/ task[c].at = "claimReappear" /\ Goto(c, "resetFailures")
      \/ task[c].at = "verdict" /\ Goto(c, "claimRemoval")
    BY <1>2 DEF StatementFails, AfterError, Working
<1>4. task[c].at \in {"claimReappear", "verdict"} => ~task[c].audited
    BY DEF ProbeInv, LoopInv
<1>5. ProbeInv'
    BY <1>1, <1>2, <1>3, <1>4, ResumeStep, GotoStep DEF Working
<1> QED
    BY <1>2, <1>3, <1>5

LEMMA CrashProbeStep ==
    ASSUME ProbeInv, NEW c \in Container, CrashProbe(c)
    PROVE  /\ ProbeInv'
           /\ \A d \in Container : d # c => task'[d] = task[d]
           /\ task'[c] = Asleep
<1>1. /\ task' \in [Container -> Loops] /\ \A d \in Container : d # c => task'[d] = task[d]
      /\ task'[c] = Asleep
    BY AsleepType DEF CrashProbe, ProbeInv, ProbeOK, Loops
<1>2. TablesOK' /\ UNCHANGED <<answers, streak>>
    BY FaultType DEF CrashProbe, ProbeInv
<1>3. ProbeInv'
    BY <1>1, <1>2, LoopMoved DEF ProbeInv, ProbeOK, Asleep, Working
<1> QED
    BY <1>1, <1>3

\* Whatever a loop does next, the types hold and it knows whom it handles.
LEMMA ProbeInvStep ==
    ASSUME ProbeInv, NEW c \in Container, ProbeStep(c)
    PROVE  ProbeInv'
BY StartCycleStep, ProbeOneStep, JoinNextStep, EndCycleStep, ClaimReappearStep,
   RecordReappearStep, ResetFailuresStep, CountFailureStep, VerdictStep, ClaimRemovalStep,
   RecordRemovalStep, StatementFailsStep, CrashProbeStep
   DEF ProbeStep, LoopStep

\* A step of others, the services among them.
LEMMA ProbeUnchanged ==
    ASSUME ProbeInv, TablesOK', task' = task, streak' = streak, answers' \in [Host -> BOOLEAN]
    PROVE  ProbeInv'
BY DEF ProbeInv, ProbeOK, LoopInv

\* One container runs the loop.
OneLoop == \A c, d \in Container : c = d

\* The container, when there is one.
Solo == CHOOSE c \in Container : TRUE

LEMMA SoloLoop ==
    ASSUME OneLoop
    PROVE  Solo \in Container /\ \A c \in Container : c = Solo
BY ContainerAssumption DEF OneLoop, Solo

LEMMA InitProbeInv ==
    ASSUME InitTables, InitProbe
    PROVE  ProbeInv
<1>1. TablesOK
    <2>1. /\ [status |-> "present", failures |-> 0] \in TopoRow
          /\ [status |-> "absent", failures |-> 0] \in TopoRow
        BY DEF TopoRow, Status, FailureCap
    <2>2. topology \in [Host -> TopoRow]
        BY <2>1 DEF InitTables
    <2>3. 0 \in 0..MaxFaults
        BY BoundAssumption
    <2> QED
        BY <2>2, <2>3 DEF InitTables, TablesOK
<1>2. ProbeOK
    <2>1. task \in [Container -> Loops]
        BY AsleepType DEF InitProbe
    <2> QED
        BY <2>1 DEF InitProbe, ProbeOK, Loops, FailureCap
<1>3. LoopInv
    BY DEF InitProbe, LoopInv, Asleep, Working
<1> QED
    BY <1>1, <1>2, <1>3 DEF ProbeInv
=============================================================================
