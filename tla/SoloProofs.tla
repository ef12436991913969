----------------------------- MODULE SoloProofs -----------------------------
(***************************************************************************)
(* Proofs about Observe for one container's probe loop: without syncs what *)
(* its allows and its rows are good for, and beside any syncs what it      *)
(* takes to claim a removal.  For any hosts, clock and bounds.             *)
(*                                                                         *)
(* The argument in one paragraph.  To a host, every step is one of four    *)
(* (Treats): something else; a verdict, which needs an unspent allow; a    *)
(* claim; an audit.  Between the verdict and the audit nobody else spends  *)
(* the allow, so an audit has an allow of its own before it, and no more   *)
(* are claimed upon than there are (HostInv).  A row that is not as the    *)
(* newest entry says is one whose loop has the entry still to write        *)
(* (ExplainedInv), and a counter never runs ahead of the failed probes in  *)
(* a row (StreakInv).                                                      *)
(***************************************************************************)
EXTENDS ObserveProofs

SingleObserver == OneLoop /\ Request = {}

-----------------------------------------------------------------------------
(* The order of the timestamps.                                            *)

LEMMA InOrderStep ==
    ASSUME OneClock, BaseInv, InOrder, [Next]_vars
    PROVE  InOrder'
<1>1. TablesOK /\ TablesOK'
    BY BaseInvStep DEF BaseInv, ProbeInv
<1> QED
    BY <1>1, LedgerMoves, NoEntryInOrder, RecordInOrder

\* What recent_allow_exists finds follows the last audit in the ledger, too.
LEMMA RecentIsLast ==
    ASSUME TablesOK, InOrder, NEW h, RecentAllowExists(h)
    PROVE  \E k \in EntriesOf(h, {"allow"}) :
              /\ \A i \in EntriesOf(h, {"audit"}) : i < k
              /\ now - ledger[k].ts < Window
<1>1. PICK k \in DOMAIN ledger :
        /\ ledger[k].kind = "allow" /\ ledger[k].target = h
        /\ ledger[k].ts > now - Window
        /\ \A j \in DOMAIN ledger :
              ledger[j].kind = "audit" /\ ledger[j].target = h => ledger[k].ts > ledger[j].ts
    BY DEF RecentAllowExists
<1>2. /\ now \in Nat /\ Window \in Nat /\ \A i \in DOMAIN ledger : ledger[i].ts \in Nat
      /\ \A i \in DOMAIN ledger : i \in Nat
    BY BoundAssumption, LedgerType
<1>3. k \in EntriesOf(h, {"allow"})
    BY <1>1 DEF EntriesOf
<1>4. now - ledger[k].ts < Window
    BY <1>1, <1>2
<1>5. ASSUME NEW i \in EntriesOf(h, {"audit"}) PROVE i < k
    <2>1. i \in DOMAIN ledger /\ ledger[i].kind = "audit" /\ ledger[i].target = h
        BY DEF EntriesOf
    <2>2. ledger[k].ts > ledger[i].ts /\ ledger[k].ts \in Nat /\ ledger[i].ts \in Nat
        BY <1>1, <1>2, <2>1
    <2>3. ~(k < i) /\ k # i
        BY <1>1, <2>1, <2>2 DEF InOrder
    <2> QED
        BY <1>1, <1>2, <2>1, <2>3
<1> QED
    BY <1>3, <1>4, <1>5

-----------------------------------------------------------------------------
(* The loop and its verdict.                                               *)

\* It holds the verdict that somebody was allowed to remove the host.
Holds(h) == task[Solo].audited /\ task[Solo].host = h

\* It holds it, has claimed the removal, and has not written the entry.
Claiming(h) == task[Solo].at = "recordRemoval" /\ task[Solo].audited /\ task[Solo].host = h

\* The ledger has an allow for the host that no audit has spent.
Unspent(h) ==
    \E k \in EntriesOf(h, {"allow"}) : \A i \in EntriesOf(h, {"audit"}) : i < k

\* What a step means to a host: something else; a verdict; a claim; an audit.
Ignores(h) ==
    /\ \/ ledger' = ledger
       \/ \E kind \in Kind, g \in Host \cup {NoHost}, c \in Container :
             Record(kind, g, c) /\ (kind = "audit" => g # h)
    /\ removals'[h].audited = removals[h].audited
    /\ Holds(h)' => Holds(h)
    /\ (faults' = faults /\ (Claiming(h) => Claiming(h)')) \/ faults' = faults + 1

Trusts(h) ==
    /\ ledger' = ledger /\ Unspent(h) /\ ~Claiming(h)
    /\ removals'[h].audited = removals[h].audited
    /\ faults' \in {faults, faults + 1}

Claims(h) ==
    /\ ledger' = ledger /\ Holds(h) /\ ~Claiming(h) /\ Claiming(h)'
    /\ removals'[h].audited \in {removals[h].audited, removals[h].audited + 1}
    /\ faults' = faults

Spends(h) ==
    /\ \E c \in Container : Record("audit", h, c)
    /\ Holds(h) /\ ~Holds(h)'
    /\ UNCHANGED <<removals, faults>>

Treats(h) == Ignores(h) \/ Trusts(h) \/ Claims(h) \/ Spends(h)

\* The steps of the loop.
LEMMA LoopTreats ==
    ASSUME OneLoop, BaseInv, InOrder, NEW c \in Container, ProbeStep(c),
           NEW h \in Host
    PROVE  Treats(h)
<1>0. /\ ProbeInv /\ TablesOK /\ c = Solo /\ task[c].audited \in BOOLEAN
      /\ Holds(h) <=> task[c].audited /\ task[c].host = h
      /\ Claiming(h) <=> task[c].at = "recordRemoval" /\ task[c].audited /\ task[c].host = h
      /\ Holds(h)' <=> task'[c].audited /\ task'[c].host = h
      /\ Claiming(h)'
            <=> task'[c].at = "recordRemoval" /\ task'[c].audited /\ task'[c].host = h
    BY SoloLoop DEF Holds, Claiming, BaseInv, ProbeInv, ProbeOK
<1>1. CASE RecordRemoval(c)
    <2> DEFINE kind == IF task[c].audited THEN "audit" ELSE "drift"
    <2>1. /\ task[c].host \in Host /\ Record(kind, task[c].host, c) /\ kind \in Kind
          /\ Resume(c) /\ UNCHANGED <<faults, removals>>
        BY <1>0, <1>1, AtWork DEF RecordRemoval, At, Working, Kind
    <2>2. ~task'[c].audited
        BY <1>0, <2>1, ResumeEffect
    <2>3. CASE Holds(h)
        BY <1>0, <2>1, <2>2, <2>3 DEF Treats, Spends
    <2>4. CASE ~Holds(h)
        <3>1. kind = "audit" => task[c].host # h
            BY <1>0, <2>4
        <3> HIDE DEF kind
        <3> QED
            BY <1>0, <2>1, <2>2, <2>4, <3>1 DEF Treats, Ignores
    <2> QED
        BY <2>3, <2>4
<1>2. CASE ClaimRemoval(c)
    <2>1. /\ task[c].at = "claimRemoval" /\ task[c].host \in Host
          /\ ClaimRemoved(task[c].host, task[c].audited) /\ UNCHANGED <<ledger, faults>>
          /\ \/ topology[task[c].host].status = "present" /\ Goto(c, "recordRemoval")
             \/ topology[task[c].host].status # "present" /\ Resume(c)
        BY <1>0, <1>2, AtWork DEF ClaimRemoval, At, Working
    <2>2. CASE topology[task[c].host].status = "present" /\ Goto(c, "recordRemoval")
        <3>1. /\ task'[c].at = "recordRemoval" /\ task'[c].host = task[c].host
              /\ task'[c].audited = task[c].audited
            BY <1>0, <2>2, GotoEffect DEF Point
        <3>2. CASE Holds(h)
            <4>1. removals'[h].audited = removals[h].audited + 1
                BY <1>0, <2>1, <2>2, <3>2, ClaimEffect
            <4> QED
                BY <1>0, <2>1, <3>1, <3>2, <4>1 DEF Treats, Claims
        <3>3. CASE ~Holds(h)
            <4>1. removals'[h].audited = removals[h].audited
                BY <1>0, <2>1, <2>2, <3>3, ClaimEffect
            <4> QED
                BY <1>0, <2>1, <3>1, <3>3, <4>1 DEF Treats, Ignores
        <3> QED
            BY <3>2, <3>3
    <2>3. CASE topology[task[c].host].status # "present" /\ Resume(c)
        <3>1. removals' = removals /\ ~task'[c].audited
            BY <1>0, <2>1, <2>3, ClaimEffect, ResumeEffect
        <3> QED
            BY <1>0, <2>1, <3>1 DEF Treats, Ignores
    <2> QED
        BY <2>1, <2>2, <2>3
<1>3. CASE Verdict(c)
    <2>1. /\ task[c].at = "verdict" /\ ~task[c].audited
          /\ UNCHANGED <<ledger, removals, faults>>
        BY <1>0, <1>3 DEF Verdict, At, tables, ProbeInv, LoopInv
    <2>2. /\ task'[c].at = "claimRemoval" /\ task'[c].host = task[c].host
          /\ task'[c].audited = RecentAllowExists(task[c].host)
        BY <1>0, <1>3, VerdictStep
    <2>3. CASE Holds(h)'
        <3>1. Unspent(h)
            BY <1>0, <2>2, <2>3, RecentIsLast DEF Unspent
        <3> QED
            BY <1>0, <2>1, <3>1 DEF Treats, Trusts
    <2>4. CASE ~Holds(h)'
        BY <1>0, <2>1, <2>4 DEF Treats, Ignores
    <2> QED
        BY <2>3, <2>4
<1>4. CASE RecordReappear(c)
    <2>1. /\ task[c].at = "recordReappear" /\ task[c].host \in Host
          /\ Record("reappear", task[c].host, c) /\ "reappear" \in Kind
          /\ Resume(c) /\ UNCHANGED <<faults, removals>>
        BY <1>0, <1>4, AtWork DEF RecordReappear, At, Working, Kind
    <2>2. ~task'[c].audited
        BY <1>0, <2>1, ResumeEffect
    <2> QED
        BY <1>0, <2>1, <2>2 DEF Treats, Ignores
<1>5. CASE StatementFails(c) \/ CrashProbe(c)
    <2>1. ~task'[c].audited
        <3>1. CASE StatementFails(c)
            BY <1>0, <3>1, StatementFailsStep, ResumeEffect, GotoEffect
               DEF ProbeInv, LoopInv, Point
        <3>2. CASE CrashProbe(c)
            BY <1>0, <3>2, CrashProbeStep DEF Asleep
        <3> QED
            BY <1>5, <3>1, <3>2
    <2>2. UNCHANGED <<ledger, removals>> /\ faults' = faults + 1
        BY <1>5 DEF StatementFails, CrashProbe
    <2> QED
        BY <1>0, <2>1, <2>2 DEF Treats, Ignores
<1>6. ASSUME NEW g \in Host, ProbeOne(c, g) PROVE Treats(h)
    <2>1. /\ task'[c].at = task[c].at /\ task'[c].host = task[c].host
          /\ task'[c].audited = task[c].audited
        BY <1>0, <1>6, ProbeOneStep
    <2>2. UNCHANGED <<ledger, removals, faults>>
        BY <1>6 DEF ProbeOne, tables
    <2> QED
        BY <1>0, <2>1, <2>2 DEF Treats, Ignores
<1>7. ASSUME ~Claiming(h), ~task'[c].audited, UNCHANGED <<ledger, removals, faults>>
      PROVE  Treats(h)
    BY <1>0, <1>7 DEF Treats, Ignores
<1>8. ASSUME NEW g \in Host, JoinNext(c, g) PROVE Treats(h)
    <2>1. ~task'[c].audited /\ task[c].at = "join" /\ UNCHANGED <<ledger, removals, faults>>
        BY <1>0, <1>8, JoinNextStep DEF JoinNext, At, tables
    <2> QED
        BY <1>0, <1>7, <2>1
<1>9. CASE StartCycle(c) \/ EndCycle(c)
    <2>1. task[c].at \in {"sleep", "join"} /\ UNCHANGED <<ledger, removals, faults>>
        BY <1>9 DEF StartCycle, EndCycle, At, tables
    <2>2. ~task'[c].audited
        BY <1>0, <1>9, <2>1, StartCycleStep, EndCycleStep DEF ProbeInv, LoopInv, Asleep
    <2> QED
        BY <1>0, <1>7, <2>1, <2>2
<1>10. CASE ClaimReappear(c) \/ ResetFailures(c) \/ CountFailure(c)
    <2>1. /\ task[c].at \in {"claimReappear", "resetFailures", "countFailure"}
          /\ UNCHANGED <<ledger, removals, faults>>
        BY <1>10 DEF ClaimReappear, ResetFailures, CountFailure, At
    <2>2. ~task'[c].audited
        <3>1. ~task[c].audited
            BY <1>0, <2>1 DEF ProbeInv, LoopInv
        <3> QED
            BY <1>0, <1>10, <3>1, GotoEffect, ResumeEffect
               DEF ClaimReappear, ResetFailures, CountFailure, Point
    <2> QED
        BY <1>0, <1>7, <2>1, <2>2
<1> QED
    BY <1>1, <1>2, <1>3, <1>4, <1>5, <1>6, <1>8, <1>9, <1>10 DEF ProbeStep, LoopStep

\* Steps that leave the observer as it is.
LEMMA OthersMove ==
    ASSUME BaseInv, UNCHANGED removals, faults' = faults,
           UNCHANGED <<sync, task>>,
           ledger' = ledger \/ \E g \in Host, c \in Container : Record("allow", g, c),
           NEW h \in Host
    PROVE  Treats(h)
<1>1. (Holds(h)' <=> Holds(h)) /\ (Claiming(h)' <=> Claiming(h))
    BY DEF Holds, Claiming
<1>2. "allow" \in Kind
    BY DEF Kind
<1> QED
    BY <1>1, <1>2 DEF Treats, Ignores

LEMMA StepTreats ==
    ASSUME SingleObserver, BaseInv, InOrder, [Next]_vars, NEW h \in Host
    PROVE  Treats(h)
<1>1. ~SyncStep
    BY DEF SyncStep, SingleObserver
<1>2. ASSUME NEW c \in Container, ProbeStep(c) PROVE Treats(h)
    BY <1>2, LoopTreats DEF SingleObserver
<1>3. CASE UNCHANGED vars \/ TimePasses \/ \E g \in Host : Flip(g)
    <2>1. UNCHANGED <<ledger, removals, faults, sync, task>>
        BY <1>3 DEF vars, TimePasses, WindowPasses, Flip, tables, probeVars, syncVars
    <2> QED
        BY <2>1, OthersMove
<1>4. ASSUME NEW g \in Host, NEW c \in Container, Authorize(c, g) PROVE Treats(h)
    <2>1. Record("allow", g, c) /\ UNCHANGED <<removals, faults, sync, task>>
        BY <1>4 DEF Authorize, probeVars, syncVars
    <2> QED
        BY <2>1, OthersMove
<1> QED
    BY <1>1, <1>2, <1>3, <1>4 DEF Next

-----------------------------------------------------------------------------
(* Spends against allows.                                                  *)

\* Each audit of the host has an allow of its own before it.
Covered(h) ==
    \A j \in EntriesOf(h, {"audit"}) :
        \E k \in EntriesOf(h, {"allow"}) :
            k < j /\ \A i \in EntriesOf(h, {"audit"}) : i < j => i < k

\* An unspent allow that no claim has used yet can still be claimed upon.
Claimable(h) == IF Unspent(h) /\ ~Claiming(h) THEN 1 ELSE 0

\* A fault between a claim and its audit leaves the allow unspent.
Budget(h) ==
    removals[h].audited + Claimable(h) <= Cardinality(EntriesOf(h, {"allow"})) + faults

\* A verdict stays good until it is used: the inductive invariant.
HostInv(h) == (Holds(h) => Unspent(h)) /\ Covered(h) /\ Budget(h)

\* What an append leaves of the allows and the audits of a host.
LEMMA UnspentMoves ==
    ASSUME TablesOK, NEW kind \in Kind, NEW g \in Host \cup {NoHost}, NEW c \in Container,
           Record(kind, g, c), NEW h \in Host
    PROVE  /\ kind = "audit" /\ g = h =>
                /\ Covered(h) /\ Unspent(h) => Covered(h)'
                /\ ~Unspent(h)'
                /\ Cardinality(EntriesOf(h, {"allow"}))' = Cardinality(EntriesOf(h, {"allow"}))
           /\ kind = "allow" /\ g = h =>
                /\ Covered(h) => Covered(h)'
                /\ Unspent(h) => Unspent(h)'
                /\ Cardinality(EntriesOf(h, {"allow"}))'
                        = Cardinality(EntriesOf(h, {"allow"})) + 1
           /\ kind \notin {"audit", "allow"} \/ g # h =>
                /\ Covered(h)' <=> Covered(h)
                /\ Unspent(h)' <=> Unspent(h)
                /\ Cardinality(EntriesOf(h, {"allow"}))' = Cardinality(EntriesOf(h, {"allow"}))
<1> DEFINE n == Len(ledger) + 1
           A == EntriesOf(h, {"audit"})
           L == EntriesOf(h, {"allow"})
<1>1. /\ n \in Nat /\ \A i \in A \cup L : i \in Nat /\ i < n
    BY LedgerType DEF EntriesOf
<1>2. CASE kind = "audit" /\ g = h
    <2>1. A' = A \cup {n} /\ L' = L
        BY <1>2, EntriesGrow
    <2> HIDE DEF n, A, L
    <2>2. /\ (\A j \in A : \E k \in L : k < j /\ \A i \in A : i < j => i < k)
             /\ (\E k \in L : \A i \in A : i < k)
          => (\A j \in A' : \E k \in L' : k < j /\ \A i \in A' : i < j => i < k)
        BY <1>1, <2>1
    <2>3. ~ \E k \in L' : \A i \in A' : i < k
        BY <1>1, <2>1
    <2> QED
        BY <1>2, <2>1, <2>2, <2>3 DEF Covered, Unspent, A, L
<1>3. CASE kind = "allow" /\ g = h
    <2>1. A' = A /\ L' = L \cup {n} /\ Cardinality(L') = Cardinality(L) + 1
        BY <1>3, EntriesGrow
    <2> HIDE DEF n
    <2> QED
        BY <1>3, <2>1 DEF Covered, Unspent
<1>4. CASE kind \notin {"audit", "allow"} \/ g # h
    <2>1. A' = A /\ L' = L
        BY <1>4, EntriesGrow
    <2> QED
        BY <1>4, <2>1 DEF Covered, Unspent
<1> QED
    BY <1>2, <1>3, <1>4

LEMMA NothingMoves ==
    ASSUME ledger' = ledger, NEW h
    PROVE  /\ Covered(h)' <=> Covered(h)
           /\ Unspent(h)' <=> Unspent(h)
           /\ Cardinality(EntriesOf(h, {"allow"}))' = Cardinality(EntriesOf(h, {"allow"}))
BY DEF Covered, Unspent, EntriesOf

\* The budget moves by what its numbers move.
LEMMA BudgetMoves ==
    ASSUME TablesOK, NEW h \in Host, Budget(h),
           NEW r \in {0, 1}, removals'[h].audited = removals[h].audited + r,
           NEW n \in {0, 1}, Cardinality(EntriesOf(h, {"allow"}))'
                                  = Cardinality(EntriesOf(h, {"allow"})) + n,
           NEW f \in {0, 1}, faults' = faults + f,
           NEW u \in {0, 1}, Claimable(h) = u, NEW v \in {0, 1}, Claimable(h)' = v,
           r + v <= u + n + f
    PROVE  Budget(h)'
<1> DEFINE size == Cardinality(EntriesOf(h, {"allow"}))
           taken == removals[h].audited
<1>1. size \in Nat /\ taken \in Nat /\ faults \in Nat
    BY EntriesType DEF TablesOK
<1>2. taken + u <= size + faults
    BY DEF Budget
<1>3. size' = size + n /\ taken' = taken + r
    OBVIOUS
<1> HIDE DEF size, taken
<1>4. taken' + v <= size' + faults'
    BY <1>1, <1>2, <1>3
<1> QED
    BY <1>4 DEF Budget, size, taken

LEMMA HostInvStep ==
    ASSUME TablesOK, NEW h \in Host, HostInv(h), Treats(h)
    PROVE  HostInv(h)'
<1> DEFINE n == Cardinality(EntriesOf(h, {"allow"}))
           r == removals[h].audited
           u == Claimable(h)
<1>1. n \in Nat /\ r \in Nat /\ faults \in Nat /\ Budget(h)
    BY EntriesType DEF TablesOK, HostInv
<1>2. /\ u \in {0, 1} /\ (u = 1 <=> Unspent(h) /\ ~Claiming(h))
      /\ u' \in {0, 1} /\ (u' = 1 <=> Unspent(h)' /\ ~Claiming(h)')
    BY DEF Claimable
<1>3. ASSUME NEW dr \in {0, 1}, NEW dn \in {0, 1}, NEW df \in {0, 1},
             r' = r + dr, n' = n + dn, faults' = faults + df,
             u' = 1 => u = 1 \/ dn = 1 \/ df = 1, dr = 1 => u = 1 /\ u' # 1
      PROVE  Budget(h)'
    <2> HIDE DEF u
    <2>1. u \in {0, 1} /\ u' \in {0, 1}
        BY <1>2
    <2>2. dr + u' <= u + dn + df
        BY <1>3, <2>1
    <2> QED
        BY <1>1, <1>3, <2>1, <2>2, BudgetMoves DEF u
<1> HIDE DEF n, r, u
<1>4. /\ r' = r => \E dr \in {0, 1} : r' = r + dr /\ dr = 0
      /\ n' = n => \E dn \in {0, 1} : n' = n + dn /\ dn = 0
      /\ faults' = faults => \E df \in {0, 1} : faults' = faults + df /\ df = 0
    BY <1>1
<1>5. CASE Ignores(h)
    <2> DEFINE Grows == /\ Covered(h)' /\ (Unspent(h) => Unspent(h)')
                        /\ \/ n' = n /\ (Unspent(h)' => Unspent(h))
                           \/ n' = n + 1
    <2>1. Grows
        <3>1. CASE ledger' = ledger
            BY <3>1, NothingMoves DEF HostInv, n
        <3>2. ASSUME NEW kind \in Kind, NEW g \in Host \cup {NoHost}, NEW c \in Container,
                     Record(kind, g, c), kind = "audit" => g # h
              PROVE  Grows
            BY <3>2, UnspentMoves DEF HostInv, n
        <3> QED
            BY <1>5, <3>1, <3>2 DEF Ignores
    <2>2. /\ r' = r /\ (Holds(h)' => Holds(h))
          /\ (faults' = faults /\ (Claiming(h) => Claiming(h)')) \/ faults' = faults + 1
        BY <1>5 DEF Ignores, r
    <2>3. PICK dn \in {0, 1} : n' = n + dn /\ (dn = 0 => (Unspent(h)' => Unspent(h)))
        BY <1>1, <2>1
    <2>4. PICK df \in {0, 1} :
            faults' = faults + df /\ (df = 0 => (Claiming(h) => Claiming(h)'))
        BY <1>1, <2>2
    <2>5. u' = 1 => u = 1 \/ dn = 1 \/ df = 1
        BY <1>2, <2>3, <2>4
    <2>6. Budget(h)'
        BY <1>3, <1>4, <2>2, <2>3, <2>4, <2>5
    <2> QED
        BY <2>1, <2>2, <2>6 DEF HostInv
<1>6. CASE Trusts(h)
    <2>1. /\ Covered(h)' /\ Unspent(h)' /\ n' = n
        BY <1>6, NothingMoves DEF HostInv, Trusts, n
    <2>2. /\ r' = r /\ faults' \in {faults, faults + 1} /\ Unspent(h) /\ ~Claiming(h)
        BY <1>6 DEF Trusts, r
    <2>3. PICK df \in {0, 1} : faults' = faults + df
        BY <1>1, <2>2
    <2>4. u = 1
        BY <1>2, <2>2
    <2>5. Budget(h)'
        BY <1>3, <1>4, <2>1, <2>2, <2>3, <2>4
    <2> QED
        BY <2>1, <2>5 DEF HostInv
<1>7. CASE Claims(h)
    <2>1. /\ Covered(h)' /\ Unspent(h) /\ Unspent(h)' /\ n' = n
        BY <1>7, NothingMoves DEF HostInv, Claims, n
    <2>2. /\ r' \in {r, r + 1} /\ faults' = faults /\ ~Claiming(h) /\ Claiming(h)'
        BY <1>7 DEF Claims, r
    <2>3. PICK dr \in {0, 1} : r' = r + dr
        BY <1>1, <2>2
    <2>4. u = 1 /\ u' # 1
        BY <1>2, <2>1, <2>2
    <2>5. Budget(h)'
        BY <1>3, <1>4, <2>1, <2>2, <2>3, <2>4
    <2> QED
        BY <2>1, <2>5 DEF HostInv
<1>8. CASE Spends(h)
    <2>1. Covered(h)' /\ ~Unspent(h)' /\ n' = n
        <3>1. PICK c \in Container : Record("audit", h, c)
            BY <1>8 DEF Spends
        <3>2. "audit" \in Kind /\ Covered(h) /\ Unspent(h)
            BY <1>8 DEF Kind, HostInv, Spends
        <3> QED
            BY <3>1, <3>2, UnspentMoves DEF n
    <2>2. r' = r /\ faults' = faults /\ ~Holds(h)'
        BY <1>8 DEF Spends, r
    <2>3. u' # 1
        BY <1>2, <2>1
    <2>4. Budget(h)'
        BY <1>3, <1>4, <2>1, <2>2, <2>3
    <2> QED
        BY <2>1, <2>2, <2>4 DEF HostInv
<1> QED
    BY <1>5, <1>6, <1>7, <1>8 DEF Treats

SoloInv == \A h \in Host : HostInv(h)

LEMMA InitSoloInv ==
    ASSUME Init
    PROVE  SoloInv
<1>1. ASSUME NEW h \in Host PROVE HostInv(h)
    <2>1. EntriesOf(h, {"audit"}) = {} /\ EntriesOf(h, {"allow"}) = {}
        BY DEF Init, InitTables, EntriesOf
    <2>2. ~Holds(h) /\ ~Unspent(h) /\ Covered(h)
        <3>1. \A c \in Container : ~task[c].audited
            BY DEF Init, InitProbe, Asleep
        <3>2. Solo \in Container
            BY ContainerAssumption DEF Solo
        <3> QED
            BY <2>1, <3>1, <3>2 DEF Holds, Unspent, Covered
    <2>3. removals[h].audited = 0 /\ faults = 0 /\ Claimable(h) = 0
        BY <2>2 DEF Init, InitTables, Claimable
    <2>4. Budget(h)
        BY <2>1, <2>3, FS_EmptySet DEF Budget
    <2> QED
        BY <2>2, <2>4 DEF HostInv
<1> QED
    BY <1>1 DEF SoloInv

\* With one observer and clocks that agree, the invariant holds of every host.
LEMMA SoloInvHolds ==
    ASSUME SingleObserver, OneClock
    PROVE  Spec => [](BaseInv /\ SoloInv)
<1>1. Init => BaseInv /\ InOrder /\ SoloInv
    BY InitBaseInv, InitSoloInv DEF Init, InitTables, InOrder
<1>2. ASSUME BaseInv, InOrder, SoloInv, [Next]_vars
      PROVE  (BaseInv /\ InOrder /\ SoloInv)'
    <2>1. BaseInv' /\ InOrder'
        BY <1>2, BaseInvStep, InOrderStep
    <2>2. ASSUME NEW h \in Host PROVE HostInv(h)'
        BY <1>2, StepTreats, HostInvStep DEF SoloInv, BaseInv, ProbeInv
    <2> QED
        BY <2>1, <2>2 DEF SoloInv
<1>3. BaseInv /\ InOrder /\ SoloInv /\ [Next]_vars => (BaseInv /\ InOrder /\ SoloInv)'
    BY <1>2
<1> QED
    BY <1>1, <1>3, PTL DEF Spec

\* One approved removal never launders the next: between two audits of a host
\* somebody was allowed to remove it again, whatever crashes and fails
\* (recent_allow_exists and handle_failure; README.md:27).
THEOREM OneAllowOneAudit ==
    ASSUME SingleObserver, OneClock
    PROVE  Spec => []AuditsAreSingleUse
<1>1. SoloInv => AuditsAreSingleUse
    BY DEF SoloInv, HostInv, Covered, AuditsAreSingleUse
<1> QED
    BY <1>1, SoloInvHolds, PTL

\* No more removals of a host are taken as authorized than there were
\* authorizations of it and faults: each crash or failed append between a claim
\* and its audit leaves at most one allow to be claimed upon again.
ExcessIsFaults ==
    \A h \in Host :
        removals[h].audited <= Cardinality(EntriesOf(h, {"allow"})) + faults

\* Whatever crashes and fails, every removal taken as authorized beyond the
\* authorizations is owed to a fault of its own (handle_failure).
THEOREM EachFaultCoversOneRemoval ==
    ASSUME SingleObserver, OneClock
    PROVE  Spec => []ExcessIsFaults
<1>1. ASSUME BaseInv, SoloInv PROVE ExcessIsFaults
    <2>1. TablesOK /\ faults \in Nat
        BY <1>1 DEF BaseInv, ProbeInv, TablesOK
    <2>2. ASSUME NEW h \in Host
          PROVE  removals[h].audited <= Cardinality(EntriesOf(h, {"allow"})) + faults
        <3> DEFINE n == Cardinality(EntriesOf(h, {"allow"}))
                   r == removals[h].audited
        <3>1. n \in Nat /\ r \in Nat /\ faults \in Nat
            BY <2>1, EntriesType DEF TablesOK
        <3>2. Claimable(h) \in {0, 1}
            BY DEF Claimable
        <3>3. r + Claimable(h) <= n + faults
            BY <1>1 DEF SoloInv, HostInv, Budget
        <3> HIDE DEF n, r
        <3>4. r <= n + faults
            BY <3>1, <3>2, <3>3
        <3> QED
            BY <3>4 DEF n, r
    <2> QED
        BY <2>2 DEF ExcessIsFaults
<1> QED
    BY <1>1, SoloInvHolds, PTL

\* Where no fault loses an audit, no more removals are taken as authorized than
\* there were authorizations (handle_failure).
THEOREM AllowsCoverRemovals ==
    ASSUME SingleObserver, OneClock, MaxFaults = 0
    PROVE  Spec => []AllowCoversOneRemoval
<1>1. ASSUME TablesOK, ExcessIsFaults PROVE AllowCoversOneRemoval
    <2>1. ASSUME NEW h \in Host
          PROVE  removals[h].audited <= Cardinality(EntriesOf(h, {"allow"}))
        <3> DEFINE n == Cardinality(EntriesOf(h, {"allow"}))
        <3>1. n \in Nat /\ faults = 0
            BY <1>1, EntriesType DEF TablesOK
        <3>2. removals[h].audited <= n + faults
            BY <1>1 DEF ExcessIsFaults
        <3> HIDE DEF n
        <3>3. removals[h].audited <= n
            BY <3>1, <3>2
        <3> QED
            BY <3>3 DEF n
    <2> QED
        BY <2>1 DEF AllowCoversOneRemoval
<1>2. BaseInv => TablesOK
    BY DEF BaseInv, ProbeInv
<1> QED
    BY <1>1, <1>2, SoloInvHolds, EachFaultCoversOneRemoval, PTL

-----------------------------------------------------------------------------
(* The status and the newest entry.                                        *)

\* Among some entries of the ledger, one is the newest.
LEMMA NewestEntry ==
    ASSUME TablesOK, NEW S \in SUBSET DOMAIN ledger, S # {}
    PROVE  Max(S) \in S /\ \A i \in S : Max(S) >= i
<1> DEFINE n == Len(ledger)
           ages == {n - i : i \in S}
<1>1. n \in Nat /\ \A i \in S : i \in Nat /\ i <= n
    BY LedgerType
<1> HIDE DEF n
<1>2. ages \in SUBSET Nat /\ ages # {}
    BY <1>1
<1>3. PICK a \in ages : \A b \in ages : a <= b
    BY <1>2, LeastOf
<1>4. PICK m \in S : a = n - m
    BY <1>3
<1>5. ASSUME NEW i \in S PROVE m >= i
    <2>1. n - i \in Nat /\ n - m \in Nat /\ n - m <= n - i
        BY <1>1, <1>3, <1>4
    <2> QED
        BY <1>1, <2>1
<1> QED
    BY <1>5 DEF Max

About(h) == EntriesOf(h, {"audit", "drift", "reappear"})

Explains(kind) ==
    CASE kind = "audit" -> "removed-audited"
      [] kind = "drift" -> "missing-unaudited"
      [] kind = "reappear" -> "present"

\* An entry about a host explains its status; any other leaves it explained.
LEMMA ExplainedMoves ==
    ASSUME TablesOK, TablesOK', NEW kind \in Kind, NEW h \in Host \cup {NoHost},
           NEW c \in Container, Record(kind, h, c), NEW g \in Host
    PROVE  /\ g = h /\ kind \in {"audit", "drift", "reappear"} =>
                ExplainedStatus(g)' = Explains(kind)
           /\ g # h \/ kind \in {"allow", "sync"} =>
                ExplainedStatus(g)' = ExplainedStatus(g)
<1> DEFINE n == Len(ledger) + 1
<1>0. /\ ExplainedStatus(g) = IF About(g) = {} THEN "present"
                               ELSE Explains(ledger[Max(About(g))].kind)
      /\ ExplainedStatus(g)' = IF About(g)' = {} THEN "present"
                                ELSE Explains(ledger'[Max(About(g)')].kind)
    BY DEF ExplainedStatus, About, Explains
<1>1. /\ \A i \in DOMAIN ledger : ledger'[i] = ledger[i]
      /\ ledger'[n] = [kind |-> kind, target |-> h, ts |-> now + Skew[c]]
    BY RecordEffect
<1>2. \A i \in DOMAIN ledger : i \in Nat /\ i < n
    BY LedgerType
<1>3. n \in Nat
    BY LedgerType
<1>4. About(g) \subseteq DOMAIN ledger
    BY DEF About, EntriesOf
<1>5. CASE g = h /\ kind \in {"audit", "drift", "reappear"}
    <2>1. About(g)' = About(g) \cup {n}
        BY <1>5, EntriesGrow DEF About
    <2>2. ledger'[n].kind = kind
        BY <1>1
    <2> HIDE DEF n
    <2>3. Max(About(g)') = n
        <3>1. \A i \in About(g)' : n >= i /\ (i >= n => i = n)
            BY <1>2, <1>3, <1>4, <2>1
        <3> QED
            BY <2>1, <3>1 DEF Max
    <2>4. About(g)' # {}
        BY <2>1
    <2> QED
        BY <1>5, <2>2, <2>3, <2>4, <1>0
<1>6. CASE g # h \/ kind \in {"allow", "sync"}
    <2>1. About(g)' = About(g)
        BY <1>6, EntriesGrow DEF About
    <2>2. CASE About(g) = {}
        BY <1>0, <1>6, <2>1, <2>2
    <2>3. CASE About(g) # {}
        <3>1. Max(About(g)) \in DOMAIN ledger
            BY <1>4, <2>3, NewestEntry
        <3>2. Max(About(g)') = Max(About(g)) /\ ledger'[Max(About(g))] = ledger[Max(About(g))]
            BY <1>1, <2>1, <3>1
        <3> QED
            BY <1>0, <1>6, <2>1, <2>3, <3>2
    <2> QED
        BY <2>2, <2>3
<1> QED
    BY <1>5, <1>6 DEF Kind

Settled(h) == topology[h].status \in {"absent", ExplainedStatus(h)}

\* The loop has changed the row and has yet to write the entry that says so.
UnderWay(h) ==
    task[Solo].host = h /\ task[Solo].at \in {"recordReappear", "recordRemoval"}

\* Until it does, the row is as the loop left it.
ExplainedInv ==
    /\ \A h \in Host : Settled(h) \/ UnderWay(h)
    /\ task[Solo].at = "recordReappear" =>
          topology[task[Solo].host].status = "present"
    /\ task[Solo].at = "recordRemoval" =>
          topology[task[Solo].host].status = StatusFor(task[Solo].audited)

LEMMA SettledStays ==
    ASSUME ledger' = ledger, NEW h, topology'[h].status = topology[h].status, Settled(h)
    PROVE  Settled(h)'
<1>1. ExplainedStatus(h)' = ExplainedStatus(h)
    BY DEF ExplainedStatus, EntriesOf
<1> QED
    BY <1>1 DEF Settled

\* A step that changes no status and leaves no entry to be written.
LEMMA StatusStays ==
    ASSUME ExplainedInv, ledger' = ledger,
           \A h \in Host : topology'[h].status = topology[h].status,
           task[Solo].at \notin {"recordReappear", "recordRemoval"},
           task'[Solo].at \notin {"recordReappear", "recordRemoval"}
    PROVE  ExplainedInv'
BY SettledStays DEF ExplainedInv, UnderWay

\* The loop changes the status of its host, and is to write that down.
LEMMA StatusChanges ==
    ASSUME ExplainedInv, ledger' = ledger,
           task[Solo].at \notin {"recordReappear", "recordRemoval"},
           task'[Solo].host = task[Solo].host,
           \A h \in Host \ {task[Solo].host} : topology'[h] = topology[h],
           \/ /\ task'[Solo].at = "recordReappear"
              /\ topology'[task[Solo].host].status = "present"
           \/ /\ task'[Solo].at = "recordRemoval"
              /\ topology'[task[Solo].host].status = StatusFor(task'[Solo].audited)
    PROVE  ExplainedInv'
BY SettledStays DEF ExplainedInv, UnderWay

\* The loop writes down what it has done.
LEMMA StatusWritten ==
    ASSUME TablesOK, TablesOK', ExplainedInv, NEW kind \in {"audit", "drift", "reappear"},
           NEW c \in Container, task[Solo].host \in Host, Record(kind, task[Solo].host, c),
           topology' = topology,
           topology[task[Solo].host].status = Explains(kind),
           task'[Solo].at \notin {"recordReappear", "recordRemoval"}
    PROVE  ExplainedInv'
<1>1. kind \in Kind
    BY DEF Kind
<1>2. ASSUME NEW h \in Host PROVE Settled(h)'
    <2>1. CASE h = task[Solo].host
        BY <1>1, <2>1, ExplainedMoves DEF Settled
    <2>2. CASE h # task[Solo].host
        <3>1. ExplainedStatus(h)' = ExplainedStatus(h)
            BY <1>1, <2>2, ExplainedMoves
        <3> QED
            BY <2>2, <3>1 DEF ExplainedInv, UnderWay, Settled
    <2> QED
        BY <2>1, <2>2
<1> QED
    BY <1>2 DEF ExplainedInv

\* The steps of a loop that nothing fails in.
LEMMA ExplainedLoop ==
    ASSUME OneLoop, MaxFaults = 0, BaseInv, BaseInv', ExplainedInv,
           NEW c \in Container, ProbeStep(c)
    PROVE  ExplainedInv'
<1>0. /\ ProbeInv /\ TablesOK /\ TablesOK' /\ c = Solo /\ task[c].audited \in BOOLEAN
      /\ faults \in 0..0 /\ topology \in [Host -> TopoRow]
    BY SoloLoop DEF BaseInv, ProbeInv, ProbeOK, TablesOK
<1>1. ~StatementFails(c) /\ ~CrashProbe(c)
    BY <1>0 DEF StatementFails, CrashProbe
<1>2. CASE RecordReappear(c)
    <2>1. /\ task[c].at = "recordReappear" /\ task[c].host \in Host
          /\ Record("reappear", task[c].host, c) /\ topology' = topology /\ Resume(c)
        BY <1>0, <1>2, AtWork DEF RecordReappear, At, Working
    <2>2. topology[task[c].host].status = Explains("reappear") /\ task'[c].at = "join"
        BY <1>0, <2>1, ResumeEffect DEF ExplainedInv, Explains
    <2> QED
        BY <1>0, <2>1, <2>2, StatusWritten
<1>3. CASE RecordRemoval(c)
    <2> DEFINE kind == IF task[c].audited THEN "audit" ELSE "drift"
    <2>1. /\ task[c].at = "recordRemoval" /\ task[c].host \in Host
          /\ Record(kind, task[c].host, c) /\ topology' = topology /\ Resume(c)
        BY <1>0, <1>3, AtWork DEF RecordRemoval, At, Working
    <2>2. topology[task[c].host].status = Explains(kind) /\ task'[c].at = "join"
        BY <1>0, <2>1, ResumeEffect DEF ExplainedInv, Explains, StatusFor
    <2>3. kind \in {"audit", "drift", "reappear"}
        OBVIOUS
    <2> HIDE DEF kind
    <2> QED
        BY <1>0, <2>1, <2>2, <2>3, StatusWritten
<1>4. CASE ClaimReappear(c)
    <2>1. task[c].at = "claimReappear" /\ task[c].host \in Host /\ ledger' = ledger
        BY <1>0, <1>4, AtWork DEF ClaimReappear, At, Working
    <2>2. CASE /\ topology' = [topology EXCEPT ![task[c].host]
                                    = [status |-> "present", failures |-> 0]]
               /\ Goto(c, "recordReappear")
        <3>1. task'[c].at = "recordReappear" /\ task'[c].host = task[c].host
            BY <1>0, <2>2, GotoEffect DEF Point
        <3>2. /\ \A h \in Host \ {task[c].host} : topology'[h] = topology[h]
              /\ topology'[task[c].host].status = "present"
            BY <1>0, <2>1, <2>2
        <3> QED
            BY <1>0, <2>1, <3>1, <3>2, StatusChanges
    <2>3. CASE topology' = topology /\ Goto(c, "resetFailures")
        <3>1. task'[c].at = "resetFailures"
            BY <1>0, <2>3, GotoEffect DEF Point
        <3> QED
            BY <1>0, <2>1, <2>3, <3>1, StatusStays
    <2> QED
        BY <1>4, <2>2, <2>3 DEF ClaimReappear
<1>5. CASE ClaimRemoval(c)
    <2>1. /\ task[c].at = "claimRemoval" /\ task[c].host \in Host /\ ledger' = ledger
          /\ ClaimRemoved(task[c].host, task[c].audited)
        BY <1>0, <1>5, AtWork DEF ClaimRemoval, At, Working
    <2>2. CASE topology[task[c].host].status = "present" /\ Goto(c, "recordRemoval")
        <3>1. /\ task'[c].at = "recordRemoval" /\ task'[c].host = task[c].host
              /\ task'[c].audited = task[c].audited
            BY <1>0, <2>2, GotoEffect DEF Point
        <3>2. /\ \A h \in Host \ {task[c].host} : topology'[h] = topology[h]
              /\ topology'[task[c].host].status = StatusFor(task[c].audited)
            BY <1>0, <2>1, <2>2, ClaimEffect
        <3> QED
            BY <1>0, <2>1, <3>1, <3>2, StatusChanges
    <2>3. CASE topology[task[c].host].status # "present" /\ Resume(c)
        <3>1. topology' = topology /\ task'[c].at = "join"
            BY <1>0, <2>1, <2>3, ClaimEffect, ResumeEffect
        <3> QED
            BY <1>0, <2>1, <3>1, StatusStays
    <2> QED
        BY <1>5, <2>2, <2>3 DEF ClaimRemoval
<1>6. CASE StartCycle(c) \/ EndCycle(c) \/ Verdict(c)
    <2>1. /\ task[c].at \in {"sleep", "join", "verdict"} /\ UNCHANGED <<ledger, topology>>
        BY <1>6 DEF StartCycle, EndCycle, Verdict, At, tables
    <2>2. task'[c].at \in {"sleep", "join", "claimRemoval"}
        BY <1>0, <1>6, StartCycleStep, EndCycleStep, VerdictStep DEF Asleep
    <2> QED
        BY <1>0, <2>1, <2>2, StatusStays
<1>7. ASSUME NEW g \in Host, JoinNext(c, g) PROVE ExplainedInv'
    <2>1. /\ task[c].at = "join" /\ UNCHANGED <<ledger, topology>>
          /\ task'[c].at \in {"claimReappear", "countFailure"}
        BY <1>0, <1>7, JoinNextStep DEF JoinNext, At, tables
    <2> QED
        BY <1>0, <2>1, StatusStays
<1>8. ASSUME NEW g \in Host, ProbeOne(c, g) PROVE ExplainedInv'
    <2>1. /\ task'[c].at = task[c].at /\ task'[c].host = task[c].host
          /\ task'[c].audited = task[c].audited
        BY <1>0, <1>8, ProbeOneStep
    <2>2. UNCHANGED <<ledger, topology>>
        BY <1>8 DEF ProbeOne, tables
    <2> QED
        BY <1>0, <2>1, <2>2, SettledStays DEF ExplainedInv, UnderWay
<1>9. CASE ResetFailures(c) \/ CountFailure(c)
    <2>1. /\ task[c].at \in {"resetFailures", "countFailure"} /\ ledger' = ledger
          /\ Resume(c) \/ Goto(c, "verdict")
          /\ \E n : topology' = [topology EXCEPT ![task[c].host].failures = n]
        BY <1>9 DEF ResetFailures, CountFailure, At
    <2>2. \A h \in Host : topology'[h].status = topology[h].status
        BY <1>0, <2>1 DEF TopoRow
    <2>3. task'[c].at \in {"join", "verdict"}
        BY <1>0, <2>1, GotoEffect, ResumeEffect DEF Point
    <2> QED
        BY <1>0, <2>1, <2>2, <2>3, StatusStays
<1> QED
    BY <1>1, <1>2, <1>3, <1>4, <1>5, <1>6, <1>7, <1>8, <1>9 DEF ProbeStep, LoopStep

LEMMA ExplainedStep ==
    ASSUME SingleObserver, MaxFaults = 0, BaseInv, ExplainedInv, [Next]_vars
    PROVE  ExplainedInv'
<1>1. BaseInv /\ BaseInv' /\ TablesOK /\ TablesOK' /\ ~SyncStep /\ OneLoop
    BY BaseInvStep DEF BaseInv, ProbeInv, SyncStep, SingleObserver
<1>2. ASSUME NEW c \in Container, ProbeStep(c) PROVE ExplainedInv'
    BY <1>1, <1>2, ExplainedLoop
<1>3. ASSUME UNCHANGED <<topology, task>>,
             \A h \in Host : ExplainedStatus(h)' = ExplainedStatus(h)
      PROVE  ExplainedInv'
    BY <1>3 DEF ExplainedInv, Settled, UnderWay
<1>4. CASE UNCHANGED vars \/ TimePasses \/ \E g \in Host : Flip(g)
    <2>1. UNCHANGED <<topology, task, ledger>>
        BY <1>4 DEF vars, TimePasses, WindowPasses, Flip, tables, probeVars
    <2>2. \A h \in Host : ExplainedStatus(h)' = ExplainedStatus(h)
        BY <2>1 DEF ExplainedStatus, EntriesOf
    <2> QED
        BY <1>3, <2>1, <2>2
<1>5. ASSUME NEW g \in Host, NEW c \in Container, Authorize(c, g) PROVE ExplainedInv'
    <2>1. Record("allow", g, c) /\ UNCHANGED <<topology, task>> /\ "allow" \in Kind
        BY <1>5 DEF Authorize, probeVars, Kind
    <2> QED
        BY <1>1, <1>3, <2>1, ExplainedMoves
<1> QED
    BY <1>1, <1>2, <1>4, <1>5 DEF Next

\* With one container, no syncs and no faults, the ledger's newest entry about
\* a host explains its status, whatever the hosts, the window and the clock
\* (handle_success, handle_failure).
THEOREM LedgerExplainsStatus ==
    ASSUME SingleObserver, MaxFaults = 0
    PROVE  Spec => []StatusIsExplained
<1>0. OneLoop
    BY DEF SingleObserver
<1>1. ASSUME Init PROVE BaseInv /\ ExplainedInv
    <2>1. ASSUME NEW h \in Host PROVE Settled(h)
        <3>1. ExplainedStatus(h) = "present"
            BY <1>1 DEF Init, InitTables, ExplainedStatus, EntriesOf
        <3>2. topology[h].status \in {"absent", "present"}
            BY <1>1 DEF Init, InitTables
        <3> QED
            BY <3>1, <3>2 DEF Settled
    <2>2. task[Solo].at = "sleep"
        BY <1>0, <1>1, SoloLoop DEF Init, InitProbe, Asleep
    <2> QED
        BY <1>1, <2>1, <2>2, InitBaseInv DEF ExplainedInv
<1>2. BaseInv /\ ExplainedInv /\ [Next]_vars => (BaseInv /\ ExplainedInv)'
    BY BaseInvStep, ExplainedStep
<1>3. ExplainedInv => StatusIsExplained
    BY <1>0, SoloLoop DEF ExplainedInv, UnderWay, Settled, StatusIsExplained
<1> QED
    BY <1>1, <1>2, <1>3, PTL DEF Spec

-----------------------------------------------------------------------------
(* The counter and the probes it counts.                                   *)

CountedUp(n) == Min({n + 1, FailureCap})

LEMMA CountingUp ==
    ASSUME NEW m \in 0..FailureCap, NEW n \in 0..FailureCap, m <= n
    PROVE  /\ CountedUp(m) \in 0..FailureCap /\ CountedUp(n) \in 0..FailureCap
           /\ CountedUp(m) <= CountedUp(n) /\ m <= CountedUp(m)
<1>1. /\ CountedUp(m) = IF m < FailureCap THEN m + 1 ELSE FailureCap
      /\ CountedUp(n) = IF n < FailureCap THEN n + 1 ELSE FailureCap
    BY CountUp DEF CountedUp
<1> QED
    BY <1>1 DEF FailureCap

\* The counter of a host does not run ahead of the probes that failed in a row,
\* but for the moment after a success; a host on its way to be claimed has
\* failed three.
StreakInv ==
    /\ \A h \in Host :
          \/ topology[h].failures <= streak[h]
          \/ task[Solo].host = h /\ task[Solo].at \in {"claimReappear", "resetFailures"}
    /\ task[Solo].at = "countFailure" =>
          CountedUp(topology[task[Solo].host].failures) <= streak[task[Solo].host]
    /\ task[Solo].at \in {"verdict", "claimRemoval"} =>
          streak[task[Solo].host] >= Threshold

\* Others can only set the counter back.
LEMMA StreakStays ==
    ASSUME BaseInv, BaseInv', OneLoop, StreakInv, streak' = streak,
           task'[Solo].at = task[Solo].at, task'[Solo].host = task[Solo].host,
           \A h \in Host : topology'[h].failures <= topology[h].failures
    PROVE  StreakInv'
<1>1. /\ \A h \in Host : topology[h].failures \in 0..FailureCap
                           /\ topology'[h].failures \in 0..FailureCap
      /\ \A h \in Host : streak[h] \in 0..FailureCap
      /\ task[Solo].at = "countFailure" => task[Solo].host \in Host
    BY SoloLoop DEF BaseInv, ProbeInv, TablesOK, ProbeOK, LoopInv, TopoRow, Working
<1>2. ASSUME NEW h \in Host
      PROVE  \/ topology'[h].failures <= streak[h]
             \/ task[Solo].host = h /\ task[Solo].at \in {"claimReappear", "resetFailures"}
    BY <1>1 DEF StreakInv, FailureCap
<1>3. ASSUME task[Solo].at = "countFailure"
      PROVE  CountedUp(topology'[task[Solo].host].failures) <= streak[task[Solo].host]
    <2> DEFINE h == task[Solo].host
    <2>1. h \in Host /\ CountedUp(topology[h].failures) <= streak[h]
        BY <1>1, <1>3 DEF StreakInv
    <2>2. /\ CountedUp(topology'[h].failures) <= CountedUp(topology[h].failures)
          /\ CountedUp(topology'[h].failures) \in 0..FailureCap
          /\ CountedUp(topology[h].failures) \in 0..FailureCap
        BY <1>1, <2>1, CountingUp
    <2>3. streak[h] \in 0..FailureCap
        BY <1>1, <2>1
    <2> QED
        BY <2>1, <2>2, <2>3 DEF FailureCap
<1> QED
    BY <1>2, <1>3 DEF StreakInv

LEMMA StreakLoop ==
    ASSUME OneLoop, MaxFaults = 0, BaseInv, BaseInv', StreakInv,
           NEW c \in Container, ProbeStep(c)
    PROVE  StreakInv'
<1>0. /\ ProbeInv /\ TablesOK /\ TablesOK' /\ c = Solo /\ task[c].audited \in BOOLEAN
      /\ faults \in 0..0 /\ topology \in [Host -> TopoRow] /\ topology' \in [Host -> TopoRow]
      /\ streak \in [Host -> 0..FailureCap]
      /\ \A h \in Host : topology[h].failures \in 0..FailureCap
    BY SoloLoop DEF BaseInv, ProbeInv, ProbeOK, TablesOK, TopoRow
<1>1. ~StatementFails(c) /\ ~CrashProbe(c)
    BY <1>0 DEF StatementFails, CrashProbe
<1>2. ASSUME NEW h \in Host, JoinNext(c, h) PROVE StreakInv'
    <2> DEFINE n == IF task[c].results[h] = "ok" THEN 0 ELSE CountedUp(streak[h])
    <2>1. /\ topology' = topology /\ task[c].at = "join"
          /\ task'[c].at = (IF task[c].results[h] = "ok" THEN "claimReappear"
                            ELSE "countFailure")
          /\ task'[c].host = h /\ streak' = [streak EXCEPT ![h] = n]
        BY <1>0, <1>2, JoinNextStep DEF JoinNext, At, tables, CountedUp
    <2>2. \A g \in Host : topology[g].failures <= streak[g]
        BY <1>0, <2>1 DEF StreakInv
    <2>3. /\ streak'[h] = n
          /\ \A g \in Host \ {h} : streak'[g] = streak[g]
        BY <1>0, <2>1
    <2>4. CASE task[c].results[h] = "ok"
        BY <1>0, <2>1, <2>2, <2>3, <2>4 DEF StreakInv
    <2>5. CASE task[c].results[h] # "ok"
        <3>1. /\ CountedUp(topology[h].failures) <= CountedUp(streak[h])
              /\ topology[h].failures <= CountedUp(topology[h].failures)
              /\ CountedUp(topology[h].failures) \in 0..FailureCap
              /\ CountedUp(streak[h]) \in 0..FailureCap
            BY <1>0, <2>2, CountingUp
        <3>2. topology[h].failures <= CountedUp(streak[h])
            BY <1>0, <3>1 DEF FailureCap
        <3>3. streak'[h] = CountedUp(streak[h])
            BY <2>3, <2>5
        <3> QED
            BY <1>0, <2>1, <2>2, <2>3, <2>5, <3>1, <3>2, <3>3 DEF StreakInv
    <2> QED
        BY <2>4, <2>5
<1>3. CASE CountFailure(c)
    <2> DEFINE h == task[c].host
               n == CountedUp(topology[h].failures)
    <2>1. /\ task[c].at = "countFailure" /\ h \in Host /\ streak' = streak
          /\ topology' = [topology EXCEPT ![h].failures = n]
          /\ \/ Due(n) /\ Goto(c, "verdict")
             \/ Resume(c)
        BY <1>0, <1>3, AtWork DEF CountFailure, At, Working, CountedUp
    <2>2. n <= streak[h]
        BY <1>0, <2>1 DEF StreakInv
    <2>3. n \in 0..FailureCap
        BY <1>0, <2>1, CountingUp
    <2> HIDE DEF n
    <2>4. topology'[h].failures = n /\ \A g \in Host \ {h} : topology'[g] = topology[g]
        BY <1>0, <2>1 DEF TopoRow
    <2>5. \A g \in Host : topology'[g].failures <= streak[g]
        BY <1>0, <2>1, <2>2, <2>4 DEF StreakInv
    <2>6. CASE Due(n) /\ Goto(c, "verdict")
        <3>1. task'[c].at = "verdict" /\ task'[c].host = h
            BY <1>0, <2>6, GotoEffect DEF Point
        <3>2. n >= Threshold /\ streak[h] \in 0..FailureCap
            BY <1>0, <2>1, <2>6 DEF Due
        <3>3. streak[h] >= Threshold
            BY <2>2, <2>3, <3>2 DEF Threshold, FailureCap
        <3> QED
            BY <1>0, <2>1, <2>5, <3>1, <3>3 DEF StreakInv
    <2>7. CASE Resume(c)
        <3>1. task'[c].at = "join"
            BY <1>0, <2>7, ResumeEffect
        <3> QED
            BY <1>0, <2>1, <2>5, <3>1 DEF StreakInv
    <2> QED
        BY <2>1, <2>6, <2>7
<1>4. CASE ClaimReappear(c)
    <2>1. /\ task[c].at = "claimReappear" /\ task[c].host \in Host /\ streak' = streak
        BY <1>0, <1>4, AtWork DEF ClaimReappear, At, Working
    <2>2. CASE /\ topology' = [topology EXCEPT ![task[c].host]
                                    = [status |-> "present", failures |-> 0]]
               /\ Goto(c, "recordReappear")
        <3>1. task'[c].at = "recordReappear"
            BY <1>0, <2>2, GotoEffect DEF Point
        <3>2. /\ \A h \in Host \ {task[c].host} : topology'[h] = topology[h]
              /\ topology'[task[c].host].failures = 0
            BY <1>0, <2>1, <2>2
        <3>3. \A h \in Host : topology'[h].failures <= streak[h]
            BY <1>0, <2>1, <3>2 DEF StreakInv, FailureCap
        <3> QED
            BY <1>0, <2>1, <3>1, <3>3 DEF StreakInv
    <2>3. CASE topology' = topology /\ Goto(c, "resetFailures")
        <3>1. task'[c].at = "resetFailures" /\ task'[c].host = task[c].host
            BY <1>0, <2>3, GotoEffect DEF Point
        <3> QED
            BY <1>0, <2>1, <2>3, <3>1 DEF StreakInv
    <2> QED
        BY <1>4, <2>2, <2>3 DEF ClaimReappear
<1>5. CASE ResetFailures(c)
    <2>1. /\ task[c].at = "resetFailures" /\ task[c].host \in Host /\ streak' = streak
          /\ topology' = [topology EXCEPT ![task[c].host].failures = 0] /\ Resume(c)
        BY <1>0, <1>5, AtWork DEF ResetFailures, At, Working
    <2>2. /\ \A h \in Host \ {task[c].host} : topology'[h] = topology[h]
          /\ topology'[task[c].host].failures = 0
        BY <1>0, <2>1 DEF TopoRow
    <2>3. \A h \in Host : topology'[h].failures <= streak[h]
        BY <1>0, <2>1, <2>2 DEF StreakInv, FailureCap
    <2>4. task'[c].at = "join"
        BY <1>0, <2>1, ResumeEffect
    <2> QED
        BY <1>0, <2>1, <2>3, <2>4 DEF StreakInv
<1>6. ASSUME \A h \in Host : topology'[h].failures = topology[h].failures, streak' = streak,
             task[c].at \notin {"claimReappear", "resetFailures"},
             \/ task'[c].at \in {"sleep", "join", "recordRemoval"}
             \/ task'[c].at = "claimRemoval" /\ task'[c].host = task[c].host
                /\ task[c].at = "verdict"
      PROVE  StreakInv'
    BY <1>0, <1>6 DEF StreakInv
<1>7. CASE StartCycle(c) \/ EndCycle(c) \/ Verdict(c)
    <2>1. /\ task[c].at \in {"sleep", "join", "verdict"} /\ UNCHANGED <<streak, topology>>
        BY <1>7 DEF StartCycle, EndCycle, Verdict, At, tables
    <2>2. \/ task'[c].at \in {"sleep", "join"}
          \/ task'[c].at = "claimRemoval" /\ task'[c].host = task[c].host
             /\ task[c].at = "verdict"
        BY <1>0, <1>7, StartCycleStep, EndCycleStep, VerdictStep DEF Asleep, Verdict, At
    <2> QED
        BY <1>6, <2>1, <2>2
<1>8. CASE RecordReappear(c) \/ RecordRemoval(c)
    <2>1. /\ task[c].at \in {"recordReappear", "recordRemoval"} /\ Resume(c)
          /\ UNCHANGED <<streak, topology>>
        BY <1>8 DEF RecordReappear, RecordRemoval, At
    <2>2. task'[c].at = "join"
        BY <1>0, <2>1, ResumeEffect
    <2> QED
        BY <1>6, <2>1, <2>2
<1>9. CASE ClaimRemoval(c)
    <2>1. /\ task[c].at = "claimRemoval" /\ task[c].host \in Host /\ streak' = streak
          /\ ClaimRemoved(task[c].host, task[c].audited)
          /\ Goto(c, "recordRemoval") \/ Resume(c)
        BY <1>0, <1>9, AtWork DEF ClaimRemoval, At, Working
    <2>2. \A h \in Host : topology'[h].failures = topology[h].failures
        BY <1>0, <2>1, ClaimEffect
    <2>3. task'[c].at \in {"join", "recordRemoval"}
        BY <1>0, <2>1, GotoEffect, ResumeEffect DEF Point
    <2> QED
        BY <1>6, <2>1, <2>2, <2>3
<1>10. ASSUME NEW g \in Host, ProbeOne(c, g) PROVE StreakInv'
    <2>1. /\ task'[c].at = task[c].at /\ task'[c].host = task[c].host
          /\ UNCHANGED <<streak, topology>>
        BY <1>0, <1>10, ProbeOneStep DEF ProbeOne, tables
    <2> QED
        BY <1>0, <2>1 DEF StreakInv
<1> QED
    BY <1>1, <1>2, <1>3, <1>4, <1>5, <1>7, <1>8, <1>9, <1>10 DEF ProbeStep, LoopStep

LEMMA StreakStep ==
    ASSUME OneLoop, MaxFaults = 0, BaseInv, StreakInv, [Next]_vars
    PROVE  StreakInv'
<1>1. /\ BaseInv' /\ TablesOK /\ TablesOK' /\ SyncInv
      /\ \A h \in Host : topology[h].failures \in 0..FailureCap
    BY BaseInvStep DEF BaseInv, ProbeInv, TablesOK, TopoRow
<1>2. ASSUME NEW c \in Container, ProbeStep(c) PROVE StreakInv'
    BY <1>1, <1>2, StreakLoop
<1>3. CASE SyncStep /\ UNCHANGED probeVars
    <2> DEFINE NoneUp == \A g \in Host : topology'[g].failures <= topology[g].failures
    <2>1. ASSUME NEW q \in Request, NEW h \in Host, SyncUpsert(q, h) PROVE NoneUp
        <3>1. /\ topology'[h] = [status |-> "present", failures |-> 0]
              /\ \A g \in Host : g # h => topology'[g] = topology[g]
            BY <1>1, <2>1, SyncUpsertStep
        <3>2. topology'[h].failures = 0
            BY <3>1
        <3> QED
            BY <1>1, <3>1, <3>2 DEF FailureCap
    <2>2. ASSUME NEW q \in Request, SyncClaim(q) PROVE NoneUp
        BY <1>1, <2>2, SyncClaimStep, ClaimEffect DEF FailureCap
    <2>3. ASSUME \A q \in Request : ~SyncClaim(q) /\ \A h \in Host : ~SyncUpsert(q, h)
          PROVE  NoneUp
        <3>1. topology' = topology
            BY <1>3, <2>3 DEF SyncStep, HandlerStep, SyncBegin, SyncVerdict,
               SyncRecord, SyncEnd, SyncAbort, tables
        <3> QED
            BY <1>1, <3>1 DEF FailureCap
    <2>4. NoneUp
        BY <2>1, <2>2, <2>3
    <2> QED
        BY <1>1, <1>3, <2>4, StreakStays DEF probeVars
<1>4. CASE UNCHANGED <<topology, task, streak>>
    BY <1>4 DEF StreakInv
<1> QED
    BY <1>2, <1>3, <1>4, EnvironmentLeaves DEF Next

\* With one container and no faults, whatever syncs come in between, a host is
\* claimed as removed only after three failed probes in a row
\* (handle_failure; README.md:21).
THEOREM ThreeFailuresBeforeRemoval ==
    ASSUME OneLoop, MaxFaults = 0
    PROVE  Spec => RemovedAfterThreeFailures
<1> DEFINE Enough ==
        \A c \in Container :
          At(c, "claimRemoval") /\ task'[c].at = "recordRemoval"
          => streak[task[c].host] >= Threshold
<1>1. Init => BaseInv /\ StreakInv
    <2>1. ASSUME Init PROVE StreakInv
        <3>1. task[Solo].at = "sleep"
            BY <2>1, SoloLoop DEF Init, InitProbe, Asleep
        <3>2. \A h \in Host : topology[h].failures = 0 /\ streak[h] = 0
            BY <2>1 DEF Init, InitProbe, InitTables
        <3> QED
            BY <3>1, <3>2 DEF StreakInv
    <2> QED
        BY <2>1, InitBaseInv
<1>2. BaseInv /\ StreakInv /\ [Next]_vars => (BaseInv /\ StreakInv)'
    BY BaseInvStep, StreakStep
<1>3. StreakInv => Enough
    BY SoloLoop DEF StreakInv, At
<1>4. BaseInv /\ StreakInv /\ [Next]_vars => [Enough]_vars
    BY <1>3
<1> QED
    BY <1>1, <1>2, <1>4, PTL DEF Spec, RemovedAfterThreeFailures
=============================================================================
