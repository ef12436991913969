--------------------------- MODULE ObserveProofs ---------------------------
(***************************************************************************)
(* Proofs about Observe for any number of loops, sync requests, hosts,     *)
(* faults and clocks.                                                      *)
(*                                                                         *)
(* The argument in one paragraph.  Of the claims of one verdict, each has  *)
(* its entry, or an observer that owes it, or a fault that lost it         *)
(* (Balanced).  An entry's ts says when it was written up to the spread of *)
(* the clocks (Timed), so a verdict can only take an allow for unspent if  *)
(* fewer audits than the spread have spent it; and each observer keeps at  *)
(* most one verdict about a host, which it gives up with the audit         *)
(* (SpentInv).                                                             *)
(***************************************************************************)
EXTENDS Observe, ProbeProofs, WellFoundedInduction

-----------------------------------------------------------------------------
(* Types, and what a sync handler knows.                                   *)

Handlers ==
    [at : {"waiting", "rows", "claim", "record", "ended"}, container : Container,
     upserts : SUBSET Host, missing : SUBSET Host,
     host : Host \cup {NoHost}, audited : BOOLEAN]

\* A handler has a host and a verdict only while it claims and records.
SyncInv ==
    /\ sync \in [Request -> Handlers]
    /\ late \in [Host -> [audited : Nat, unaudited : Nat]]
    /\ \A q \in Request :
          /\ sync[q].at \in {"claim", "record"} => sync[q].host \in Host
          /\ sync[q].audited => sync[q].at \in {"claim", "record"}

BaseInv ==
    /\ ProbeInv /\ SyncInv
    /\ flips \in 0..MaxFlips /\ allows \in 0..MaxAllows

LEMMA RestTypes ==
    /\ Waiting \in Handlers /\ Waiting.at = "waiting" /\ Waiting.audited = FALSE
    /\ Ended \in Handlers /\ Ended.at = "ended" /\ Ended.audited = FALSE
<1>1. (CHOOSE c \in Container : TRUE) \in Container
    BY ContainerAssumption
<1> QED
    BY <1>1 DEF Waiting, Ended, Handlers

\* What is left to show when one handler has moved.
LEMMA SyncMoved ==
    ASSUME SyncInv, NEW q \in Request, NEW s \in Handlers, sync' = [sync EXCEPT ![q] = s],
           late' \in [Host -> [audited : Nat, unaudited : Nat]],
           s.at \in {"claim", "record"} => s.host \in Host,
           s.audited => s.at \in {"claim", "record"}
    PROVE  /\ SyncInv' /\ sync'[q] = s
           /\ \A p \in Request : p # q => sync'[p] = sync[p]
BY DEF SyncInv

LEMMA SyncBeginStep ==
    ASSUME SyncInv, NEW q \in Request, NEW c \in Container, SyncBegin(q, c)
    PROVE  /\ SyncInv' /\ UNCHANGED <<tables, late>>
           /\ sync[q].at = "waiting" /\ sync'[q].at = "rows" /\ sync'[q].audited = FALSE
           /\ \A p \in Request : p # q => sync'[p] = sync[p]
<1>1. PICK snapshot \in SUBSET Host :
        sync' = [sync EXCEPT ![q] = [Waiting EXCEPT !.at = "rows", !.container = c,
                                                    !.upserts = snapshot,
                                                    !.missing = Missing(snapshot)]]
    BY DEF SyncBegin
<1> DEFINE missing == Missing(snapshot)
<1>2. missing \in SUBSET Host
    BY DEF Missing
<1>3. sync' = [sync EXCEPT ![q] = [Waiting EXCEPT !.at = "rows", !.container = c,
                                                  !.upserts = snapshot, !.missing = missing]]
    BY <1>1
<1> HIDE DEF missing
<1> DEFINE s == [Waiting EXCEPT !.at = "rows", !.container = c,
                                !.upserts = snapshot, !.missing = missing]
<1>4. s \in Handlers /\ s.at = "rows" /\ s.audited = FALSE
    BY <1>2, RestTypes DEF Handlers
<1>5. UNCHANGED <<tables, late>> /\ sync[q].at = "waiting"
    BY DEF SyncBegin, Handling
<1>6. late' \in [Host -> [audited : Nat, unaudited : Nat]] /\ sync' = [sync EXCEPT ![q] = s]
    BY <1>3, <1>5 DEF SyncInv
<1> HIDE DEF s
<1> QED
    BY <1>4, <1>5, <1>6, SyncMoved

LEMMA SyncUpsertStep ==
    ASSUME SyncInv, TablesOK, NEW q \in Request, NEW h \in Host, SyncUpsert(q, h)
    PROVE  /\ SyncInv' /\ TablesOK' /\ UNCHANGED <<ledger, now, faults, removals, late>>
           /\ sync[q].at = "rows" /\ sync'[q].at = "rows" /\ sync'[q].audited = FALSE
           /\ \A p \in Request : p # q => sync'[p] = sync[p]
           /\ topology'[h] = [status |-> "present", failures |-> 0]
           /\ \A g \in Host : g # h => topology'[g] = topology[g]
<1>1. /\ sync[q].at = "rows"
      /\ sync' = [sync EXCEPT ![q].upserts = @ \ {h}]
      /\ topology' = [topology EXCEPT ![h] = [status |-> "present", failures |-> 0]]
      /\ UNCHANGED <<ledger, now, faults, removals, late>>
    BY DEF SyncUpsert, Handling
<1> DEFINE s == [sync[q] EXCEPT !.upserts = @ \ {h}]
<1>2. sync[q] \in Handlers /\ sync[q].audited = FALSE
    BY <1>1 DEF SyncInv, Handlers
<1>3. s \in Handlers /\ s.at = "rows" /\ s.audited = FALSE /\ sync' = [sync EXCEPT ![q] = s]
    BY <1>1, <1>2 DEF Handlers
<1>4. late' \in [Host -> [audited : Nat, unaudited : Nat]]
    BY <1>1 DEF SyncInv
<1> HIDE DEF s
<1>5. SyncInv' /\ sync'[q] = s /\ \A p \in Request : p # q => sync'[p] = sync[p]
    BY <1>3, <1>4, SyncMoved
<1>6. TablesOK'
    BY <1>1, Present, RowType
<1> QED
    BY <1>1, <1>3, <1>5, <1>6 DEF TablesOK

LEMMA SyncVerdictStep ==
    ASSUME SyncInv, TablesOK, NEW q \in Request, NEW h \in Host, SyncVerdict(q, h)
    PROVE  /\ SyncInv' /\ TablesOK' /\ UNCHANGED <<topology, ledger, now, removals, late>>
           /\ sync[q].at = "rows" /\ sync[q].audited = FALSE
           /\ sync'[q].at = "claim" /\ sync'[q].host = h
           /\ sync'[q].audited => RecentAllowExists(h)
           /\ \A p \in Request : p # q => sync'[p] = sync[p]
           /\ faults' = faults \/ (faults < MaxFaults /\ faults' = faults + 1)
<1>1. \E v \in BOOLEAN :
        /\ sync' = [sync EXCEPT ![q].at = "claim", ![q].host = h, ![q].audited = v]
        /\ v => RecentAllowExists(h)
    BY DEF SyncVerdict, RecentAllowExists
<1>2. PICK v \in BOOLEAN :
        /\ sync' = [sync EXCEPT ![q].at = "claim", ![q].host = h, ![q].audited = v]
        /\ v => RecentAllowExists(h)
    BY <1>1
<1>3. /\ sync[q].at = "rows" /\ UNCHANGED <<topology, ledger, now, removals, late>>
      /\ UNCHANGED tables \/ (faults < MaxFaults /\ faults' = faults + 1)
    BY DEF SyncVerdict, Handling, tables
<1> DEFINE s == [sync[q] EXCEPT !.at = "claim", !.host = h, !.audited = v]
<1>4. sync[q] \in Handlers /\ sync[q].audited = FALSE
    BY <1>3 DEF SyncInv, Handlers
<1>5. /\ s \in Handlers /\ s.at = "claim" /\ s.host = h /\ s.audited = v
      /\ sync' = [sync EXCEPT ![q] = s]
    BY <1>2, <1>4 DEF Handlers
<1>6. late' \in [Host -> [audited : Nat, unaudited : Nat]]
    BY <1>3 DEF SyncInv
<1> HIDE DEF s
<1>7. SyncInv' /\ sync'[q] = s /\ \A p \in Request : p # q => sync'[p] = sync[p]
    BY <1>5, <1>6, SyncMoved
<1>8. TablesOK' /\ (faults' = faults \/ (faults < MaxFaults /\ faults' = faults + 1))
    BY <1>3, FaultType, TablesUnchanged DEF tables
<1> QED
    BY <1>2, <1>3, <1>4, <1>5, <1>7, <1>8

\* The claim counts, on one side or the other.
LEMMA SyncClaimStep ==
    ASSUME SyncInv, TablesOK, NEW q \in Request, SyncClaim(q)
    PROVE  /\ SyncInv' /\ TablesOK' /\ UNCHANGED <<ledger, now, faults>>
           /\ sync[q].host \in Host /\ sync[q].audited \in BOOLEAN
           /\ sync[q].at = "claim" /\ sync'[q].at = "record" /\ sync'[q].host = sync[q].host
           /\ sync'[q].audited = sync[q].audited
           /\ \A p \in Request : p # q => sync'[p] = sync[p]
           /\ ClaimRemoved(sync[q].host, sync[q].audited)
           /\ \A h \in Host : h # sync[q].host => late'[h] = late[h]
           /\ topology[sync[q].host].status = "present" => late' = late
           /\ topology[sync[q].host].status # "present" =>
                /\ late'[sync[q].host].audited =
                      late[sync[q].host].audited + (IF sync[q].audited THEN 1 ELSE 0)
                /\ late'[sync[q].host].unaudited =
                      late[sync[q].host].unaudited + (IF sync[q].audited THEN 0 ELSE 1)
<1> DEFINE h == sync[q].host
           s == [sync[q] EXCEPT !.at = "record"]
<1>1. /\ sync[q].at = "claim" /\ sync' = [sync EXCEPT ![q].at = "record"]
      /\ ClaimRemoved(h, sync[q].audited) /\ UNCHANGED <<ledger, now, faults>>
      /\ late' = IF topology[h].status = "present" THEN late
                 ELSE IF sync[q].audited THEN [late EXCEPT ![h].audited = @ + 1]
                                         ELSE [late EXCEPT ![h].unaudited = @ + 1]
    BY DEF SyncClaim, Handling
<1>2. sync[q] \in Handlers /\ h \in Host /\ sync[q].audited \in BOOLEAN
    BY <1>1 DEF SyncInv, Handlers
<1>3. /\ s \in Handlers /\ s.at = "record" /\ s.host = h /\ s.audited = sync[q].audited
      /\ sync' = [sync EXCEPT ![q] = s]
    BY <1>1, <1>2 DEF Handlers
<1>4. late \in [Host -> [audited : Nat, unaudited : Nat]]
    BY DEF SyncInv
<1>5. TablesOK'
    BY <1>1, <1>2, ClaimType
<1> HIDE DEF s, h
<1>6. /\ late' \in [Host -> [audited : Nat, unaudited : Nat]]
      /\ \A g \in Host : g # h => late'[g] = late[g]
      /\ topology[h].status # "present" =>
            /\ late'[h].audited = late[h].audited + (IF sync[q].audited THEN 1 ELSE 0)
            /\ late'[h].unaudited = late[h].unaudited + (IF sync[q].audited THEN 0 ELSE 1)
    <2>1. CASE topology[h].status = "present"
        BY <1>1, <1>4, <2>1
    <2>2. CASE topology[h].status # "present" /\ sync[q].audited
        BY <1>1, <1>2, <1>4, <2>2
    <2>3. CASE topology[h].status # "present" /\ ~sync[q].audited
        BY <1>1, <1>2, <1>4, <2>3
    <2> QED
        BY <2>1, <2>2, <2>3
<1>7. SyncInv' /\ sync'[q] = s /\ \A p \in Request : p # q => sync'[p] = sync[p]
    BY <1>2, <1>3, <1>6, SyncMoved
<1> QED
    BY <1>1, <1>2, <1>3, <1>5, <1>6, <1>7 DEF h

LEMMA SyncRecordStep ==
    ASSUME SyncInv, TablesOK, NEW q \in Request, SyncRecord(q)
    PROVE  /\ SyncInv' /\ TablesOK' /\ UNCHANGED <<topology, faults, removals, late>>
           /\ Record(IF sync[q].audited THEN "audit" ELSE "drift",
                     sync[q].host, sync[q].container)
           /\ sync[q].host \in Host /\ sync[q].container \in Container
           /\ sync[q].audited \in BOOLEAN
           /\ sync[q].at = "record" /\ sync'[q].at = "rows" /\ sync'[q].audited = FALSE
           /\ \A p \in Request : p # q => sync'[p] = sync[p]
<1> DEFINE kind == IF sync[q].audited THEN "audit" ELSE "drift"
           s == [sync[q] EXCEPT !.at = "rows", !.missing = @ \ {sync[q].host},
                                !.host = NoHost, !.audited = FALSE]
<1>1. /\ sync[q].at = "record"
      /\ sync' = [sync EXCEPT ![q].at = "rows", ![q].missing = @ \ {sync[q].host},
                              ![q].host = NoHost, ![q].audited = FALSE]
      /\ Record(kind, sync[q].host, sync[q].container)
      /\ UNCHANGED <<topology, faults, removals, late>>
    BY DEF SyncRecord, Handling
<1>2. /\ sync[q] \in Handlers /\ sync[q].host \in Host /\ sync[q].container \in Container
      /\ sync[q].audited \in BOOLEAN /\ kind \in Kind
    BY <1>1 DEF SyncInv, Handlers, Kind
<1>3. s \in Handlers /\ s.at = "rows" /\ s.audited = FALSE /\ sync' = [sync EXCEPT ![q] = s]
    BY <1>1, <1>2 DEF Handlers
<1> HIDE DEF kind, s
<1>4. late' \in [Host -> [audited : Nat, unaudited : Nat]]
    BY <1>1 DEF SyncInv
<1>5. SyncInv' /\ sync'[q] = s /\ \A p \in Request : p # q => sync'[p] = sync[p]
    BY <1>3, <1>4, SyncMoved
<1>6. TablesOK'
    BY <1>1, <1>2, RecordType DEF TablesOK
<1> QED
    BY <1>1, <1>2, <1>3, <1>5, <1>6 DEF kind

LEMMA SyncEndStep ==
    ASSUME SyncInv, TablesOK, NEW q \in Request, SyncEnd(q)
    PROVE  /\ SyncInv' /\ TablesOK' /\ UNCHANGED <<topology, faults, removals, late>>
           /\ Record("sync", NoHost, sync[q].container) /\ sync[q].container \in Container
           /\ sync[q].at = "rows" /\ sync'[q].at = "ended" /\ sync'[q].audited = FALSE
           /\ \A p \in Request : p # q => sync'[p] = sync[p]
<1>1. /\ sync[q].at = "rows" /\ sync' = [sync EXCEPT ![q] = Ended]
      /\ Record("sync", NoHost, sync[q].container)
      /\ UNCHANGED <<topology, faults, removals, late>>
    BY DEF SyncEnd, Handling
<1>2. /\ sync[q].container \in Container
      /\ late' \in [Host -> [audited : Nat, unaudited : Nat]]
    BY <1>1 DEF SyncInv, Handlers
<1>3. SyncInv' /\ sync'[q] = Ended /\ \A p \in Request : p # q => sync'[p] = sync[p]
    BY <1>1, <1>2, RestTypes, SyncMoved
<1>4. TablesOK'
    BY <1>1, <1>2, RecordType DEF TablesOK, Kind
<1> QED
    BY <1>1, <1>2, <1>3, <1>4, RestTypes

LEMMA SyncAbortStep ==
    ASSUME SyncInv, TablesOK, NEW q \in Request, SyncAbort(q)
    PROVE  /\ SyncInv' /\ TablesOK' /\ UNCHANGED <<topology, ledger, now, removals, late>>
           /\ faults' = faults + 1 /\ sync'[q].at = "ended" /\ sync'[q].audited = FALSE
           /\ \A p \in Request : p # q => sync'[p] = sync[p]
<1>1. /\ sync' = [sync EXCEPT ![q] = Ended] /\ UNCHANGED <<topology, ledger, now, removals, late>>
      /\ faults < MaxFaults /\ faults' = faults + 1
    BY DEF SyncAbort
<1>2. late' \in [Host -> [audited : Nat, unaudited : Nat]]
    BY <1>1 DEF SyncInv
<1>3. SyncInv' /\ sync'[q] = Ended /\ \A p \in Request : p # q => sync'[p] = sync[p]
    BY <1>1, <1>2, RestTypes, SyncMoved
<1> QED
    BY <1>1, <1>3, RestTypes, FaultType

LEMMA SyncUnchanged ==
    ASSUME SyncInv, UNCHANGED syncVars
    PROVE  SyncInv'
BY DEF SyncInv, syncVars

LEMMA AuthorizeStep ==
    ASSUME BaseInv, NEW c \in Container, NEW h \in Host, Authorize(c, h)
    PROVE  BaseInv'
<1>1. TablesOK'
    BY RecordType DEF Authorize, BaseInv, ProbeInv, Kind, TablesOK
<1>2. ProbeInv'
    BY <1>1, ProbeUnchanged DEF Authorize, probeVars, BaseInv, ProbeInv, ProbeOK
<1>3. SyncInv'
    BY SyncUnchanged DEF Authorize, BaseInv
<1>4. flips' \in 0..MaxFlips /\ allows' \in 0..MaxAllows
    BY EnvironmentAssumption DEF Authorize, BaseInv
<1> QED
    BY <1>2, <1>3, <1>4 DEF BaseInv

LEMMA FlipStep ==
    ASSUME BaseInv, NEW h \in Host, Flip(h)
    PROVE  BaseInv'
<1>1. TablesOK'
    BY TablesUnchanged DEF Flip, BaseInv, ProbeInv
<1>2. answers' \in [Host -> BOOLEAN]
    BY DEF Flip, BaseInv, ProbeInv, ProbeOK
<1>3. ProbeInv'
    BY <1>1, <1>2, ProbeUnchanged DEF Flip, BaseInv
<1>4. SyncInv'
    BY SyncUnchanged DEF Flip, BaseInv
<1>5. flips' \in 0..MaxFlips /\ allows' \in 0..MaxAllows
    BY EnvironmentAssumption DEF Flip, BaseInv
<1> QED
    BY <1>3, <1>4, <1>5 DEF BaseInv

LEMMA TimePassesStep ==
    ASSUME BaseInv, TimePasses
    PROVE  BaseInv' /\ now' >= now /\ now \in Nat
<1>1. TablesOK' /\ now' >= now /\ now \in Nat
    BY BoundAssumption DEF TimePasses, WindowPasses, BaseInv, ProbeInv, TablesOK
<1>2. ProbeInv'
    BY <1>1, ProbeUnchanged DEF TimePasses, probeVars, BaseInv, ProbeInv, ProbeOK
<1>3. SyncInv'
    BY SyncUnchanged DEF TimePasses, BaseInv
<1> QED
    BY <1>1, <1>2, <1>3 DEF BaseInv, TimePasses

LEMMA SyncStepTypes ==
    ASSUME SyncInv, TablesOK, SyncStep
    PROVE  SyncInv' /\ TablesOK'
<1>1. PICK q \in Request :
        (\E c \in Container : SyncBegin(q, c)) \/ HandlerStep(q) \/ SyncAbort(q)
    BY DEF SyncStep
<1>2. CASE \E c \in Container : SyncBegin(q, c)
    BY <1>2, SyncBeginStep, TablesUnchanged
<1>3. CASE HandlerStep(q)
    BY <1>3, SyncUpsertStep, SyncVerdictStep, SyncClaimStep, SyncRecordStep, SyncEndStep
       DEF HandlerStep
<1>4. CASE SyncAbort(q)
    BY <1>4, SyncAbortStep
<1> QED
    BY <1>1, <1>2, <1>3, <1>4

LEMMA BaseInvStep ==
    ASSUME BaseInv, [Next]_vars
    PROVE  BaseInv'
<1>1. ASSUME NEW c \in Container, ProbeStep(c), UNCHANGED <<syncVars, flips, allows>>
      PROVE  BaseInv'
    BY <1>1, ProbeInvStep, SyncUnchanged DEF BaseInv
<1>2. CASE SyncStep /\ UNCHANGED <<probeVars, flips, allows>>
    <2>1. SyncInv' /\ TablesOK'
        BY <1>2, SyncStepTypes DEF BaseInv, ProbeInv
    <2>2. ProbeInv'
        BY <1>2, <2>1, ProbeUnchanged DEF BaseInv, ProbeInv, ProbeOK, probeVars
    <2> QED
        BY <1>2, <2>1, <2>2 DEF BaseInv
<1>3. CASE UNCHANGED vars
    <2>1. TablesOK'
        BY <1>3, TablesUnchanged DEF vars, BaseInv, ProbeInv
    <2>2. ProbeInv'
        BY <1>3, <2>1, ProbeUnchanged DEF vars, probeVars, BaseInv, ProbeInv, ProbeOK
    <2> QED
        BY <1>3, <2>2, SyncUnchanged DEF vars, BaseInv
<1> QED
    BY <1>1, <1>2, <1>3, AuthorizeStep, FlipStep, TimePassesStep DEF Next

LEMMA InitBaseInv ==
    ASSUME Init
    PROVE  BaseInv
<1>1. ProbeInv
    BY InitProbeInv DEF Init
<1>2. SyncInv
    BY RestTypes DEF Init, InitSync, SyncInv
<1> QED
    BY <1>1, <1>2, EnvironmentAssumption DEF Init, BaseInv

\* Loops, sync handlers and callers of any number keep the types of the two
\* tables and of their own variables.
THEOREM TypeCorrect == Spec => []TypeOK
<1>1. BaseInv => TypeOK
    BY DEF BaseInv, ProbeInv, SyncInv, Handlers, TypeOK, SyncOK
<1> QED
    BY <1>1, InitBaseInv, BaseInvStep, PTL DEF Spec

-----------------------------------------------------------------------------
(* The ledger, step by step.                                               *)

\* A step appends one entry or none.
LEMMA LedgerMoves ==
    ASSUME BaseInv, [Next]_vars
    PROVE  \/ ledger' = ledger /\ now' >= now
           \/ \E kind \in Kind, h \in Host \cup {NoHost}, c \in Container : Record(kind, h, c)
<1>0. now \in Nat /\ TablesOK /\ SyncInv /\ ProbeInv
    BY DEF BaseInv, ProbeInv, TablesOK
<1>1. UNCHANGED <<ledger, now>> => ledger' = ledger /\ now' >= now
    BY <1>0
<1>2. ASSUME NEW c \in Container, ProbeStep(c)
      PROVE  UNCHANGED <<ledger, now>> \/ \E kind \in Kind, h \in Host : Record(kind, h, c)
    <2>1. CASE RecordReappear(c)
        BY <1>0, <2>1, AtWork DEF RecordReappear, At, Working, Kind
    <2>2. CASE RecordRemoval(c)
        BY <1>0, <2>2, AtWork DEF RecordRemoval, At, Working, Kind
    <2>3. CASE ~RecordReappear(c) /\ ~RecordRemoval(c)
        BY <1>2, <2>3 DEF ProbeStep, LoopStep, StartCycle, ProbeOne, JoinNext, EndCycle,
           ClaimReappear, ResetFailures, CountFailure, Verdict, ClaimRemoval, StatementFails,
           CrashProbe, tables
    <2> QED
        BY <2>1, <2>2, <2>3
<1>3. ASSUME SyncStep
      PROVE  UNCHANGED <<ledger, now>> \/
             \E kind \in Kind, h \in Host \cup {NoHost}, c \in Container : Record(kind, h, c)
    <2>1. ASSUME NEW q \in Request, SyncRecord(q)
          PROVE  \E kind \in Kind, h \in Host \cup {NoHost}, c \in Container : Record(kind, h, c)
        BY <1>0, <2>1, SyncRecordStep DEF Kind
    <2>2. ASSUME NEW q \in Request, SyncEnd(q)
          PROVE  \E kind \in Kind, h \in Host \cup {NoHost}, c \in Container : Record(kind, h, c)
        BY <1>0, <2>2, SyncEndStep DEF Kind
    <2>3. CASE \A q \in Request : ~SyncRecord(q) /\ ~SyncEnd(q)
        BY <1>3, <2>3 DEF SyncStep, HandlerStep, SyncBegin, SyncUpsert, SyncVerdict,
           SyncClaim, SyncAbort, tables
    <2> QED
        BY <2>1, <2>2, <2>3
<1>4. ASSUME NEW h \in Host, NEW c \in Container, Authorize(c, h) PROVE Record("allow", h, c)
    BY <1>4 DEF Authorize
<1>5. ASSUME NEW h \in Host, Flip(h) PROVE UNCHANGED <<ledger, now>>
    BY <1>5 DEF Flip, tables
<1>6. TimePasses => ledger' = ledger /\ now' >= now
    BY TimePassesStep DEF TimePasses, WindowPasses
<1>7. UNCHANGED vars => UNCHANGED <<ledger, now>>
    BY DEF vars, tables
<1>8. "allow" \in Kind
    BY DEF Kind
<1> QED
    BY <1>1, <1>2, <1>3, <1>4, <1>5, <1>6, <1>7, <1>8 DEF Next

\* What the environment does leaves the rows, the loops and the handlers alone.
LEMMA EnvironmentLeaves ==
    ASSUME \/ \E h \in Host : Flip(h) \/ \E c \in Container : Authorize(c, h)
           \/ TimePasses
           \/ UNCHANGED vars
    PROVE  UNCHANGED <<topology, faults, removals, task, streak, sync, late>>
BY DEF Flip, Authorize, TimePasses, WindowPasses, vars, tables, probeVars, syncVars

-----------------------------------------------------------------------------
(* What an append does to the entries of a host.                           *)

LEMMA EntriesType ==
    ASSUME TablesOK, NEW h, NEW kinds
    PROVE  /\ EntriesOf(h, kinds) \subseteq DOMAIN ledger
           /\ IsFiniteSet(EntriesOf(h, kinds)) /\ Cardinality(EntriesOf(h, kinds)) \in Nat
<1>1. IsFiniteSet(DOMAIN ledger) /\ EntriesOf(h, kinds) \in SUBSET DOMAIN ledger
    BY LedgerType, FS_Interval DEF EntriesOf
<1> QED
    BY <1>1, FS_Subset, FS_CardinalityType

LEMMA EntriesGrow ==
    ASSUME TablesOK, NEW kind \in Kind, NEW h \in Host \cup {NoHost}, NEW c \in Container,
           Record(kind, h, c), NEW g, NEW kinds
    PROVE  /\ g = h /\ kind \in kinds =>
                /\ EntriesOf(g, kinds)' = EntriesOf(g, kinds) \cup {Len(ledger) + 1}
                /\ Cardinality(EntriesOf(g, kinds)') = Cardinality(EntriesOf(g, kinds)) + 1
           /\ g # h \/ kind \notin kinds => EntriesOf(g, kinds)' = EntriesOf(g, kinds)
<1> DEFINE n == Len(ledger) + 1
<1>1. /\ DOMAIN ledger' = DOMAIN ledger \cup {n}
      /\ \A i \in DOMAIN ledger : ledger'[i] = ledger[i]
      /\ ledger'[n] = [kind |-> kind, target |-> h, ts |-> now + Skew[c]]
    BY RecordEffect
<1>2. n \notin DOMAIN ledger
    BY LedgerType
<1>3. ledger'[n].kind = kind /\ ledger'[n].target = h
    BY <1>1
<1> HIDE DEF n
<1>4. EntriesOf(g, kinds)' = IF g = h /\ kind \in kinds THEN EntriesOf(g, kinds) \cup {n}
                             ELSE EntriesOf(g, kinds)
    BY <1>1, <1>2, <1>3 DEF EntriesOf
<1>5. n \notin EntriesOf(g, kinds) /\ IsFiniteSet(EntriesOf(g, kinds))
    BY <1>2, EntriesType
<1>6. Cardinality(EntriesOf(g, kinds) \cup {n}) = Cardinality(EntriesOf(g, kinds)) + 1
    BY <1>5, FS_AddElement
<1> QED
    BY <1>4, <1>6 DEF n

-----------------------------------------------------------------------------
(* Claims and their entries.                                               *)

\* A set that one element leaves, joins, or neither.
LEMMA OneMoves ==
    ASSUME NEW S, NEW T, NEW x, IsFiniteSet(S), \A y : y # x => (y \in T <=> y \in S)
    PROVE  /\ x \notin S /\ x \notin T => T = S
           /\ x \in S /\ x \in T => T = S
           /\ x \notin S /\ x \in T => Cardinality(T) = Cardinality(S) + 1
           /\ x \in S /\ x \notin T => Cardinality(T) = Cardinality(S) - 1
<1>1. x \notin S /\ x \notin T => T = S
    OBVIOUS
<1>2. x \in S /\ x \in T => T = S
    OBVIOUS
<1>3. ASSUME x \notin S, x \in T PROVE Cardinality(T) = Cardinality(S) + 1
    <2>1. T = S \cup {x}
        BY <1>3
    <2> QED
        BY <1>3, <2>1, FS_AddElement
<1>4. ASSUME x \in S, x \notin T PROVE Cardinality(T) = Cardinality(S) - 1
    <2>1. T = S \ {x}
        BY <1>4
    <2> QED
        BY <1>4, <2>1, FS_RemoveElement
<1> QED
    BY <1>1, <1>2, <1>3, <1>4

Owing(h, audited) ==
    {c \in Container : At(c, "recordRemoval") /\ task[c].host = h /\ task[c].audited = audited}

SyncOwing(h, audited) ==
    {q \in Request : Handling(q, "record") /\ sync[q].host = h /\ sync[q].audited = audited}

\* The claims of one verdict, those that came too late included.
Claimed(h, audited) ==
    IF audited THEN removals[h].audited + late[h].audited
    ELSE removals[h].unaudited + late[h].unaudited

Entries(h, audited) == EntriesOf(h, {IF audited THEN "audit" ELSE "drift"})

\* Entries and appends under way, against the claims of one verdict.
Balanced(h, audited) ==
    LET logged == Cardinality(Entries(h, audited)) + Cardinality(Owing(h, audited))
                  + Cardinality(SyncOwing(h, audited))
    IN  Claimed(h, audited) - faults <= logged /\ logged <= Claimed(h, audited)

LEMMA OwingType ==
    ASSUME NEW h, NEW a
    PROVE  /\ IsFiniteSet(Owing(h, a)) /\ Cardinality(Owing(h, a)) \in Nat
           /\ IsFiniteSet(SyncOwing(h, a)) /\ Cardinality(SyncOwing(h, a)) \in Nat
<1>1. Owing(h, a) \in SUBSET Container /\ SyncOwing(h, a) \in SUBSET Request
    BY DEF Owing, SyncOwing
<1> QED
    BY <1>1, ContainerAssumption, RequestAssumption, FS_Subset, FS_CardinalityType

\* A loop comes to its claim's append, leaves it, or neither.
LEMMA OwingMoves ==
    ASSUME NEW c \in Container, \A d \in Container : d # c => task'[d] = task[d],
           NEW h, NEW a
    PROVE  /\ c \notin Owing(h, a) /\ c \notin Owing(h, a)' =>
                Owing(h, a)' = Owing(h, a)
           /\ c \notin Owing(h, a) /\ c \in Owing(h, a)' =>
                Cardinality(Owing(h, a)') = Cardinality(Owing(h, a)) + 1
           /\ c \in Owing(h, a) /\ c \notin Owing(h, a)' =>
                Cardinality(Owing(h, a)') = Cardinality(Owing(h, a)) - 1
<1>1. \A d : d # c => (d \in Owing(h, a)' <=> d \in Owing(h, a))
    BY DEF Owing, At
<1> QED
    BY <1>1, OwingType, OneMoves

\* So does a handler.
LEMMA SyncOwingMoves ==
    ASSUME NEW q \in Request, \A p \in Request : p # q => sync'[p] = sync[p],
           NEW h, NEW a
    PROVE  /\ q \notin SyncOwing(h, a) /\ q \notin SyncOwing(h, a)' =>
                SyncOwing(h, a)' = SyncOwing(h, a)
           /\ q \notin SyncOwing(h, a) /\ q \in SyncOwing(h, a)' =>
                Cardinality(SyncOwing(h, a)') = Cardinality(SyncOwing(h, a)) + 1
           /\ q \in SyncOwing(h, a) /\ q \notin SyncOwing(h, a)' =>
                Cardinality(SyncOwing(h, a)') = Cardinality(SyncOwing(h, a)) - 1
<1>1. \A p : p # q => (p \in SyncOwing(h, a)' <=> p \in SyncOwing(h, a))
    BY DEF SyncOwing, Handling
<1> QED
    BY <1>1, OwingType, OneMoves

LEMMA BalanceType ==
    ASSUME TablesOK, SyncInv, NEW h \in Host, NEW a \in BOOLEAN
    PROVE  /\ Cardinality(Entries(h, a)) \in Nat /\ Cardinality(Owing(h, a)) \in Nat
           /\ Cardinality(SyncOwing(h, a)) \in Nat
           /\ Claimed(h, a) \in Nat /\ faults \in Nat
<1>1. /\ removals[h].audited \in Nat /\ removals[h].unaudited \in Nat
      /\ late[h].audited \in Nat /\ late[h].unaudited \in Nat
    BY DEF TablesOK, SyncInv
<1>2. Claimed(h, a) \in Nat
    BY <1>1 DEF Claimed
<1> QED
    BY <1>2, EntriesType, OwingType, BoundAssumption DEF Entries, TablesOK

\* A balance moves by what its five numbers move.
LEMMA BalanceMoves ==
    ASSUME TablesOK, SyncInv, NEW h \in Host, NEW a \in BOOLEAN, Balanced(h, a),
           NEW e \in {0, 1}, Cardinality(Entries(h, a)') = Cardinality(Entries(h, a)) + e,
           NEW o \in {-1, 0, 1}, Cardinality(Owing(h, a)') = Cardinality(Owing(h, a)) + o,
           NEW s \in {-1, 0, 1},
           Cardinality(SyncOwing(h, a)') = Cardinality(SyncOwing(h, a)) + s,
           NEW r \in {0, 1}, Claimed(h, a)' = Claimed(h, a) + r,
           NEW f \in {0, 1}, faults' = faults + f,
           r - f <= e + o + s, e + o + s <= r
    PROVE  Balanced(h, a)'
<1>1. /\ Cardinality(Entries(h, a)) \in Nat /\ Cardinality(Owing(h, a)) \in Nat
      /\ Cardinality(SyncOwing(h, a)) \in Nat /\ Claimed(h, a) \in Nat /\ faults \in Nat
    BY BalanceType
<1> DEFINE E == Cardinality(Entries(h, a))
           O == Cardinality(Owing(h, a))
           S == Cardinality(SyncOwing(h, a))
           C == Claimed(h, a)
<1>2. C - faults <= E + O + S /\ E + O + S <= C
    BY DEF Balanced
<1>3. E' = E + e /\ O' = O + o /\ S' = S + s /\ C' = C + r
    OBVIOUS
<1> HIDE DEF E, O, S, C
<1>4. C' - faults' <= E' + O' + S' /\ E' + O' + S' <= C'
    <2>1. E \in Nat /\ O \in Nat /\ S \in Nat /\ C \in Nat /\ faults \in Nat
        BY <1>1 DEF E, O, S, C
    <2> QED
        BY <1>2, <1>3, <2>1
<1> QED
    BY <1>4 DEF Balanced, E, O, S, C

\* A claim that finds the row present counts for its verdict, and for no other.
LEMMA ClaimCounts ==
    ASSUME TablesOK, SyncInv, NEW g \in Host, NEW v \in BOOLEAN, ClaimRemoved(g, v),
           topology[g].status = "present", late' = late, NEW h \in Host, NEW a \in BOOLEAN
    PROVE  Claimed(h, a)' = IF g = h /\ v = a THEN Claimed(h, a) + 1 ELSE Claimed(h, a)
<1>1. /\ removals[h].audited \in Nat /\ removals[h].unaudited \in Nat
      /\ late[h].audited \in Nat /\ late[h].unaudited \in Nat
    BY DEF TablesOK, SyncInv
<1>2. /\ removals'[h].audited =
            IF g = h /\ v THEN removals[h].audited + 1 ELSE removals[h].audited
      /\ removals'[h].unaudited =
            IF g = h /\ ~v THEN removals[h].unaudited + 1 ELSE removals[h].unaudited
    BY ClaimEffect
<1> DEFINE s == removals[h].audited + late[h].audited
           t == removals[h].unaudited + late[h].unaudited
<1>3. /\ s' = IF g = h /\ v THEN s + 1 ELSE s
      /\ t' = IF g = h /\ ~v THEN t + 1 ELSE t
    BY <1>1, <1>2
<1>4. Claimed(h, TRUE) = s /\ Claimed(h, FALSE) = t
    BY DEF Claimed
<1>5. Claimed(h, TRUE)' = s' /\ Claimed(h, FALSE)' = t'
    BY DEF Claimed
<1> HIDE DEF s, t
<1>6. CASE v
    BY <1>3, <1>4, <1>5, <1>6
<1>7. CASE ~v
    BY <1>3, <1>4, <1>5, <1>7
<1> QED
    BY <1>6, <1>7

\* So does one that comes too late.
LEMMA LateCounts ==
    ASSUME TablesOK, SyncInv, NEW q \in Request, SyncClaim(q),
           topology[sync[q].host].status # "present", NEW h \in Host, NEW a \in BOOLEAN
    PROVE  Claimed(h, a)' = IF sync[q].host = h /\ sync[q].audited = a THEN Claimed(h, a) + 1
                            ELSE Claimed(h, a)
<1> DEFINE g == sync[q].host
<1>1. /\ removals[h].audited \in Nat /\ removals[h].unaudited \in Nat
      /\ late[h].audited \in Nat /\ late[h].unaudited \in Nat
    BY DEF TablesOK, SyncInv
<1>2. sync[q].audited \in BOOLEAN /\ g \in Host /\ ClaimRemoved(g, sync[q].audited)
    BY SyncClaimStep
<1>3. removals' = removals
    BY <1>2, ClaimEffect
<1>4. CASE g # h
    <2>1. late'[h] = late[h]
        BY <1>4, SyncClaimStep
    <2> QED
        BY <1>3, <1>4, <2>1 DEF Claimed
<1>5. CASE g = h
    <2>1. /\ late'[h].audited = late[h].audited + (IF sync[q].audited THEN 1 ELSE 0)
          /\ late'[h].unaudited = late[h].unaudited + (IF sync[q].audited THEN 0 ELSE 1)
        BY <1>5, SyncClaimStep
    <2> DEFINE s == removals[h].audited + late[h].audited
               t == removals[h].unaudited + late[h].unaudited
    <2>2. /\ s' = IF sync[q].audited THEN s + 1 ELSE s
          /\ t' = IF sync[q].audited THEN t ELSE t + 1
        BY <1>1, <1>3, <1>5, <2>1
    <2>3. Claimed(h, TRUE) = s /\ Claimed(h, FALSE) = t
        BY DEF Claimed
    <2>4. Claimed(h, TRUE)' = s' /\ Claimed(h, FALSE)' = t'
        BY DEF Claimed
    <2> HIDE DEF s, t
    <2>5. CASE sync[q].audited
        BY <1>2, <1>5, <2>2, <2>3, <2>4, <2>5
    <2>6. CASE ~sync[q].audited
        BY <1>2, <1>5, <2>2, <2>3, <2>4, <2>6
    <2> QED
        BY <2>5, <2>6
<1> QED
    BY <1>4, <1>5

\* The steps of a loop.
LEMMA BalancedProbe ==
    ASSUME BaseInv, BaseInv', NEW c \in Container, ProbeStep(c), UNCHANGED syncVars,
           NEW h \in Host, NEW a \in BOOLEAN, Balanced(h, a)
    PROVE  Balanced(h, a)'
<1>0. /\ ProbeInv /\ SyncInv /\ TablesOK /\ TablesOK' /\ task[c].audited \in BOOLEAN
      /\ c \in Owing(h, a)
            <=> At(c, "recordRemoval") /\ task[c].host = h /\ task[c].audited = a
      /\ c \in Owing(h, a)'
            <=> task'[c].at = "recordRemoval" /\ task'[c].host = h /\ task'[c].audited = a
    BY DEF BaseInv, ProbeInv, ProbeOK, Owing, At
<1>1. SyncOwing(h, a)' = SyncOwing(h, a) /\ late' = late
    BY DEF SyncOwing, Handling, syncVars
<1>2. /\ Cardinality(Owing(h, a)) \in Nat /\ Cardinality(Entries(h, a)) \in Nat
      /\ Cardinality(SyncOwing(h, a)) \in Nat
      /\ Claimed(h, a) \in Nat /\ faults \in Nat
    BY <1>0, BalanceType
<1>3. ASSUME UNCHANGED ledger PROVE Entries(h, a)' = Entries(h, a)
    BY <1>3 DEF Entries, EntriesOf
<1>4. ASSUME UNCHANGED removals PROVE Claimed(h, a)' = Claimed(h, a)
    BY <1>1, <1>4 DEF Claimed
<1>5. ASSUME UNCHANGED <<ledger, removals, faults>>,
             \A d \in Container : d # c => task'[d] = task[d],
             c \notin Owing(h, a), c \notin Owing(h, a)'
      PROVE  Balanced(h, a)'
    <2>1. Owing(h, a)' = Owing(h, a)
        BY <1>5, OwingMoves
    <2> QED
        BY <1>1, <1>3, <1>4, <1>5, <2>1 DEF Balanced
<1>6. ASSUME StatementFails(c) \/ CrashProbe(c) PROVE Balanced(h, a)'
    <2>1. /\ \A d \in Container : d # c => task'[d] = task[d]
          /\ task'[c].at # "recordRemoval"
        <3>1. CASE StatementFails(c)
            BY <1>0, <3>1, StatementFailsStep, ResumeEffect, GotoEffect DEF Point
        <3>2. CASE CrashProbe(c)
            BY <1>0, <3>2, CrashProbeStep DEF Asleep
        <3> QED
            BY <1>6, <3>1, <3>2
    <2>2. UNCHANGED <<ledger, removals>> /\ faults' = faults + 1
        BY <1>6 DEF StatementFails, CrashProbe
    <2>3. Entries(h, a)' = Entries(h, a) /\ Claimed(h, a)' = Claimed(h, a)
        BY <1>3, <1>4, <2>2
    <2>4. PICK o \in {-1, 0} : Cardinality(Owing(h, a)') = Cardinality(Owing(h, a)) + o
        BY <1>0, <1>2, <2>1, OwingMoves
    <2>5. Cardinality(Entries(h, a)') = Cardinality(Entries(h, a)) + 0
          /\ Claimed(h, a)' = Claimed(h, a) + 0
          /\ Cardinality(SyncOwing(h, a)') = Cardinality(SyncOwing(h, a)) + 0
        BY <1>1, <1>2, <2>3
    <2> QED
        BY <1>0, <2>2, <2>4, <2>5, BalanceMoves
<1>7. ASSUME ClaimRemoval(c) PROVE Balanced(h, a)'
    <2> DEFINE g == task[c].host
    <2>1. /\ At(c, "claimRemoval") /\ g \in Host
          /\ ClaimRemoved(g, task[c].audited) /\ UNCHANGED <<ledger, now, faults>>
          /\ \/ topology[g].status = "present" /\ Goto(c, "recordRemoval")
             \/ topology[g].status # "present" /\ Resume(c)
        BY <1>0, <1>7, AtWork DEF ClaimRemoval, At, Working
    <2>2. c \notin Owing(h, a)
        BY <1>0, <2>1 DEF At
    <2>3. CASE topology[g].status # "present" /\ Resume(c)
        BY <1>0, <1>5, <2>1, <2>2, <2>3, ClaimEffect, ResumeEffect
    <2>4. CASE topology[g].status = "present" /\ Goto(c, "recordRemoval")
        <3>1. /\ \A d \in Container : d # c => task'[d] = task[d]
              /\ task'[c].at = "recordRemoval" /\ task'[c].host = g
              /\ task'[c].audited = task[c].audited
            BY <1>0, <2>4, GotoEffect DEF Point
        <3>2. CASE g = h /\ task[c].audited = a
            <4>1. Claimed(h, a)' = Claimed(h, a) + 1
                BY <1>0, <1>1, <2>1, <2>4, <3>2, ClaimCounts
            <4>2. Cardinality(Owing(h, a)') = Cardinality(Owing(h, a)) + 1
                BY <1>0, <2>2, <3>1, <3>2, OwingMoves
            <4>3. Cardinality(Entries(h, a)') = Cardinality(Entries(h, a)) + 0
                  /\ faults' = faults + 0
                  /\ Cardinality(SyncOwing(h, a)') = Cardinality(SyncOwing(h, a)) + 0
                BY <1>1, <1>2, <1>3, <2>1
            <4> QED
                BY <1>0, <4>1, <4>2, <4>3, BalanceMoves
        <3>3. CASE ~(g = h /\ task[c].audited = a)
            <4>1. Claimed(h, a)' = Claimed(h, a)
                BY <1>0, <1>1, <2>1, <2>4, <3>3, ClaimCounts
            <4>2. Owing(h, a)' = Owing(h, a)
                BY <1>0, <2>2, <3>1, <3>3, OwingMoves
            <4> QED
                BY <1>1, <1>3, <2>1, <4>1, <4>2 DEF Balanced
        <3> QED
            BY <3>2, <3>3
    <2> QED
        BY <2>1, <2>3, <2>4
<1>8. ASSUME RecordRemoval(c) PROVE Balanced(h, a)'
    <2> DEFINE g == task[c].host
               kind == IF task[c].audited THEN "audit" ELSE "drift"
    <2>1. /\ At(c, "recordRemoval") /\ g \in Host /\ Record(kind, g, c) /\ kind \in Kind
          /\ Resume(c) /\ UNCHANGED <<topology, faults, removals>>
        BY <1>0, <1>8, AtWork DEF RecordRemoval, At, Working, Kind
    <2>2. kind \in {IF a THEN "audit" ELSE "drift"} <=> task[c].audited = a
        BY <1>0
    <2> HIDE DEF kind
    <2>3. /\ \A d \in Container : d # c => task'[d] = task[d] /\ c \notin Owing(h, a)'
          /\ task'[c].at = "join"
        BY <1>0, <2>1, ResumeEffect
    <2>4. c \notin Owing(h, a)'
        BY <1>0, <2>3
    <2>5. CASE g = h /\ task[c].audited = a
        <3>1. Cardinality(Owing(h, a)') = Cardinality(Owing(h, a)) + (-1)
            BY <1>0, <1>2, <2>1, <2>3, <2>4, <2>5, OwingMoves
        <3>2. Cardinality(Entries(h, a)') = Cardinality(Entries(h, a)) + 1
            BY <1>0, <2>1, <2>2, <2>5, EntriesGrow DEF Entries
        <3>3. Claimed(h, a)' = Claimed(h, a) + 0 /\ faults' = faults + 0
              /\ Cardinality(SyncOwing(h, a)') = Cardinality(SyncOwing(h, a)) + 0
            BY <1>1, <1>2, <1>4, <2>1
        <3> QED
            BY <1>0, <3>1, <3>2, <3>3, BalanceMoves
    <2>6. CASE ~(g = h /\ task[c].audited = a)
        <3>1. Owing(h, a)' = Owing(h, a)
            BY <1>0, <2>3, <2>4, <2>6, OwingMoves
        <3>2. Entries(h, a)' = Entries(h, a)
            BY <1>0, <2>1, <2>2, <2>6, EntriesGrow DEF Entries
        <3> QED
            BY <1>1, <1>4, <2>1, <3>1, <3>2 DEF Balanced
    <2> QED
        BY <2>5, <2>6
<1>9. ASSUME RecordReappear(c) PROVE Balanced(h, a)'
    <2>1. /\ At(c, "recordReappear") /\ task[c].host \in Host
          /\ Record("reappear", task[c].host, c) /\ "reappear" \in Kind
          /\ Resume(c) /\ UNCHANGED <<topology, faults, removals>>
        BY <1>0, <1>9, AtWork DEF RecordReappear, At, Working, Kind
    <2>2. Entries(h, a)' = Entries(h, a)
        BY <1>0, <2>1, EntriesGrow DEF Entries
    <2>3. /\ \A d \in Container : d # c => task'[d] = task[d]
          /\ task'[c].at = "join"
        BY <1>0, <2>1, ResumeEffect
    <2>4. Owing(h, a)' = Owing(h, a)
        BY <1>0, <2>1, <2>3, OwingMoves DEF At
    <2> QED
        BY <1>1, <1>4, <2>1, <2>2, <2>4 DEF Balanced
<1>10. ASSUME StartCycle(c) \/ EndCycle(c) PROVE Balanced(h, a)'
    <2>1. /\ \A d \in Container : d # c => task'[d] = task[d]
          /\ ~At(c, "recordRemoval") /\ task'[c].at # "recordRemoval"
        BY <1>0, <1>10, StartCycleStep, EndCycleStep DEF StartCycle, EndCycle, At, Asleep
    <2> QED
        BY <1>0, <1>5, <1>10, <2>1 DEF StartCycle, EndCycle, tables
<1>11. ASSUME NEW g \in Host, JoinNext(c, g) PROVE Balanced(h, a)'
    <2>1. /\ \A d \in Container : d # c => task'[d] = task[d]
          /\ task'[c].at # "recordRemoval"
        BY <1>0, <1>11, JoinNextStep
    <2>2. ~At(c, "recordRemoval") /\ UNCHANGED <<ledger, removals, faults>>
        BY <1>11 DEF JoinNext, At, tables
    <2> QED
        BY <1>0, <1>5, <2>1, <2>2
<1>12. ASSUME NEW g \in Host, ProbeOne(c, g) PROVE Balanced(h, a)'
    <2>1. /\ \A d \in Container : d # c => task'[d] = task[d]
          /\ task'[c].at = task[c].at /\ task'[c].host = task[c].host
          /\ task'[c].audited = task[c].audited
        BY <1>0, <1>12, ProbeOneStep
    <2>2. Owing(h, a)' = Owing(h, a)
        BY <2>1 DEF Owing, At
    <2>3. UNCHANGED <<ledger, removals, faults>>
        BY <1>12 DEF ProbeOne, tables
    <2> QED
        BY <1>1, <1>3, <1>4, <2>2, <2>3 DEF Balanced
<1>13. ASSUME Verdict(c) PROVE Balanced(h, a)'
    <2>1. /\ \A d \in Container : d # c => task'[d] = task[d]
          /\ ~At(c, "recordRemoval") /\ task'[c].at # "recordRemoval"
        BY <1>0, <1>13, VerdictStep DEF Verdict, At
    <2> QED
        BY <1>0, <1>5, <1>13, <2>1 DEF Verdict, tables
<1>14. ASSUME ClaimReappear(c) \/ ResetFailures(c) \/ CountFailure(c) PROVE Balanced(h, a)'
    <2>1. /\ \A d \in Container : d # c => task'[d] = task[d]
          /\ task'[c].at # "recordRemoval"
        BY <1>0, <1>14, GotoEffect, ResumeEffect
           DEF ClaimReappear, ResetFailures, CountFailure, Point
    <2>2. ~At(c, "recordRemoval") /\ UNCHANGED <<ledger, removals, faults>>
        BY <1>14 DEF ClaimReappear, ResetFailures, CountFailure, At
    <2> QED
        BY <1>0, <1>5, <2>1, <2>2
<1> QED
    BY <1>6, <1>7, <1>8, <1>9, <1>10, <1>11, <1>12, <1>13, <1>14 DEF ProbeStep, LoopStep

\* The steps of a sync handler.
LEMMA BalancedSync ==
    ASSUME BaseInv, BaseInv', SyncStep, UNCHANGED probeVars,
           NEW h \in Host, NEW a \in BOOLEAN, Balanced(h, a)
    PROVE  Balanced(h, a)'
<1>0. SyncInv /\ TablesOK /\ TablesOK'
    BY DEF BaseInv, ProbeInv
<1>1. Owing(h, a)' = Owing(h, a)
    BY DEF Owing, At, probeVars
<1>2. /\ Cardinality(Owing(h, a)) \in Nat /\ Cardinality(Entries(h, a)) \in Nat
      /\ Cardinality(SyncOwing(h, a)) \in Nat
      /\ Claimed(h, a) \in Nat /\ faults \in Nat
    BY <1>0, BalanceType
<1>3. ASSUME UNCHANGED ledger PROVE Cardinality(Entries(h, a)') = Cardinality(Entries(h, a)) + 0
    BY <1>2, <1>3 DEF Entries, EntriesOf
<1>4. ASSUME UNCHANGED <<removals, late>> PROVE Claimed(h, a)' = Claimed(h, a) + 0
    BY <1>2, <1>4 DEF Claimed
<1>5. Cardinality(Owing(h, a)') = Cardinality(Owing(h, a)) + 0
    BY <1>1, <1>2
<1>6. ASSUME NEW q \in Request, UNCHANGED <<ledger, removals, late>>,
             \A p \in Request : p # q => sync'[p] = sync[p],
             NEW f \in {0, 1}, faults' = faults + f,
             sync[q].at = "record" => f = 1, sync'[q].at # "record"
      PROVE  Balanced(h, a)'
    <2>1. q \notin SyncOwing(h, a)' /\ (q \in SyncOwing(h, a) => f = 1)
        BY <1>6 DEF SyncOwing, Handling
    <2>2. PICK s \in {-1, 0} :
            /\ Cardinality(SyncOwing(h, a)') = Cardinality(SyncOwing(h, a)) + s
            /\ s = 0 \/ f = 1
        BY <1>2, <1>6, <2>1, SyncOwingMoves
    <2> QED
        BY <1>0, <1>3, <1>4, <1>5, <1>6, <2>2, BalanceMoves
<1>7. ASSUME NEW q \in Request, SyncClaim(q) PROVE Balanced(h, a)'
    <2> DEFINE g == sync[q].host
    <2>1. /\ sync[q].at = "claim" /\ sync'[q].at = "record" /\ sync'[q].host = g /\ g \in Host
          /\ sync'[q].audited = sync[q].audited /\ sync[q].audited \in BOOLEAN
          /\ \A p \in Request : p # q => sync'[p] = sync[p]
          /\ ClaimRemoved(g, sync[q].audited) /\ UNCHANGED <<ledger, now, faults>>
        BY <1>0, <1>7, SyncClaimStep
    <2>2. q \notin SyncOwing(h, a)
          /\ (q \in SyncOwing(h, a)' <=> g = h /\ sync[q].audited = a)
        BY <2>1 DEF SyncOwing, Handling
    <2>3. faults' = faults + 0
        BY <1>2, <2>1
    <2>4. Claimed(h, a)' = IF g = h /\ sync[q].audited = a THEN Claimed(h, a) + 1
                           ELSE Claimed(h, a)
        <3>1. CASE topology[g].status = "present"
            <4>1. late' = late
                BY <1>0, <1>7, <3>1, SyncClaimStep
            <4> QED
                BY <1>0, <2>1, <3>1, <4>1, ClaimCounts
        <3>2. CASE topology[g].status # "present"
            BY <1>0, <1>7, <2>1, <3>2, LateCounts
        <3> QED
            BY <3>1, <3>2
    <2>5. CASE g = h /\ sync[q].audited = a
        <3>1. Cardinality(SyncOwing(h, a)') = Cardinality(SyncOwing(h, a)) + 1
            BY <2>1, <2>2, <2>5, SyncOwingMoves
        <3>2. Claimed(h, a)' = Claimed(h, a) + 1
            BY <2>4, <2>5
        <3> QED
            BY <1>0, <1>3, <1>5, <2>1, <2>3, <3>1, <3>2, BalanceMoves
    <2>6. CASE ~(g = h /\ sync[q].audited = a)
        <3>1. SyncOwing(h, a)' = SyncOwing(h, a)
            BY <2>1, <2>2, <2>6, SyncOwingMoves
        <3>2. /\ Claimed(h, a)' = Claimed(h, a) + 0
              /\ Cardinality(SyncOwing(h, a)') = Cardinality(SyncOwing(h, a)) + 0
            BY <1>2, <2>4, <2>6, <3>1
        <3> QED
            BY <1>0, <1>3, <1>5, <2>1, <2>3, <3>2, BalanceMoves
    <2> QED
        BY <2>5, <2>6
<1>8. ASSUME NEW q \in Request, SyncRecord(q) PROVE Balanced(h, a)'
    <2> DEFINE g == sync[q].host
               kind == IF sync[q].audited THEN "audit" ELSE "drift"
    <2>1. /\ sync[q].at = "record" /\ sync'[q].at = "rows" /\ g \in Host
          /\ sync[q].container \in Container /\ sync[q].audited \in BOOLEAN
          /\ Record(kind, g, sync[q].container) /\ kind \in Kind
          /\ \A p \in Request : p # q => sync'[p] = sync[p]
          /\ UNCHANGED <<topology, faults, removals, late>>
        BY <1>0, <1>8, SyncRecordStep DEF Kind
    <2>2. kind \in {IF a THEN "audit" ELSE "drift"} <=> sync[q].audited = a
        BY <2>1
    <2> HIDE DEF kind
    <2>3. q \notin SyncOwing(h, a)'
          /\ (q \in SyncOwing(h, a) <=> g = h /\ sync[q].audited = a)
        BY <2>1 DEF SyncOwing, Handling
    <2>4. Claimed(h, a)' = Claimed(h, a) + 0 /\ faults' = faults + 0
        BY <1>2, <1>4, <2>1
    <2>5. CASE g = h /\ sync[q].audited = a
        <3>1. Cardinality(Entries(h, a)') = Cardinality(Entries(h, a)) + 1
            BY <1>0, <2>1, <2>2, <2>5, EntriesGrow DEF Entries
        <3>2. Cardinality(SyncOwing(h, a)') = Cardinality(SyncOwing(h, a)) + (-1)
            BY <1>2, <2>1, <2>3, <2>5, SyncOwingMoves
        <3> QED
            BY <1>0, <1>5, <2>4, <3>1, <3>2, BalanceMoves
    <2>6. CASE ~(g = h /\ sync[q].audited = a)
        <3>1. Entries(h, a)' = Entries(h, a)
            BY <1>0, <2>1, <2>2, <2>6, EntriesGrow DEF Entries
        <3>2. SyncOwing(h, a)' = SyncOwing(h, a)
            BY <2>1, <2>3, <2>6, SyncOwingMoves
        <3>3. /\ Cardinality(Entries(h, a)') = Cardinality(Entries(h, a)) + 0
              /\ Cardinality(SyncOwing(h, a)') = Cardinality(SyncOwing(h, a)) + 0
            BY <1>2, <3>1, <3>2
        <3> QED
            BY <1>0, <1>5, <2>4, <3>3, BalanceMoves
    <2> QED
        BY <2>5, <2>6
<1>9. ASSUME NEW q \in Request, SyncEnd(q) PROVE Balanced(h, a)'
    <2>1. /\ sync[q].at = "rows" /\ sync'[q].at = "ended" /\ sync[q].container \in Container
          /\ Record("sync", NoHost, sync[q].container) /\ "sync" \in Kind
          /\ \A p \in Request : p # q => sync'[p] = sync[p]
          /\ UNCHANGED <<topology, faults, removals, late>>
        BY <1>0, <1>9, SyncEndStep DEF Kind
    <2>2. Entries(h, a)' = Entries(h, a)
        BY <1>0, <2>1, EntriesGrow DEF Entries
    <2>3. SyncOwing(h, a)' = SyncOwing(h, a)
        BY <2>1, SyncOwingMoves DEF SyncOwing, Handling
    <2> QED
        BY <1>1, <2>1, <2>2, <2>3 DEF Balanced, Claimed
<1>10. ASSUME NEW q \in Request, SyncAbort(q) PROVE Balanced(h, a)'
    BY <1>0, <1>6, <1>10, SyncAbortStep
<1>11. ASSUME NEW q \in Request, NEW c \in Container, SyncBegin(q, c) PROVE Balanced(h, a)'
    <2>1. /\ UNCHANGED <<tables, late>> /\ sync[q].at = "waiting" /\ sync'[q].at = "rows"
          /\ \A p \in Request : p # q => sync'[p] = sync[p]
        BY <1>0, <1>11, SyncBeginStep
    <2>2. faults' = faults + 0 /\ UNCHANGED <<ledger, removals, late>>
        BY <1>2, <2>1 DEF tables
    <2> QED
        BY <1>6, <2>1, <2>2
<1>12. ASSUME NEW q \in Request, NEW g \in Host, SyncUpsert(q, g) PROVE Balanced(h, a)'
    <2>1. /\ UNCHANGED <<ledger, removals, faults, late>>
          /\ sync[q].at = "rows" /\ sync'[q].at = "rows"
          /\ \A p \in Request : p # q => sync'[p] = sync[p]
        BY <1>0, <1>12, SyncUpsertStep
    <2>2. faults' = faults + 0
        BY <1>2, <2>1
    <2> QED
        BY <1>6, <2>1, <2>2
<1>13. ASSUME NEW q \in Request, NEW g \in Host, SyncVerdict(q, g) PROVE Balanced(h, a)'
    <2>1. /\ UNCHANGED <<ledger, removals, late>> /\ sync[q].at = "rows" /\ sync'[q].at = "claim"
          /\ \A p \in Request : p # q => sync'[p] = sync[p]
          /\ faults' = faults \/ faults' = faults + 1
        BY <1>0, <1>13, SyncVerdictStep
    <2>2. PICK f \in {0, 1} : faults' = faults + f
        BY <1>2, <2>1
    <2> QED
        BY <1>6, <2>1, <2>2
<1> QED
    BY <1>7, <1>8, <1>9, <1>10, <1>11, <1>12, <1>13 DEF SyncStep, HandlerStep

LEMMA BalancedEnvironment ==
    ASSUME BaseInv, NEW h \in Host, NEW a \in BOOLEAN, Balanced(h, a),
           \/ \E g \in Host : Flip(g) \/ \E c \in Container : Authorize(c, g)
           \/ TimePasses
           \/ UNCHANGED vars
    PROVE  Balanced(h, a)'
<1>1. UNCHANGED <<faults, task, sync, late>>
    BY EnvironmentLeaves
<1>2. UNCHANGED removals
    BY DEF Flip, Authorize, TimePasses, WindowPasses, vars, tables
<1>3. Entries(h, a)' = Entries(h, a)
    <2>1. CASE ledger' = ledger
        BY <2>1 DEF Entries, EntriesOf
    <2>2. ASSUME NEW g \in Host, NEW c \in Container, Authorize(c, g)
          PROVE  Entries(h, a)' = Entries(h, a)
        <3>1. Record("allow", g, c) /\ "allow" \in Kind /\ TablesOK
            BY <2>2 DEF Authorize, Kind, BaseInv, ProbeInv
        <3> QED
            BY <3>1, EntriesGrow DEF Entries
    <2>3. ledger' = ledger \/ \E g \in Host, c \in Container : Authorize(c, g)
        BY DEF Flip, TimePasses, WindowPasses, vars, tables
    <2> QED
        BY <2>1, <2>2, <2>3
<1> QED
    BY <1>1, <1>2, <1>3 DEF Balanced, Claimed, Owing, SyncOwing, At, Handling

LEMMA Between ==
    ASSUME NEW n \in Int, NEW m \in Nat, NEW k \in Nat, m - k <= n, n <= m
    PROVE  n \in m - k .. m
OBVIOUS

AllBalanced == \A h \in Host, a \in BOOLEAN : Balanced(h, a)

LEMMA InitAllBalanced ==
    ASSUME Init
    PROVE  AllBalanced
<1>1. ASSUME NEW h \in Host, NEW a \in BOOLEAN PROVE Balanced(h, a)
    <2>1. Entries(h, a) = {} /\ Owing(h, a) = {} /\ SyncOwing(h, a) = {}
        BY RestTypes DEF Init, InitTables, InitProbe, InitSync, Entries, EntriesOf, Owing,
           SyncOwing, Handling, At, Asleep
    <2>2. Claimed(h, a) = 0 /\ faults = 0
        <3>1. /\ removals[h].audited = 0 /\ removals[h].unaudited = 0
              /\ late[h].audited = 0 /\ late[h].unaudited = 0 /\ faults = 0
            BY DEF Init, InitTables, InitSync
        <3> QED
            BY <3>1 DEF Claimed
    <2> QED
        BY <2>1, <2>2, FS_EmptySet DEF Balanced
<1> QED
    BY <1>1 DEF AllBalanced

LEMMA AllBalancedStep ==
    ASSUME BaseInv, AllBalanced, [Next]_vars
    PROVE  AllBalanced'
<1>1. BaseInv'
    BY BaseInvStep
<1>2. ASSUME NEW h \in Host, NEW a \in BOOLEAN PROVE Balanced(h, a)'
    <2>1. Balanced(h, a)
        BY DEF AllBalanced
    <2> QED
        BY <1>1, <2>1, BalancedProbe, BalancedSync, BalancedEnvironment DEF Next
<1> QED
    BY <1>2 DEF AllBalanced

\* For any number of containers, sync requests, hosts and faults, every claim
\* gets one entry, of the kind the claim wrote, but for those a fault lost
\* (handle_failure of probe.rs, topology_sync of http.rs).
THEOREM RemovalsAreLoggedOnce == Spec => []RemovalLoggedOnce
<1>1. Init => BaseInv /\ AllBalanced
    BY InitBaseInv, InitAllBalanced
<1>2. BaseInv /\ AllBalanced /\ [Next]_vars => (BaseInv /\ AllBalanced)'
    BY BaseInvStep, AllBalancedStep
<1>3. ASSUME BaseInv, AllBalanced PROVE RemovalLoggedOnce
    <2>1. TablesOK /\ SyncInv
        BY <1>3 DEF BaseInv, ProbeInv
    <2>2. ASSUME NEW h \in Host, NEW a \in BOOLEAN
          PROVE  Cardinality(Entries(h, a)) + Owed(h, a) \in Claimed(h, a) - faults .. Claimed(h, a)
        <3> DEFINE E == Cardinality(Entries(h, a))
                   O == Cardinality(Owing(h, a))
                   S == Cardinality(SyncOwing(h, a))
        <3>1. E \in Nat /\ O \in Nat /\ S \in Nat /\ Claimed(h, a) \in Nat /\ faults \in Nat
            BY <2>1, BalanceType
        <3>2. Claimed(h, a) - faults <= E + O + S /\ E + O + S <= Claimed(h, a)
            BY <1>3 DEF AllBalanced, Balanced
        <3>3. Owed(h, a) = O + S
            BY DEF Owed, Owing, SyncOwing
        <3> HIDE DEF E, O, S
        <3>4. E + Owed(h, a) \in Int /\ Claimed(h, a) - faults <= E + Owed(h, a)
              /\ E + Owed(h, a) <= Claimed(h, a)
            BY <3>1, <3>2, <3>3
        <3>5. E + Owed(h, a) \in Claimed(h, a) - faults .. Claimed(h, a)
            BY <3>1, <3>4, Between
        <3> QED
            BY <3>5 DEF E
    <2>3. ASSUME NEW h \in Host
          PROVE  LET audited == removals[h].audited + late[h].audited
                     unaudited == removals[h].unaudited + late[h].unaudited
                 IN  /\ Logged(h, "audit") \in audited - faults .. audited
                     /\ Logged(h, "drift") \in unaudited - faults .. unaudited
        <3>1. /\ Entries(h, TRUE) = EntriesOf(h, {"audit"})
              /\ Claimed(h, TRUE) = removals[h].audited + late[h].audited
              /\ Entries(h, FALSE) = EntriesOf(h, {"drift"})
              /\ Claimed(h, FALSE) = removals[h].unaudited + late[h].unaudited
            BY DEF Entries, Claimed
        <3>2. /\ Logged(h, "audit") = Cardinality(Entries(h, TRUE)) + Owed(h, TRUE)
              /\ Logged(h, "drift") = Cardinality(Entries(h, FALSE)) + Owed(h, FALSE)
            BY <3>1 DEF Logged
        <3> QED
            BY <2>2, <3>1, <3>2, Zenon
    <2> QED
        BY <2>3 DEF RemovalLoggedOnce
<1> QED
    BY <1>1, <1>2, <1>3, PTL DEF Spec

-----------------------------------------------------------------------------
(* Clocks.                                                                 *)

LEMMA LeastOf ==
    ASSUME NEW T \in SUBSET Nat, T # {}
    PROVE  \E m \in T : \A n \in T : m <= n
<1> DEFINE less == {ss \in Nat \X Nat : ss[1] < ss[2]}
<1>1. IsWellFoundedOn(less, Nat)
    BY NatLessThanWellFounded DEF OpToRel
<1>2. \A x \in Nat, y \in Nat : x < y => <<x, y>> \in less
    OBVIOUS
<1> HIDE DEF less
<1>3. PICK m \in T : \A n \in T : <<n, m>> \notin less
    BY <1>1, WFMin
<1>4. ASSUME NEW n \in T PROVE m <= n
    <2>1. m \in Nat /\ n \in Nat /\ ~(n < m)
        BY <1>2, <1>3
    <2> QED
        BY <2>1
<1> QED
    BY <1>4

\* One of the containers has the fastest clock: a smallest set of containers
\* none of which has would lack it without one of its elements, too.
LEMMA FastestClock ==
    \E c \in Container : \A d \in Container : Skew[d] <= Skew[c]
<1> DEFINE Fastest(T, c) == c \in T /\ \A d \in T : Skew[d] <= Skew[c]
           Without == {T \in SUBSET Container : T # {} /\ ~ \E c \in T : Fastest(T, c)}
           sizes == {Cardinality(T) : T \in Without}
<1>0. \A c \in Container : Skew[c] \in Nat
    BY SkewAssumption
<1>1. \A T \in SUBSET Container : IsFiniteSet(T) /\ Cardinality(T) \in Nat
    BY ContainerAssumption, FS_Subset, FS_CardinalityType
<1>2. ASSUME NEW T \in Without
      PROVE  \E U \in Without : Cardinality(U) < Cardinality(T)
    <2>1. PICK x \in T : x \in Container
        OBVIOUS
    <2> DEFINE U == T \ {x}
    <2>2. U \in SUBSET Container /\ Cardinality(U) < Cardinality(T)
        BY <1>1, <2>1, FS_RemoveElement
    <2>3. CASE U = {}
        <3>1. T = {x}
            BY <2>1, <2>3
        <3> QED
            BY <1>0, <2>1, <3>1
    <2>4. ASSUME NEW y \in U, Fastest(U, y) PROVE \E c \in T : Fastest(T, c)
        <3>1. Skew[x] \in Nat /\ \A d \in T : Skew[d] \in Nat
            BY <1>0, <2>1
        <3>2. CASE Skew[x] <= Skew[y]
            BY <2>4, <3>2
        <3>3. CASE ~(Skew[x] <= Skew[y])
            <4>1. \A d \in T : Skew[d] <= Skew[x]
                BY <2>4, <3>1, <3>3
            <4> QED
                BY <2>1, <4>1
        <3> QED
            BY <3>2, <3>3
    <2>5. ASSUME U # {} PROVE U \in Without
        <3>1. ~ \E c \in T : Fastest(T, c)
            OBVIOUS
        <3>2. ~ \E c \in U : Fastest(U, c)
            BY <2>4, <3>1
        <3>3. U \in SUBSET Container /\ U # {}
            BY <2>2, <2>5
        <3> HIDE DEF Fastest, U
        <3> QED
            BY <3>2, <3>3
    <2> QED
        BY <2>2, <2>3, <2>5
<1>3. Without = {}
    <2>1. SUFFICES ASSUME Without # {} PROVE FALSE
        OBVIOUS
    <2>2. sizes \in SUBSET Nat /\ sizes # {}
        BY <1>1, <2>1
    <2> HIDE DEF Without
    <2>3. PICK m \in sizes : \A n \in sizes : m <= n
        BY <2>2, LeastOf
    <2>4. PICK T \in Without : m = Cardinality(T)
        BY <2>3
    <2>5. PICK U \in Without : Cardinality(U) < Cardinality(T)
        BY <1>2, <2>4
    <2>6. Cardinality(U) \in sizes
        BY <2>5
    <2>7. m \in Nat /\ Cardinality(U) \in Nat /\ m <= Cardinality(U)
        BY <2>2, <2>3, <2>6
    <2> QED
        BY <2>4, <2>5, <2>7
<1>4. \E c \in Container : Fastest(Container, c)
    BY <1>3, ContainerAssumption
<1> QED
    BY <1>4

LEMMA SlowestClock ==
    \E c \in Container : \A d \in Container : Skew[c] <= Skew[d]
<1>1. {Skew[c] : c \in Container} \in SUBSET Nat /\ {Skew[c] : c \in Container} # {}
    BY SkewAssumption, ContainerAssumption
<1>2. PICK m \in {Skew[c] : c \in Container} : \A n \in {Skew[c] : c \in Container} : m <= n
    BY <1>1, LeastOf
<1> QED
    BY <1>2

\* No clock is ahead of another by more than the spread.
LEMMA SpreadBounds ==
    /\ ClockSpread \in Nat
    /\ \A c, d \in Container : Skew[c] <= Skew[d] + ClockSpread
<1>0. \A c \in Container : Skew[c] \in Nat
    BY SkewAssumption
<1>1. PICK a \in Container : \A d \in Container : Skew[d] <= Skew[a]
    BY FastestClock
<1>2. PICK b \in Container : \A d \in Container : Skew[b] <= Skew[d]
    BY SlowestClock
<1> DEFINE ahead == {Skew[c] - Skew[d] : c, d \in Container}
<1>3. \A x \in ahead : x \in Int /\ x <= Skew[a] - Skew[b]
    BY <1>0, <1>1, <1>2
<1>4. Skew[a] - Skew[b] \in ahead /\ Skew[a] - Skew[b] \in Nat
    BY <1>0, <1>1, <1>2
<1>5. \A c, d \in Container : Skew[c] - Skew[d] \in ahead
    OBVIOUS
<1> HIDE DEF ahead
<1>6. Max(ahead) \in ahead /\ \A x \in ahead : Max(ahead) >= x
    BY <1>3, <1>4 DEF Max
<1>7. ClockSpread = Max(ahead)
    BY DEF ClockSpread, ahead
<1>8. ClockSpread \in Nat
    BY <1>3, <1>4, <1>6, <1>7
<1>9. ASSUME NEW c \in Container, NEW d \in Container PROVE Skew[c] <= Skew[d] + ClockSpread
    <2>1. Skew[c] - Skew[d] <= ClockSpread
        BY <1>3, <1>5, <1>6, <1>7
    <2> QED
        BY <1>0, <1>8, <2>1
<1> QED
    BY <1>8, <1>9

\* An entry's ts tells when it was written, but for the spread of the clocks.
Timed ==
    /\ \A i \in DOMAIN ledger, c \in Container :
          ledger[i].ts + (Len(ledger) + 1 - i) <= now + Skew[c] + ClockSpread
    /\ \A i, j \in DOMAIN ledger :
          i < j => ledger[i].ts + (j - i) <= ledger[j].ts + ClockSpread

LEMMA TimedStep ==
    ASSUME BaseInv, Timed, [Next]_vars
    PROVE  Timed'
<1>0. /\ TablesOK /\ now \in Nat /\ ClockSpread \in Nat /\ ClockSpread' = ClockSpread
      /\ \A c \in Container : Skew[c] \in Nat
    BY SpreadBounds, SkewAssumption DEF BaseInv, ProbeInv, TablesOK, ClockSpread, Max
<1>1. CASE ledger' = ledger /\ now' >= now
    <2>1. now' \in Nat
        BY <1>0, BaseInvStep DEF BaseInv, ProbeInv, TablesOK
    <2>2. \A i \in DOMAIN ledger : i \in Nat /\ ledger[i].ts \in Nat
        BY <1>0, LedgerType
    <2>3. ASSUME NEW i \in DOMAIN ledger, NEW c \in Container
          PROVE  ledger[i].ts + (Len(ledger) + 1 - i) <= now' + Skew[c] + ClockSpread
        <3>1. ledger[i].ts + (Len(ledger) + 1 - i) <= now + Skew[c] + ClockSpread
            BY DEF Timed
        <3> QED
            BY <1>0, <1>1, <2>1, <2>2, <3>1, LedgerType
    <2> QED
        BY <1>0, <1>1, <2>3 DEF Timed
<1>2. ASSUME NEW kind \in Kind, NEW h \in Host \cup {NoHost}, NEW c \in Container,
             Record(kind, h, c)
      PROVE  Timed'
    <2> DEFINE n == Len(ledger) + 1
    <2>1. /\ DOMAIN ledger' = DOMAIN ledger \cup {n} /\ Len(ledger') = n
          /\ \A i \in DOMAIN ledger : ledger'[i] = ledger[i]
          /\ ledger'[n] = [kind |-> kind, target |-> h, ts |-> now + Skew[c]]
          /\ now' = now + 1
        BY <1>0, <1>2, RecordEffect
    <2>2. /\ n \in Nat
          /\ \A i \in DOMAIN ledger : i \in Nat /\ i < n /\ ledger[i].ts \in Nat
        BY <1>0, LedgerType
    <2>3. \A i \in DOMAIN ledger, d \in Container :
             ledger[i].ts + (n - i) <= now + Skew[d] + ClockSpread
        BY DEF Timed
    <2>6. ledger'[n].ts = now + Skew[c]
        BY <2>1
    <2> HIDE DEF n
    <2>4. ASSUME NEW i \in DOMAIN ledger', NEW d \in Container
          PROVE  ledger'[i].ts + (Len(ledger') + 1 - i) <= now' + Skew[d] + ClockSpread
        <3>1. CASE i \in DOMAIN ledger
            <4>1. ledger[i].ts + (n - i) <= now + Skew[d] + ClockSpread
                BY <2>3, <3>1
            <4> QED
                BY <1>0, <2>1, <2>2, <3>1, <4>1
        <3>2. CASE i = n
            <4>1. Skew[c] <= Skew[d] + ClockSpread
                BY SpreadBounds
            <4> QED
                BY <1>0, <2>1, <2>2, <2>6, <3>2, <4>1
        <3> QED
            BY <2>1, <3>1, <3>2
    <2>5. ASSUME NEW i \in DOMAIN ledger', NEW j \in DOMAIN ledger', i < j
          PROVE  ledger'[i].ts + (j - i) <= ledger'[j].ts + ClockSpread
        <3>1. i \in DOMAIN ledger
            BY <2>1, <2>2, <2>5
        <3>2. CASE j \in DOMAIN ledger
            BY <2>1, <2>5, <3>1, <3>2 DEF Timed
        <3>3. CASE j = n
            BY <2>1, <2>3, <2>6, <3>1, <3>3
        <3> QED
            BY <2>1, <3>2, <3>3
    <2> QED
        BY <1>0, <2>4, <2>5 DEF Timed
<1> QED
    BY <1>1, <1>2, LedgerMoves

-----------------------------------------------------------------------------
(* Audits on one allow.                                                    *)

\* The audits of a host since its last allow.
Fresh(h) ==
    {i \in EntriesOf(h, {"audit"}) : \A k \in EntriesOf(h, {"allow"}) : k < i}

\* The loops and the handlers that hold a verdict that it was allowed to go.
Keepers(h) == {c \in Container : task[c].audited /\ task[c].host = h}

SyncKeepers(h) == {q \in Request : sync[q].audited /\ sync[q].host = h}

Observers == Cardinality(Container) + Cardinality(Request)

SpentInv(h) ==
    /\ Cardinality(Fresh(h)) + Cardinality(Keepers(h)) + Cardinality(SyncKeepers(h))
          <= Observers + ClockSpread
    /\ Keepers(h) # {} \/ SyncKeepers(h) # {} => EntriesOf(h, {"allow"}) # {}
    /\ \A j \in EntriesOf(h, {"audit"}) :
          /\ \E k \in EntriesOf(h, {"allow"}) : k < j
          /\ Cardinality(SpentOn(h, j)) <= Observers + ClockSpread

\* What a step means to a host: something else; a verdict; an audit.
Passes(h) ==
    /\ \/ ledger' = ledger
       \/ \E kind \in Kind, g \in Host \cup {NoHost}, c \in Container :
             Record(kind, g, c) /\ (kind = "audit" => g # h)
    /\ Keepers(h)' \subseteq Keepers(h) /\ SyncKeepers(h)' \subseteq SyncKeepers(h)

Approves(h) == ledger' = ledger /\ RecentAllowExists(h)

Audits(h) ==
    /\ \E c \in Container : Record("audit", h, c)
    /\ \/ /\ \E c \in Keepers(h) : Keepers(h)' = Keepers(h) \ {c}
          /\ SyncKeepers(h)' = SyncKeepers(h)
       \/ /\ \E q \in SyncKeepers(h) : SyncKeepers(h)' = SyncKeepers(h) \ {q}
          /\ Keepers(h)' = Keepers(h)

Moves(h) == Passes(h) \/ Approves(h) \/ Audits(h)

LEMMA KeepersType ==
    ASSUME NEW h
    PROVE  /\ IsFiniteSet(Keepers(h)) /\ Cardinality(Keepers(h)) \in Nat
           /\ Cardinality(Keepers(h)) <= Cardinality(Container)
           /\ IsFiniteSet(SyncKeepers(h)) /\ Cardinality(SyncKeepers(h)) \in Nat
           /\ Cardinality(SyncKeepers(h)) <= Cardinality(Request)
           /\ Cardinality(Container) \in Nat /\ Cardinality(Request) \in Nat
           /\ Observers \in Nat
<1>1. Keepers(h) \in SUBSET Container /\ SyncKeepers(h) \in SUBSET Request
    BY DEF Keepers, SyncKeepers
<1> QED
    BY <1>1, ContainerAssumption, RequestAssumption, FS_Subset, FS_CardinalityType DEF Observers

LEMMA FreshType ==
    ASSUME TablesOK, NEW h, NEW j
    PROVE  /\ IsFiniteSet(Fresh(h)) /\ Cardinality(Fresh(h)) \in Nat
           /\ IsFiniteSet(SpentOn(h, j)) /\ Cardinality(SpentOn(h, j)) \in Nat
<1>1. /\ Fresh(h) \in SUBSET EntriesOf(h, {"audit"})
      /\ SpentOn(h, j) \in SUBSET EntriesOf(h, {"audit"})
    BY DEF Fresh, SpentOn
<1> QED
    BY <1>1, EntriesType, FS_Subset, FS_CardinalityType

\* What an audit of the host adds to those since its last allow.
LEMMA FreshGrows ==
    ASSUME TablesOK, NEW c \in Container, NEW h \in Host, Record("audit", h, c),
           NEW n, n = Len(ledger) + 1
    PROVE  /\ EntriesOf(h, {"audit"})' = EntriesOf(h, {"audit"}) \cup {n}
           /\ EntriesOf(h, {"allow"})' = EntriesOf(h, {"allow"})
           /\ Cardinality(Fresh(h)') = Cardinality(Fresh(h)) + 1
           /\ SpentOn(h, n)' = Fresh(h)'
           /\ \A k \in EntriesOf(h, {"allow"}) : k < n
<1> DEFINE A == EntriesOf(h, {"audit"})
           L == EntriesOf(h, {"allow"})
<1>1. /\ n \in Nat /\ \A i \in A \cup L : i \in Nat /\ i < n
    BY LedgerType DEF EntriesOf
<1>2. A' = A \cup {n} /\ L' = L
    BY EntriesGrow DEF Kind
<1>3. /\ Fresh(h) = {i \in A : \A k \in L : k < i}
      /\ Fresh(h)' = {i \in A' : \A k \in L' : k < i}
      /\ SpentOn(h, n)' = {i \in A' : i <= n /\ \A k \in L' : k < i \/ n < k}
    BY DEF Fresh, SpentOn
<1> HIDE DEF A, L
<1>4. Fresh(h)' = Fresh(h) \cup {n} /\ n \notin Fresh(h)
    BY <1>1, <1>2, <1>3
<1>5. \A i \in A' : i <= n /\ \A k \in L' : k < i \/ n < k <=> k < i
    BY <1>1, <1>2
<1>6. SpentOn(h, n)' = Fresh(h)'
    BY <1>3, <1>5
<1>7. IsFiniteSet(Fresh(h)) /\ Cardinality(Fresh(h) \cup {n}) = Cardinality(Fresh(h)) + 1
    BY <1>4, FreshType, FS_AddElement
<1> QED
    BY <1>1, <1>2, <1>4, <1>6, <1>7 DEF A, L

\* Any other append leaves them, or makes an end of them.
LEMMA FreshStays ==
    ASSUME TablesOK, NEW kind \in Kind, NEW g \in Host \cup {NoHost}, NEW c \in Container,
           Record(kind, g, c), NEW h \in Host, kind = "audit" => g # h
    PROVE  /\ Fresh(h)' = Fresh(h) \/ Fresh(h)' = {}
           /\ EntriesOf(h, {"audit"})' = EntriesOf(h, {"audit"})
           /\ EntriesOf(h, {"allow"}) \subseteq EntriesOf(h, {"allow"})'
<1> DEFINE n == Len(ledger) + 1
           A == EntriesOf(h, {"audit"})
           L == EntriesOf(h, {"allow"})
<1>1. /\ n \in Nat /\ \A i \in A \cup L : i \in Nat /\ i < n
    BY LedgerType DEF EntriesOf
<1>2. A' = A /\ (L' = L \/ L' = L \cup {n})
    BY EntriesGrow
<1>3. /\ Fresh(h) = {i \in A : \A k \in L : k < i}
      /\ Fresh(h)' = {i \in A' : \A k \in L' : k < i}
    BY DEF Fresh
<1> HIDE DEF n, A, L
<1>4. Fresh(h)' = Fresh(h) \/ Fresh(h)' = {}
    BY <1>1, <1>2, <1>3
<1> QED
    BY <1>2, <1>4 DEF A, L

\* What was spent up to an entry stays as it was.
LEMMA SpentStays ==
    ASSUME TablesOK, NEW kind \in Kind, NEW g \in Host \cup {NoHost}, NEW c \in Container,
           Record(kind, g, c), NEW h \in Host, NEW j \in EntriesOf(h, {"audit"})
    PROVE  SpentOn(h, j)' = SpentOn(h, j)
<1> DEFINE n == Len(ledger) + 1
           A == EntriesOf(h, {"audit"})
           L == EntriesOf(h, {"allow"})
<1>1. /\ n \in Nat /\ j \in Nat /\ j < n /\ \A i \in A \cup L : i \in Nat /\ i < n
    BY LedgerType DEF EntriesOf
<1>2. (A' = A \/ A' = A \cup {n}) /\ (L' = L \/ L' = L \cup {n})
    BY EntriesGrow
<1>3. /\ SpentOn(h, j) = {i \in A : i <= j /\ \A k \in L : k < i \/ j < k}
      /\ SpentOn(h, j)' = {i \in A' : i <= j /\ \A k \in L' : k < i \/ j < k}
    BY DEF SpentOn
<1> HIDE DEF n, A, L
<1>4. ~(n <= j) /\ \A i : (i \in A' /\ i <= j) <=> (i \in A /\ i <= j)
    BY <1>1, <1>2
<1>5. \A i : (\A k \in L' : k < i \/ j < k) <=> (\A k \in L : k < i \/ j < k)
    BY <1>1, <1>2
<1> QED
    BY <1>3, <1>4, <1>5

LEMMA NothingSpent ==
    ASSUME ledger' = ledger, NEW h
    PROVE  /\ Fresh(h)' = Fresh(h)
           /\ EntriesOf(h, {"audit"})' = EntriesOf(h, {"audit"})
           /\ EntriesOf(h, {"allow"})' = EntriesOf(h, {"allow"})
           /\ \A j : SpentOn(h, j)' = SpentOn(h, j)
BY DEF Fresh, SpentOn, EntriesOf

\* A verdict takes an allow for unspent only if the audits that have spent it
\* are fewer than the clocks' spread.
LEMMA FewSpent ==
    ASSUME TablesOK, Timed, NEW h, RecentAllowExists(h)
    PROVE  /\ Cardinality(Fresh(h)) <= ClockSpread
           /\ EntriesOf(h, {"allow"}) # {}
<1> DEFINE d == ClockSpread
<1>0. d \in Nat
    BY SpreadBounds
<1>1. PICK k \in DOMAIN ledger :
        /\ ledger[k].kind = "allow" /\ ledger[k].target = h
        /\ \A j \in DOMAIN ledger :
              ledger[j].kind = "audit" /\ ledger[j].target = h => ledger[k].ts > ledger[j].ts
    BY DEF RecentAllowExists
<1>2. k \in EntriesOf(h, {"allow"})
    BY <1>1 DEF EntriesOf
<1>3. \A i \in DOMAIN ledger : i \in Nat /\ ledger[i].ts \in Nat
    BY LedgerType
<1>4. \A i, j \in DOMAIN ledger : i < j => ledger[i].ts + (j - i) <= ledger[j].ts + d
    BY DEF Timed
<1> HIDE DEF d
<1>5. ASSUME NEW j \in Fresh(h) PROVE j \in k + 1 .. k + d
    <2>1. /\ j \in DOMAIN ledger /\ ledger[j].kind = "audit" /\ ledger[j].target = h /\ k < j
        BY <1>2 DEF Fresh, EntriesOf
    <2>2. ledger[k].ts > ledger[j].ts /\ ledger[k].ts + (j - k) <= ledger[j].ts + d
        BY <1>1, <1>4, <2>1
    <2>3. j \in Nat /\ k \in Nat /\ ledger[j].ts \in Nat /\ ledger[k].ts \in Nat
        BY <1>1, <1>3, <2>1
    <2>4. j - k <= d
        BY <1>0, <2>2, <2>3
    <2> QED
        BY <1>0, <2>1, <2>3, <2>4
<1>6. k + 1 \in Int /\ k + d \in Int
    BY <1>0, <1>3
<1>7. IsFiniteSet(k + 1 .. k + d) /\ Cardinality(k + 1 .. k + d) = d
    BY <1>0, <1>3, <1>6, FS_Interval
<1>8. Cardinality(Fresh(h)) <= d
    <2>1. Fresh(h) \in SUBSET (k + 1 .. k + d)
        BY <1>5
    <2> QED
        BY <1>7, <2>1, FS_Subset
<1> QED
    BY <1>2, <1>8 DEF d

\* Whatever has become of them, there are no more keepers than observers.
LEMMA KeepersBound ==
    ASSUME NEW h
    PROVE  /\ Cardinality(Keepers(h)') \in Nat /\ Cardinality(SyncKeepers(h)') \in Nat
           /\ Cardinality(Keepers(h)') + Cardinality(SyncKeepers(h)') <= Observers
<1>1. Keepers(h)' \in SUBSET Container /\ SyncKeepers(h)' \in SUBSET Request
    BY DEF Keepers, SyncKeepers
<1>2. /\ Cardinality(Keepers(h)') \in Nat /\ Cardinality(SyncKeepers(h)') \in Nat
      /\ Cardinality(Keepers(h)') <= Cardinality(Container)
      /\ Cardinality(SyncKeepers(h)') <= Cardinality(Request)
      /\ Cardinality(Container) \in Nat /\ Cardinality(Request) \in Nat
    BY <1>1, ContainerAssumption, RequestAssumption, FS_Subset, FS_CardinalityType
<1> QED
    BY <1>2 DEF Observers

\* Fewer keepers, or a verdict; or one keeper less for one audit more.
LEMMA StillFew ==
    ASSUME NEW f \in Nat, NEW k \in Nat, NEW s \in Nat, NEW o \in Nat, NEW d \in Nat,
           NEW f1 \in Nat, NEW k1 \in Nat, NEW s1 \in Nat
    PROVE  /\ f + k + s <= o + d /\ (f1 = f \/ f1 = 0) /\ k1 <= k /\ s1 <= s
                => f1 + k1 + s1 <= o + d
           /\ f1 = f /\ f <= d /\ k1 + s1 <= o => f1 + k1 + s1 <= o + d
           /\ f + k + s <= o + d /\ f1 = f + 1 /\ k1 + s1 = k + s - 1
                => f1 + k1 + s1 <= o + d /\ f1 <= o + d
OBVIOUS

LEMMA SpentInvStep ==
    ASSUME BaseInv, Timed, NEW h \in Host, SpentInv(h), Moves(h)
    PROVE  SpentInv(h)'
<1> DEFINE F == Cardinality(Fresh(h))
           K == Cardinality(Keepers(h))
           S == Cardinality(SyncKeepers(h))
           most == Observers + ClockSpread
           Held == Keepers(h) # {} \/ SyncKeepers(h) # {}
           A == EntriesOf(h, {"audit"})
           L == EntriesOf(h, {"allow"})
<1>0. TablesOK /\ ClockSpread' = ClockSpread /\ Observers' = Observers
    BY DEF BaseInv, ProbeInv, ClockSpread, Max, Observers
<1>1. /\ F \in Nat /\ K \in Nat /\ S \in Nat /\ ClockSpread \in Nat /\ Observers \in Nat
      /\ K' \in Nat /\ S' \in Nat /\ K' + S' <= Observers
    BY <1>0, FreshType, KeepersType, KeepersBound, SpreadBounds
<1>2. F + K + S <= most /\ (Held => L # {})
    BY DEF SpentInv
<1>3. ASSUME NEW j \in A
      PROVE  (\E k \in L : k < j) /\ Cardinality(SpentOn(h, j)) <= most
    BY <1>3 DEF SpentInv
<1>4. SUFFICES /\ F' + K' + S' <= most /\ (Held' => L' # {})
               /\ \A j \in A' : /\ \E k \in L' : k < j
                               /\ Cardinality(SpentOn(h, j)') <= most
    BY <1>0 DEF SpentInv
<1>5. ASSUME ledger' = ledger
      PROVE  /\ F' = F /\ L' = L
             /\ \A j \in A' : /\ \E k \in L' : k < j
                             /\ Cardinality(SpentOn(h, j)') <= most
    <2>1. Fresh(h)' = Fresh(h) /\ A' = A /\ L' = L
        BY <1>5, NothingSpent
    <2>2. ASSUME NEW j \in A'
          PROVE  (\E k \in L' : k < j) /\ Cardinality(SpentOn(h, j)') <= most
        <3>1. j \in A /\ SpentOn(h, j)' = SpentOn(h, j)
            BY <1>5, <2>1, <2>2, NothingSpent
        <3> QED
            BY <1>3, <2>1, <3>1
    <2> QED
        BY <2>1, <2>2
<1>6. ASSUME Keepers(h)' \subseteq Keepers(h), SyncKeepers(h)' \subseteq SyncKeepers(h)
      PROVE  K' <= K /\ S' <= S /\ (Held' => Held)
    BY <1>6, KeepersType, FS_Subset
<1>7. CASE Passes(h)
    <2>1. K' <= K /\ S' <= S /\ (Held' => Held)
        BY <1>6, <1>7 DEF Passes
    <2>2. CASE ledger' = ledger
        <3>1. F' = F /\ L' = L
            BY <1>5, <2>2
        <3>2. F' + K' + S' <= most
            BY <1>1, <1>2, <2>1, <3>1, StillFew
        <3> QED
            BY <1>2, <1>5, <2>1, <2>2, <3>1, <3>2
    <2>3. ASSUME NEW kind \in Kind, NEW g \in Host \cup {NoHost}, NEW c \in Container,
                 Record(kind, g, c), kind = "audit" => g # h
          PROVE  /\ F' + K' + S' <= most /\ (Held' => L' # {})
                 /\ \A j \in A' : /\ \E k \in L' : k < j
                                 /\ Cardinality(SpentOn(h, j)') <= most
        <3>1. /\ Fresh(h)' = Fresh(h) \/ Fresh(h)' = {}
              /\ A' = A /\ L \subseteq L'
            BY <1>0, <2>3, FreshStays
        <3>2. F' = F \/ F' = 0
            BY <3>1, FS_EmptySet
        <3>3. ASSUME NEW j \in A'
              PROVE  (\E k \in L' : k < j) /\ Cardinality(SpentOn(h, j)') <= most
            <4>1. j \in A
                BY <3>1, <3>3
            <4>2. SpentOn(h, j)' = SpentOn(h, j)
                BY <1>0, <2>3, <4>1, SpentStays
            <4> QED
                BY <1>3, <3>1, <4>1, <4>2
        <3>4. F' \in Nat
            BY <1>1, <3>2
        <3>5. F' + K' + S' <= most
            BY <1>1, <1>2, <2>1, <3>2, <3>4, StillFew
        <3> QED
            BY <1>2, <2>1, <3>1, <3>3, <3>5
    <2> QED
        BY <1>7, <2>2, <2>3 DEF Passes
<1>8. CASE Approves(h)
    <2>1. F' = F /\ L' = L
        BY <1>5, <1>8 DEF Approves
    <2>2. F <= ClockSpread /\ L # {}
        BY <1>0, <1>8, FewSpent DEF Approves
    <2>3. \A j \in A' : (\E k \in L' : k < j) /\ Cardinality(SpentOn(h, j)') <= most
        BY <1>5, <1>8 DEF Approves
    <2>4. F' + K' + S' <= most
        BY <1>1, <2>1, <2>2, StillFew
    <2> QED
        BY <2>1, <2>2, <2>3, <2>4
<1>9. CASE Audits(h)
    <2>1. PICK c \in Container : Record("audit", h, c)
        BY <1>9 DEF Audits
    <2>0. PICK n : n = Len(ledger) + 1
        OBVIOUS
    <2>2. /\ A' = A \cup {n} /\ L' = L /\ F' = F + 1 /\ SpentOn(h, n)' = Fresh(h)'
          /\ \A k \in L : k < n
        BY <1>0, <2>0, <2>1, FreshGrows
    <2>3. Held /\ (Held' => Held) /\ K' + S' = K + S - 1
        <3>1. ASSUME NEW x \in Keepers(h), Keepers(h)' = Keepers(h) \ {x},
                     SyncKeepers(h)' = SyncKeepers(h)
              PROVE  Held /\ (Held' => Held) /\ K' + S' = K + S - 1
            <4>1. K' = K - 1 /\ S' = S
                BY <3>1, KeepersType, FS_RemoveElement
            <4>2. Held /\ (Held' => Held)
                BY <3>1
            <4> QED
                BY <1>1, <4>1, <4>2
        <3>2. ASSUME NEW x \in SyncKeepers(h), SyncKeepers(h)' = SyncKeepers(h) \ {x},
                     Keepers(h)' = Keepers(h)
              PROVE  Held /\ (Held' => Held) /\ K' + S' = K + S - 1
            <4>1. S' = S - 1 /\ K' = K
                BY <3>2, KeepersType, FS_RemoveElement
            <4>2. Held /\ (Held' => Held)
                BY <3>2
            <4> QED
                BY <1>1, <4>1, <4>2
        <3> QED
            BY <1>9, <3>1, <3>2 DEF Audits
    <2>4. F' + K' + S' <= most /\ F' <= most
        <3>1. F' \in Nat
            BY <1>1, <2>2
        <3> QED
            BY <1>1, <1>2, <2>2, <2>3, <3>1, StillFew
    <2>5. ASSUME NEW j \in A'
          PROVE  (\E k \in L' : k < j) /\ Cardinality(SpentOn(h, j)') <= most
        <3>1. CASE j \in A
            <4>1. SpentOn(h, j)' = SpentOn(h, j)
                BY <1>0, <2>1, <3>1, SpentStays DEF Kind
            <4> QED
                BY <1>3, <2>2, <3>1, <4>1
        <3>2. CASE j = n
            <4>1. Cardinality(SpentOn(h, j)') <= most
                BY <2>2, <2>4, <3>2
            <4>2. PICK k \in L : TRUE
                BY <1>2, <2>3
            <4> QED
                BY <2>2, <3>2, <4>1, <4>2
        <3> QED
            BY <2>2, <3>1, <3>2
    <2> QED
        BY <1>2, <2>2, <2>3, <2>4, <2>5
<1> QED
    BY <1>7, <1>8, <1>9 DEF Moves

\* A loop moves, and keeps at most the verdict that it had.
LEMMA LoopPasses ==
    ASSUME NEW c \in Container, NEW h \in Host, UNCHANGED syncVars,
           \A d \in Container : d # c => task'[d] = task[d],
           task'[c].audited => task[c].audited /\ task'[c].host = task[c].host,
           \/ ledger' = ledger
           \/ \E kind \in Kind, g \in Host \cup {NoHost}, d \in Container :
                 Record(kind, g, d) /\ (kind = "audit" => g # h)
    PROVE  Passes(h)
<1>1. Keepers(h)' \subseteq Keepers(h)
    BY DEF Keepers
<1>2. SyncKeepers(h)' = SyncKeepers(h)
    BY DEF SyncKeepers, syncVars
<1> QED
    BY <1>1, <1>2 DEF Passes

LEMMA LoopMoves ==
    ASSUME BaseInv, NEW c \in Container, ProbeStep(c), UNCHANGED syncVars, NEW h \in Host
    PROVE  Moves(h)
<1>0. ProbeInv /\ TablesOK /\ task[c].audited \in BOOLEAN
    BY DEF BaseInv, ProbeInv, ProbeOK
<1>1. ASSUME UNCHANGED ledger, \A d \in Container : d # c => task'[d] = task[d],
             task'[c].audited => task[c].audited /\ task'[c].host = task[c].host
      PROVE  Moves(h)
    BY <1>1, LoopPasses DEF Moves
<1>2. CASE RecordRemoval(c)
    <2> DEFINE kind == IF task[c].audited THEN "audit" ELSE "drift"
    <2>1. /\ task[c].host \in Host /\ Record(kind, task[c].host, c) /\ kind \in Kind
          /\ Resume(c)
        BY <1>0, <1>2, AtWork DEF RecordRemoval, At, Working, Kind
    <2>2. ~task'[c].audited /\ \A d \in Container : d # c => task'[d] = task[d]
        BY <1>0, <2>1, ResumeEffect
    <2>3. CASE task[c].audited /\ task[c].host = h
        <3>1. c \in Keepers(h) /\ Keepers(h)' = Keepers(h) \ {c}
            BY <2>2, <2>3 DEF Keepers
        <3>2. SyncKeepers(h)' = SyncKeepers(h)
            BY DEF SyncKeepers, syncVars
        <3> QED
            BY <2>1, <2>3, <3>1, <3>2 DEF Moves, Audits
    <2>4. CASE ~(task[c].audited /\ task[c].host = h)
        <3>1. kind = "audit" => task[c].host # h
            BY <1>0, <2>4
        <3> HIDE DEF kind
        <3> QED
            BY <2>1, <2>2, <3>1, LoopPasses DEF Moves
    <2> QED
        BY <2>3, <2>4
<1>3. CASE RecordReappear(c)
    <2>1. /\ task[c].host \in Host /\ Record("reappear", task[c].host, c)
          /\ "reappear" \in Kind /\ Resume(c)
        BY <1>0, <1>3, AtWork DEF RecordReappear, At, Working, Kind
    <2>2. ~task'[c].audited /\ \A d \in Container : d # c => task'[d] = task[d]
        BY <1>0, <2>1, ResumeEffect
    <2> QED
        BY <2>1, <2>2, LoopPasses DEF Moves
<1>4. CASE Verdict(c)
    <2>1. /\ ledger' = ledger /\ task[c].host \in Host
          /\ \A d \in Container : d # c => task'[d] = task[d]
          /\ task'[c].host = task[c].host
          /\ task'[c].audited = RecentAllowExists(task[c].host)
        BY <1>0, <1>4, VerdictStep, AtWork DEF Verdict, At, Working, tables
    <2>2. CASE task[c].host = h /\ RecentAllowExists(h)
        BY <2>1, <2>2 DEF Moves, Approves
    <2>3. CASE task[c].host # h
        <3>1. Keepers(h)' \subseteq Keepers(h)
            BY <2>1, <2>3 DEF Keepers
        <3>2. SyncKeepers(h)' = SyncKeepers(h)
            BY DEF SyncKeepers, syncVars
        <3> QED
            BY <2>1, <3>1, <3>2 DEF Moves, Passes
    <2>4. CASE task[c].host = h /\ ~RecentAllowExists(h)
        BY <1>1, <2>1, <2>4
    <2> QED
        BY <2>2, <2>3, <2>4
<1>5. CASE ClaimRemoval(c) \/ ClaimReappear(c) \/ ResetFailures(c) \/ CountFailure(c)
    BY <1>0, <1>1, <1>5, GotoEffect, ResumeEffect
       DEF ClaimRemoval, ClaimReappear, ResetFailures, CountFailure, Point
<1>6. CASE StatementFails(c)
    <2>1. ledger' = ledger
        BY <1>6 DEF StatementFails
    <2> QED
        BY <1>0, <1>1, <1>6, <2>1, StatementFailsStep, GotoEffect, ResumeEffect DEF Point
<1>7. CASE CrashProbe(c)
    <2>1. ledger' = ledger
        BY <1>7 DEF CrashProbe
    <2> QED
        BY <1>0, <1>1, <1>7, <2>1, CrashProbeStep DEF Asleep
<1>8. CASE StartCycle(c)
    <2>1. ledger' = ledger
        BY <1>8 DEF StartCycle, tables
    <2> QED
        BY <1>0, <1>1, <1>8, <2>1, StartCycleStep
<1>9. CASE EndCycle(c)
    <2>1. ledger' = ledger
        BY <1>9 DEF EndCycle, tables
    <2> QED
        BY <1>0, <1>1, <1>9, <2>1, EndCycleStep DEF Asleep
<1>10. ASSUME NEW g \in Host, JoinNext(c, g) PROVE Moves(h)
    <2>1. ledger' = ledger
        BY <1>10 DEF JoinNext, tables
    <2> QED
        BY <1>0, <1>1, <1>10, <2>1, JoinNextStep
<1>11. ASSUME NEW g \in Host, ProbeOne(c, g) PROVE Moves(h)
    <2>1. ledger' = ledger
        BY <1>11 DEF ProbeOne, tables
    <2> QED
        BY <1>0, <1>1, <1>11, <2>1, ProbeOneStep
<1> QED
    BY <1>2, <1>3, <1>4, <1>5, <1>6, <1>7, <1>8, <1>9, <1>10, <1>11 DEF ProbeStep, LoopStep

\* A handler moves, and keeps at most the verdict that it had.
LEMMA HandlerPasses ==
    ASSUME NEW q \in Request, NEW h \in Host, UNCHANGED probeVars,
           \A p \in Request : p # q => sync'[p] = sync[p],
           sync'[q].audited => sync[q].audited /\ sync'[q].host = sync[q].host,
           \/ ledger' = ledger
           \/ \E kind \in Kind, g \in Host \cup {NoHost}, d \in Container :
                 Record(kind, g, d) /\ (kind = "audit" => g # h)
    PROVE  Passes(h)
<1>1. SyncKeepers(h)' \subseteq SyncKeepers(h)
    BY DEF SyncKeepers
<1>2. Keepers(h)' = Keepers(h)
    BY DEF Keepers, probeVars
<1> QED
    BY <1>1, <1>2 DEF Passes

LEMMA HandlerMoves ==
    ASSUME BaseInv, SyncStep, UNCHANGED probeVars, NEW h \in Host
    PROVE  Moves(h)
<1>0. SyncInv /\ TablesOK
    BY DEF BaseInv, ProbeInv
<1>1. ASSUME NEW q \in Request, SyncRecord(q) PROVE Moves(h)
    <2> DEFINE kind == IF sync[q].audited THEN "audit" ELSE "drift"
    <2>1. /\ sync[q].host \in Host /\ Record(kind, sync[q].host, sync[q].container)
          /\ kind \in Kind /\ sync[q].container \in Container /\ sync[q].audited \in BOOLEAN
          /\ sync'[q].audited = FALSE /\ \A p \in Request : p # q => sync'[p] = sync[p]
        BY <1>0, <1>1, SyncRecordStep DEF Kind
    <2>2. CASE sync[q].audited /\ sync[q].host = h
        <3>1. q \in SyncKeepers(h) /\ SyncKeepers(h)' = SyncKeepers(h) \ {q}
            BY <2>1, <2>2 DEF SyncKeepers
        <3>2. Keepers(h)' = Keepers(h)
            BY DEF Keepers, probeVars
        <3> QED
            BY <2>1, <2>2, <3>1, <3>2 DEF Moves, Audits
    <2>3. CASE ~(sync[q].audited /\ sync[q].host = h)
        <3>1. kind = "audit" => sync[q].host # h
            BY <2>1, <2>3
        <3> HIDE DEF kind
        <3> QED
            BY <2>1, <3>1, HandlerPasses DEF Moves
    <2> QED
        BY <2>2, <2>3
<1>2. ASSUME NEW q \in Request, SyncEnd(q) PROVE Moves(h)
    <2>1. /\ Record("sync", NoHost, sync[q].container) /\ "sync" \in Kind
          /\ sync[q].container \in Container
          /\ sync'[q].audited = FALSE /\ \A p \in Request : p # q => sync'[p] = sync[p]
        BY <1>0, <1>2, SyncEndStep DEF Kind
    <2> QED
        BY <2>1, HandlerPasses DEF Moves
<1>3. ASSUME NEW q \in Request, NEW g \in Host, SyncVerdict(q, g) PROVE Moves(h)
    <2>1. /\ ledger' = ledger /\ \A p \in Request : p # q => sync'[p] = sync[p]
          /\ sync'[q].host = g /\ (sync'[q].audited => RecentAllowExists(g))
        BY <1>0, <1>3, SyncVerdictStep
    <2>2. CASE sync'[q].audited /\ g = h
        BY <2>1, <2>2 DEF Moves, Approves
    <2>3. CASE ~(sync'[q].audited /\ g = h)
        <3>1. SyncKeepers(h)' \subseteq SyncKeepers(h)
            BY <2>1, <2>3 DEF SyncKeepers
        <3>2. Keepers(h)' = Keepers(h)
            BY DEF Keepers, probeVars
        <3> QED
            BY <2>1, <3>1, <3>2 DEF Moves, Passes
    <2> QED
        BY <2>2, <2>3
<1>4. ASSUME NEW q \in Request, UNCHANGED ledger,
             \A p \in Request : p # q => sync'[p] = sync[p],
             sync'[q].audited => sync[q].audited /\ sync'[q].host = sync[q].host
      PROVE  Moves(h)
    BY <1>4, HandlerPasses DEF Moves
<1>5. ASSUME NEW q \in Request, NEW c \in Container, SyncBegin(q, c) PROVE Moves(h)
    BY <1>0, <1>4, <1>5, SyncBeginStep DEF tables
<1>6. ASSUME NEW q \in Request, NEW g \in Host, SyncUpsert(q, g) PROVE Moves(h)
    BY <1>0, <1>4, <1>6, SyncUpsertStep
<1>7. ASSUME NEW q \in Request, SyncClaim(q) PROVE Moves(h)
    BY <1>0, <1>4, <1>7, SyncClaimStep
<1>8. ASSUME NEW q \in Request, SyncAbort(q) PROVE Moves(h)
    BY <1>0, <1>4, <1>8, SyncAbortStep
<1> QED
    BY <1>1, <1>2, <1>3, <1>5, <1>6, <1>7, <1>8 DEF SyncStep, HandlerStep

LEMMA StepMoves ==
    ASSUME BaseInv, [Next]_vars, NEW h \in Host
    PROVE  Moves(h)
<1>1. CASE SyncStep /\ UNCHANGED <<probeVars, flips, allows>>
    BY <1>1, HandlerMoves
<1>2. ASSUME NEW c \in Container, ProbeStep(c), UNCHANGED <<syncVars, flips, allows>>
      PROVE  Moves(h)
    BY <1>2, LoopMoves
<1>3. ASSUME \/ \E g \in Host : Flip(g) \/ \E c \in Container : Authorize(c, g)
             \/ TimePasses
             \/ UNCHANGED vars
      PROVE  Moves(h)
    <2>1. UNCHANGED <<task, sync>>
        BY <1>3, EnvironmentLeaves
    <2>2. Keepers(h)' = Keepers(h) /\ SyncKeepers(h)' = SyncKeepers(h)
        BY <2>1 DEF Keepers, SyncKeepers
    <2>3. \/ ledger' = ledger
          \/ \E kind \in Kind, g \in Host \cup {NoHost}, c \in Container :
                Record(kind, g, c) /\ (kind = "audit" => g # h)
        BY <1>3 DEF Flip, Authorize, TimePasses, WindowPasses, vars, tables, Kind
    <2> QED
        BY <2>2, <2>3 DEF Moves, Passes
<1> QED
    BY <1>1, <1>2, <1>3 DEF Next

AllSpent == \A h \in Host : SpentInv(h)

LEMMA InitAllSpent ==
    ASSUME Init
    PROVE  Timed /\ AllSpent
<1>1. Timed
    BY DEF Init, InitTables, Timed
<1>2. ASSUME NEW h \in Host PROVE SpentInv(h)
    <2>1. Fresh(h) = {} /\ EntriesOf(h, {"audit"}) = {}
        BY DEF Init, InitTables, Fresh, EntriesOf
    <2>2. Keepers(h) = {} /\ SyncKeepers(h) = {}
        BY RestTypes DEF Init, InitProbe, InitSync, Asleep, Keepers, SyncKeepers
    <2>3. Observers \in Nat /\ ClockSpread \in Nat
        BY KeepersType, SpreadBounds
    <2>4. Cardinality(Fresh(h)) + Cardinality(Keepers(h)) + Cardinality(SyncKeepers(h))
             <= Observers + ClockSpread
        BY <2>1, <2>2, <2>3, FS_EmptySet
    <2> QED
        BY <2>1, <2>2, <2>4 DEF SpentInv
<1> QED
    BY <1>1, <1>2 DEF AllSpent

\* For any containers, their clocks, sync requests, hosts and faults: every audit
\* has an allow before it, and an allow is spent no more often than there are
\* loops, syncs and ticks between the clocks (recent_allow_exists of ledger.rs,
\* handle_failure of probe.rs, topology_sync of http.rs).
THEOREM AllowsAreSpentOnceEach == Spec => []AllowSpentOnceEach
<1>1. Init => BaseInv /\ Timed /\ AllSpent
    BY InitBaseInv, InitAllSpent
<1>2. ASSUME BaseInv, Timed, AllSpent, [Next]_vars PROVE (BaseInv /\ Timed /\ AllSpent)'
    <2>1. BaseInv' /\ Timed'
        BY <1>2, BaseInvStep, TimedStep
    <2>2. ASSUME NEW h \in Host PROVE SpentInv(h)'
        BY <1>2, StepMoves, SpentInvStep DEF AllSpent
    <2> QED
        BY <2>1, <2>2 DEF AllSpent
<1>3. AllSpent => AllowSpentOnceEach
    BY DEF AllSpent, SpentInv, AllowSpentOnceEach, Observers
<1>4. BaseInv /\ Timed /\ AllSpent /\ [Next]_vars => (BaseInv /\ Timed /\ AllSpent)'
    BY <1>2
<1> QED
    BY <1>1, <1>3, <1>4, PTL DEF Spec
=============================================================================
