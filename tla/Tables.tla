------------------------------- MODULE Tables -------------------------------
(***************************************************************************)
(* The two Postgres tables the gate's containers share when they compare   *)
(* the network with the model: topology, and ledger as its readers see it. *)
(*                                                                         *)
(* An append is one step here.  Module Ledger models how it comes to be    *)
(* one: LedgerImplementsAppendLog is the licence for Record below.         *)
(*                                                                         *)
(* Time is counted in appends: `now` grows by one with every entry, so no  *)
(* two entries of one clock have the same ts, and by a whole Window when   *)
(* nothing happens for thirty minutes.                                     *)
(***************************************************************************)
EXTENDS Integers, Sequences, FiniteSetsExt

CONSTANTS
    Host,        \* hostnames
    NoHost,      \* the empty target of a topology.sync entry
    Container,   \* the gate's containers
    Skew,        \* how far each container's clock is ahead of Postgres'
    Window,      \* interval '30 minutes'
    MaxNow,      \* bound: no waiting past this time
    MaxFaults    \* bound: crashes and failed statements

ASSUME HostAssumption == NoHost \notin Host
ASSUME ContainerAssumption == Container # {} /\ IsFiniteSet(Container)
ASSUME SkewAssumption == Skew \in [Container -> Nat]
ASSUME BoundAssumption == Window \in Nat \ {0} /\ MaxNow \in Nat /\ MaxFaults \in Nat

VARIABLES
    topology,    \* table topology, by hostname: status, consecutive_failures
    ledger,      \* table ledger, in id order: what kind of entry, target, ts
    now,         \* Postgres' clock
    faults,      \* crashes and failed statements so far
    removals     \* history: how often each host was claimed as removed

tables == <<topology, ledger, now, faults, removals>>

Gone == {"removed-audited", "missing-unaudited"}
Status == {"absent", "present"} \cup Gone

\* `failures < 3` is the only test of the counter, so it stops at FailureCap.
Threshold == 3
FailureCap == 4

TopoRow == [status : Status, failures : 0..FailureCap]

\* Decisions are kept only where recent_allow_exists looks for them: "allow"
\* stands for an allowed service.stop or service.delete.
Kind == {"allow", "audit", "drift", "reappear", "sync"}

\* A seeded topology; hosts the seed does not name come with a later sync.
InitTables ==
    /\ topology \in [Host -> {[status |-> "absent", failures |-> 0],
                              [status |-> "present", failures |-> 0]}]
    /\ ledger = <<>>
    /\ now = 0
    /\ faults = 0
    /\ removals = [h \in Host |-> [audited |-> 0, unaudited |-> 0]]

\* ledger::append by container c: the ts is that container's clock.
Record(kind, h, c) ==
    /\ ledger' = Append(ledger, [kind |-> kind, target |-> h, ts |-> now + Skew[c]])
    /\ now' = now + 1

\* Mutant: without the COALESCE clause, an allow is never spent.
MutRecentAllowExists(h) ==
    \E i \in DOMAIN ledger :
        /\ ledger[i].kind = "allow" /\ ledger[i].target = h
        /\ ledger[i].ts > now - Window

\* An allow for the target inside the window and after its last audit.
RecentAllowExists(h) ==
    \E i \in DOMAIN ledger :
        /\ ledger[i].kind = "allow" /\ ledger[i].target = h
        /\ ledger[i].ts > now - Window
        /\ \A j \in DOMAIN ledger :
              ledger[j].kind = "audit" /\ ledger[j].target = h
                => ledger[i].ts > ledger[j].ts

\* Mutant: a status the rest of the code does not know.
MutStatusFor(audited) == IF audited THEN "removed-audited" ELSE "missing"

StatusFor(audited) == IF audited THEN "removed-audited" ELSE "missing-unaudited"

\* UPDATE topology SET status=$2 WHERE hostname=$1 AND status='present'
ClaimRemoved(h, audited) ==
    IF topology[h].status = "present"
    THEN /\ topology' = [topology EXCEPT ![h].status = StatusFor(audited)]
         /\ removals' = [removals EXCEPT
                            ![h].audited = IF audited THEN @ + 1 ELSE @,
                            ![h].unaudited = IF audited THEN @ ELSE @ + 1]
    ELSE UNCHANGED <<topology, removals>>

\* Thirty minutes in which nobody appends anything.
WindowPasses ==
    /\ now + Window <= MaxNow
    /\ now' = now + Window
    /\ UNCHANGED <<topology, ledger, faults, removals>>

TablesOK ==
    /\ topology \in [Host -> TopoRow]
    /\ ledger \in Seq([kind : Kind, target : Host \cup {NoHost}, ts : Nat])
    /\ now \in Nat
    /\ faults \in 0..MaxFaults
    /\ removals \in [Host -> [audited : Nat, unaudited : Nat]]

-----------------------------------------------------------------------------
(* What the ledger says about a host.                                      *)

EntriesOf(h, kinds) ==
    {i \in DOMAIN ledger : ledger[i].target = h /\ ledger[i].kind \in kinds}

\* The status the newest entry about the host explains.
ExplainedStatus(h) ==
    LET about == EntriesOf(h, {"audit", "drift", "reappear"})
    IN  IF about = {} THEN "present"
        ELSE CASE ledger[Max(about)].kind = "audit" -> "removed-audited"
               [] ledger[Max(about)].kind = "drift" -> "missing-unaudited"
               [] ledger[Max(about)].kind = "reappear" -> "present"
=============================================================================
