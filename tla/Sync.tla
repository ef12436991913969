-------------------------------- MODULE Sync --------------------------------
(***************************************************************************)
(* POST /v1/topology/sync (topology_sync of gate/src/http.rs): an operator *)
(* sends a snapshot, the handler restores what it names and flags what it  *)
(* leaves out.  A handler works from one read of the table, made before    *)
(* everything else, and is not a transaction: it may end at any await, by  *)
(* an error (503) or because the client hung up and the future is dropped. *)
(* Nothing keeps handlers apart: any number of them are at work at a time, *)
(* on any containers, beside each other and beside the probe loops.        *)
(***************************************************************************)
EXTENDS Tables

CONSTANT Request    \* the requests there may be with a valid token and body

ASSUME RequestAssumption == IsFiniteSet(Request)

VARIABLES
    sync,      \* each request: where its handler is, and the handler's locals
    late       \* history: syncs that found a removal claimed, by their verdict

syncVars == <<sync, late>>

\* A request before it is sent, and after its handler has ended.
Waiting == [at |-> "waiting", container |-> CHOOSE c \in Container : TRUE, upserts |-> {},
            missing |-> {}, host |-> NoHost, audited |-> FALSE]
Ended == [Waiting EXCEPT !.at = "ended"]

InitSync ==
    /\ sync = [q \in Request |-> Waiting]
    /\ late = [h \in Host |-> [audited |-> 0, unaudited |-> 0]]

Handling(q, point) == sync[q].at = point

\* The rows the handler takes for removed.
Missing(snapshot) == {h \in Host : topology[h].status = "present"} \ snapshot

\* topology::all.  What the handler is going to do is settled by this read and
\* the snapshot, however the rows change before it comes to them.
SyncBegin(q, c) ==
    /\ Handling(q, "waiting")
    /\ \E snapshot \in SUBSET Host :
          sync' = [sync EXCEPT ![q] = [Waiting EXCEPT !.at = "rows", !.container = c,
                                                      !.upserts = snapshot,
                                                      !.missing = Missing(snapshot)]]
    /\ UNCHANGED <<tables, late>>

\* Whatever the row's status was, a service in the snapshot is present.
SyncUpsert(q, h) ==
    /\ Handling(q, "rows")
    /\ h \in sync[q].upserts
    /\ topology' = [topology EXCEPT ![h] = [status |-> "present", failures |-> 0]]
    /\ sync' = [sync EXCEPT ![q].upserts = @ \ {h}]
    /\ UNCHANGED <<ledger, now, faults, removals, late>>

\* recent_allow_exists(...).unwrap_or(false)
SyncVerdict(q, h) ==
    /\ Handling(q, "rows")
    /\ sync[q].upserts = {} /\ h \in sync[q].missing
    /\ \/ /\ sync' = [sync EXCEPT ![q].at = "claim", ![q].host = h,
                                     ![q].audited = RecentAllowExists(h)]
          /\ UNCHANGED tables
       \/ /\ faults < MaxFaults
          /\ sync' = [sync EXCEPT ![q].at = "claim", ![q].host = h, ![q].audited = FALSE]
          /\ faults' = faults + 1
          /\ UNCHANGED <<topology, ledger, now, removals>>
    /\ UNCHANGED late

\* The UPDATE has the guard of the probe loop's claim, but nobody looks at the
\* number of rows it changed: a sync that comes too late goes on all the same.
SyncClaim(q) ==
    LET h == sync[q].host IN
    /\ Handling(q, "claim")
    /\ ClaimRemoved(h, sync[q].audited)
    /\ late' = IF topology[h].status = "present" THEN late
               ELSE IF sync[q].audited THEN [late EXCEPT ![h].audited = @ + 1]
                                       ELSE [late EXCEPT ![h].unaudited = @ + 1]
    /\ sync' = [sync EXCEPT ![q].at = "record"]
    /\ UNCHANGED <<ledger, now, faults>>

\* Mutant: the ledger is asked again after the claim.
MutSyncRecord(q) ==
    /\ Handling(q, "record")
    /\ Record(IF RecentAllowExists(sync[q].host) THEN "audit" ELSE "drift",
              sync[q].host, sync[q].container)
    /\ sync' = [sync EXCEPT ![q].at = "rows", ![q].missing = @ \ {sync[q].host},
                            ![q].host = NoHost, ![q].audited = FALSE]
    /\ UNCHANGED <<topology, faults, removals, late>>

SyncRecord(q) ==
    /\ Handling(q, "record")
    /\ Record(IF sync[q].audited THEN "audit" ELSE "drift", sync[q].host, sync[q].container)
    /\ sync' = [sync EXCEPT ![q].at = "rows", ![q].missing = @ \ {sync[q].host},
                            ![q].host = NoHost, ![q].audited = FALSE]
    /\ UNCHANGED <<topology, faults, removals, late>>

\* The summary entry, with an empty target.
SyncEnd(q) ==
    /\ Handling(q, "rows")
    /\ sync[q].upserts = {} /\ sync[q].missing = {}
    /\ Record("sync", NoHost, sync[q].container)
    /\ sync' = [sync EXCEPT ![q] = Ended]
    /\ UNCHANGED <<topology, faults, removals, late>>

\* 503 from any statement, or the handler is dropped at an await.
SyncAbort(q) ==
    /\ sync[q].at \notin {"waiting", "ended"}
    /\ faults < MaxFaults
    /\ faults' = faults + 1
    /\ sync' = [sync EXCEPT ![q] = Ended]
    /\ UNCHANGED <<topology, ledger, now, removals, late>>

HandlerStep(q) ==
    \/ \E h \in Host : SyncUpsert(q, h) \/ SyncVerdict(q, h)
    \/ SyncClaim(q) \/ SyncRecord(q) \/ SyncEnd(q)

SyncStep ==
    \E q \in Request :
        (\E c \in Container : SyncBegin(q, c)) \/ HandlerStep(q) \/ SyncAbort(q)

SyncOK ==
    /\ sync \in [Request ->
          [at : {"waiting", "rows", "claim", "record", "ended"}, container : Container,
           upserts : SUBSET Host, missing : SUBSET Host,
           host : Host \cup {NoHost}, audited : BOOLEAN]]
    /\ late \in [Host -> [audited : Nat, unaudited : Nat]]
=============================================================================
