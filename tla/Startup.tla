------------------------------ MODULE Startup ------------------------------
(***************************************************************************)
(* init_with_retry of gate/src/db.rs: every container, each time it comes  *)
(* up, creates and seeds what is missing in the database, in a transaction *)
(* under the advisory lock that also serializes the appends.  Until that   *)
(* has worked out, db_client gives nobody a client.                        *)
(***************************************************************************)
EXTENDS Naturals, FiniteSets

CONSTANTS
    Container,   \* the gate's containers; each stands for its init's session, too
    Policy,      \* ids of POLICIES
    Seed,        \* hostnames of seed.json
    NoSession,   \* nobody holds the lock
    DeadSession, \* a holder whose process is gone, until Postgres notices
    MaxFaults,   \* bound: crashes, failed statements and dropped handlers
    MaxEdits     \* bound: statements an operator runs

ASSUME StartupAssumption ==
    /\ Container # {} /\ {NoSession, DeadSession} \cap Container = {} /\ NoSession # DeadSession
    /\ Seed # {} /\ MaxFaults \in Nat /\ MaxEdits \in Nat

VARIABLES
    schema,      \* whether the tables are there
    policies,    \* table policies: each row's enabled, or "none"
    topology,    \* table topology, by hostname
    lock,        \* the session that holds ADVISORY_LOCK_KEY
    init,        \* the statement each container's init_once is about to run
    draft,       \* the rows its transaction has inserted
    ready,       \* db_ready
    faults,
    edits

database == <<schema, policies, topology>>
startupVars == <<database, lock, init, draft, ready, faults, edits>>

NoRows == [policies |-> {}, hosts |-> {}]

\* An empty database and containers that all come up together.
InitStartup ==
    /\ schema = FALSE
    /\ policies = [p \in Policy |-> "none"]
    /\ topology = {}
    /\ lock = NoSession
    /\ init = [c \in Container |-> "lock"]
    /\ draft = [c \in Container |-> NoRows]
    /\ ready = [c \in Container |-> FALSE]
    /\ faults = 0 /\ edits = 0

At(c, statement) == init[c] = statement
Goto(c, statement) == init' = [init EXCEPT ![c] = statement]

\* Mutant: the migration does not ask for the lock.
MutInitLock(c) ==
    /\ At(c, "lock")
    /\ Goto(c, "schema")
    /\ UNCHANGED <<database, lock, draft, ready, faults, edits>>

\* A client, a transaction and pg_advisory_xact_lock.
InitLock(c) ==
    /\ At(c, "lock")
    /\ lock = NoSession
    /\ lock' = c
    /\ Goto(c, "schema")
    /\ UNCHANGED <<database, draft, ready, faults, edits>>

\* CREATE TABLE IF NOT EXISTS: it fails if another transaction has created the
\* table and not committed yet.
InitSchema(c) ==
    /\ At(c, "schema")
    /\ IF ~schema /\ \E d \in Container : init[d] \in {"policies", "topology", "commit"}
       THEN Goto(c, "lock") ELSE Goto(c, "policies")
    /\ UNCHANGED <<database, lock, draft, ready, faults, edits>>

\* Mutant: ON CONFLICT (id) DO UPDATE SET enabled = TRUE.
MutInitPolicies(c) ==
    /\ At(c, "policies")
    /\ draft' = [draft EXCEPT ![c].policies = Policy]
    /\ Goto(c, "topology")
    /\ UNCHANGED <<database, lock, ready, faults, edits>>

\* INSERT ... ON CONFLICT (id) DO NOTHING, for each of POLICIES.
InitPolicies(c) ==
    /\ At(c, "policies")
    /\ draft' = [draft EXCEPT ![c].policies = {p \in Policy : policies[p] = "none"}]
    /\ Goto(c, "topology")
    /\ UNCHANGED <<database, lock, ready, faults, edits>>

\* Mutant: ON CONFLICT (hostname) DO NOTHING, without a look at the table first.
MutInitTopology(c) ==
    /\ At(c, "topology")
    /\ draft' = [draft EXCEPT ![c].hosts = Seed \ topology]
    /\ Goto(c, "commit")
    /\ UNCHANGED <<database, lock, ready, faults, edits>>

\* The seed goes into an empty table only, one an operator has emptied too.
InitTopology(c) ==
    /\ At(c, "topology")
    /\ draft' = [draft EXCEPT ![c].hosts = IF topology = {} THEN Seed ELSE {}]
    /\ Goto(c, "commit")
    /\ UNCHANGED <<database, lock, ready, faults, edits>>

\* What COMMIT does to the tables.
Committed(c) ==
    /\ schema' = TRUE
    /\ policies' = [p \in Policy |-> IF p \in draft[c].policies THEN "on" ELSE policies[p]]
    /\ topology' = topology \cup draft[c].hosts

\* The session's transaction is over, one way or the other.
Released(s) == lock' = IF lock = s THEN NoSession ELSE lock

InitCommit(c) ==
    /\ At(c, "commit")
    /\ Committed(c) /\ Released(c)
    /\ draft' = [draft EXCEPT ![c] = NoRows]
    /\ Goto(c, "store")
    /\ UNCHANGED <<ready, faults, edits>>

\* db_ready.store(true)
InitReady(c) ==
    /\ At(c, "store")
    /\ ready' = [ready EXCEPT ![c] = TRUE]
    /\ Goto(c, "done")
    /\ UNCHANGED <<database, lock, draft, faults, edits>>

InTransaction == {"lock", "schema", "policies", "topology", "commit"}

\* Mutant: init_once's error is logged, and then the gate serves.
MutInitFails(c) ==
    /\ faults < MaxFaults
    /\ init[c] \in InTransaction
    /\ UNCHANGED database
    /\ Released(c)
    /\ draft' = [draft EXCEPT ![c] = NoRows]
    /\ Goto(c, "store")
    /\ faults' = faults + 1
    /\ UNCHANGED <<ready, edits>>

\* Mutant: the failed attempt keeps its client, and the client the lock.
MutInitKeepsLock(c) ==
    /\ faults < MaxFaults
    /\ init[c] \in InTransaction
    /\ UNCHANGED <<database, lock>>
    /\ draft' = [draft EXCEPT ![c] = NoRows]
    /\ Goto(c, "lock")
    /\ faults' = faults + 1
    /\ UNCHANGED <<ready, edits>>

\* No client, a failed statement, or a commit whose answer is lost: rolled back
\* or committed, and tried again after a while.
InitFails(c) ==
    /\ faults < MaxFaults
    /\ init[c] \in InTransaction
    /\ UNCHANGED database \/ (At(c, "commit") /\ Committed(c))
    /\ Released(c)
    /\ draft' = [draft EXCEPT ![c] = NoRows]
    /\ Goto(c, "lock")
    /\ faults' = faults + 1
    /\ UNCHANGED <<ready, edits>>

\* The process dies with its sessions and comes up again.
Restart(c, sessions) ==
    /\ faults < MaxFaults
    /\ lock' = IF lock \in sessions THEN DeadSession ELSE lock
    /\ init' = [init EXCEPT ![c] = "lock"]
    /\ draft' = [draft EXCEPT ![c] = NoRows]
    /\ ready' = [ready EXCEPT ![c] = FALSE]
    /\ faults' = faults + 1
    /\ UNCHANGED <<database, edits>>

\* Postgres notices that the holder is gone, and rolls back.
Reap ==
    /\ lock = DeadSession
    /\ lock' = NoSession
    /\ UNCHANGED <<database, init, draft, ready, faults, edits>>

\* An operator switches a policy on or off, or deletes a row.
EditPolicy(p) ==
    /\ policies[p] # "none"
    /\ \E v \in {"on", "off", "none"} \ {policies[p]} :
          policies' = [policies EXCEPT ![p] = v]
    /\ UNCHANGED topology

\* A DELETE takes some of the hosts, or all of them.
EditTopology(deleted) ==
    /\ deleted # {} /\ deleted \subseteq topology
    /\ topology' = topology \ deleted
    /\ UNCHANGED policies

Edit ==
    /\ edits < MaxEdits
    /\ (\E p \in Policy : EditPolicy(p)) \/ (\E deleted \in SUBSET Seed : EditTopology(deleted))
    /\ edits' = edits + 1
    /\ UNCHANGED <<schema, lock, init, draft, ready, faults>>

InitStep(c) ==
    \/ InitLock(c) \/ InitSchema(c) \/ InitPolicies(c) \/ InitTopology(c)
    \/ InitCommit(c) \/ InitReady(c)

StartupOK ==
    /\ schema \in BOOLEAN /\ policies \in [Policy -> {"none", "on", "off"}]
    /\ topology \subseteq Seed
    /\ init \in [Container -> InTransaction \cup {"store", "done"}]
    /\ draft \in [Container -> [policies : SUBSET Policy, hosts : SUBSET Seed]]
    /\ ready \in [Container -> BOOLEAN]
    /\ faults \in 0..MaxFaults /\ edits \in 0..MaxEdits
=============================================================================
