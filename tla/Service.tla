------------------------------ MODULE Service ------------------------------
(***************************************************************************)
(* The gate as its callers meet it: containers that come up, crash and     *)
(* come up again (Startup), each with a pool of clients; requests that     *)
(* append to the ledger; and callers that read the ledger page by page     *)
(* (list of gate/src/ledger.rs, behind /v1/ledger and /v1/drift).          *)
(***************************************************************************)
EXTENDS Startup, Sequences

CONSTANTS
    Appender,    \* requests that append: evaluate, sync, a cycle of the probe loop
    Reader,      \* callers that walk through the pages
    Kind,        \* kinds of ledger entries
    Kinds,       \* those each request may append, or lists
    PoolSize,    \* max_size of a container's pool
    Limit        \* a page's LIMIT

ASSUME ServiceAssumption ==
    /\ Appender \cap Reader = {}
    /\ ({NoSession, DeadSession} \cup Container) \cap (Appender \cup Reader) = {}
    /\ Kinds \in [Appender \cup Reader -> SUBSET Kind]
    /\ PoolSize \in Nat \ {0} /\ Limit \in Nat \ {0}

VARIABLES
    ledger,      \* the kinds of the committed entries, by id
    request      \* each request's handler; for a reader, the page it is at

vars == <<startupVars, ledger, request>>

Request == Appender \cup Reader

\* A request before it arrives.  Of a walk, wanted and seen are history: the
\* ids there were when it set out, and those on the pages since.
Fresh ==
    [at |-> "idle", container |-> CHOOSE c \in Container : TRUE, offset |-> 0,
     rows |-> {}, total |-> 0, wanted |-> {}, seen |-> {}]

Init ==
    /\ InitStartup
    /\ ledger = <<>>
    /\ request = [r \in Request |-> Fresh]

Is(r, point) == request[r].at = point
Proceed(r, point) == request' = [request EXCEPT ![r].at = point]

\* The response is out.
Answer(r, status) == request' = [request EXCEPT ![r] = [Fresh EXCEPT !.at = status]]

Handled == {"pool", "lock", "insert", "rows", "total"}

\* The clients of a container that are out.
InUse(c) ==
    Cardinality({r \in Request : /\ request[r].container = c
                                 /\ request[r].at \in Handled \ {"pool"}})

-----------------------------------------------------------------------------
(* A list request.                                                         *)

\* WHERE kind = ANY(kinds)
Matching(kinds) == {i \in DOMAIN ledger : ledger[i] \in kinds}

\* Mutant: an offset counted from one.
MutPage(kinds, offset) ==
    {i \in Matching(kinds) :
        Cardinality({j \in Matching(kinds) : j > i}) \in offset + 1 .. offset + Limit}

\* ORDER BY id DESC LIMIT .. OFFSET ..
Page(kinds, offset) ==
    {i \in Matching(kinds) :
        Cardinality({j \in Matching(kinds) : j > i}) \in offset .. offset + Limit - 1}

QueryRows(r) ==
    /\ Is(r, "rows")
    /\ LET rows == Page(Kinds[r], request[r].offset)
       IN  request' = [request EXCEPT ![r].at = "total", ![r].rows = rows,
                                      ![r].seen = @ \cup rows]
    /\ UNCHANGED <<startupVars, ledger>>

\* Mutant: the count has lost its WHERE.
MutQueryTotal(r) ==
    /\ Is(r, "total")
    /\ request' = [request EXCEPT ![r].at = "page", ![r].total = Len(ledger)]
    /\ UNCHANGED <<startupVars, ledger>>

\* The second query, and the response.
QueryTotal(r) ==
    /\ Is(r, "total")
    /\ request' = [request EXCEPT ![r].at = "page",
                                  ![r].total = Cardinality(Matching(Kinds[r]))]
    /\ UNCHANGED <<startupVars, ledger>>

LastPage(r) == Is(r, "page") /\ Cardinality(request[r].rows) < Limit

\* The caller has read a page that is not full.
WalkEnds(r) ==
    /\ LastPage(r)
    /\ Answer(r, "200")
    /\ UNCHANGED <<startupVars, ledger>>

-----------------------------------------------------------------------------
(* Any request.                                                            *)

\* db_client: nobody gets a client before db_ready.  A walk's next page may be
\* another container's.
Arrive(r, c) ==
    /\ Is(r, "idle") \/ (Is(r, "page") /\ ~LastPage(r))
    /\ IF ~ready[c] THEN Answer(r, "503")
       ELSE request' = [request EXCEPT
                ![r].at = "pool", ![r].container = c, ![r].rows = {}, ![r].total = 0,
                ![r].offset = IF Is(r, "page") THEN @ + Limit ELSE @,
                ![r].wanted = IF Is(r, "idle") /\ r \in Reader
                              THEN Matching(Kinds[r]) ELSE @]
    /\ UNCHANGED <<startupVars, ledger>>

\* Mutant: readers take the lock, too.
MutGetClient(r) ==
    /\ Is(r, "pool")
    /\ InUse(request[r].container) < PoolSize
    /\ Proceed(r, "lock")
    /\ UNCHANGED <<startupVars, ledger>>

GetClient(r) ==
    /\ Is(r, "pool")
    /\ InUse(request[r].container) < PoolSize
    /\ Proceed(r, IF r \in Reader THEN "rows" ELSE "lock")
    /\ UNCHANGED <<startupVars, ledger>>

\* wait_timeout: all clients are out for five seconds.
WaitTimeout(r) ==
    /\ Is(r, "pool")
    /\ InUse(request[r].container) >= PoolSize
    /\ Answer(r, "503")
    /\ UNCHANGED <<startupVars, ledger>>

\* append holds its client while it waits for the lock.
AppendLock(r) ==
    /\ Is(r, "lock")
    /\ lock = NoSession
    /\ lock' = r
    /\ Proceed(r, "insert")
    /\ UNCHANGED <<database, init, draft, ready, faults, edits, ledger>>

Insert(r) == \E k \in Kinds[r] : ledger' = Append(ledger, k)

AppendCommit(r) ==
    /\ Is(r, "insert")
    /\ Insert(r)
    /\ Released(r)
    /\ Answer(r, "200")
    /\ UNCHANGED <<database, init, draft, ready, faults, edits>>

\* Mutant: a dropped handler's transaction stays open.
MutRequestFails(r) ==
    /\ faults < MaxFaults
    /\ request[r].at \in Handled
    /\ Answer(r, "503")
    /\ faults' = faults + 1
    /\ UNCHANGED <<database, lock, init, draft, ready, edits, ledger>>

\* A statement fails, or the caller hangs up and the handler is dropped at an
\* await; the INSERT may have been committed.
RequestFails(r) ==
    /\ faults < MaxFaults
    /\ request[r].at \in Handled
    /\ UNCHANGED ledger \/ (Is(r, "insert") /\ Insert(r))
    /\ Released(r)
    /\ Answer(r, "503")
    /\ faults' = faults + 1
    /\ UNCHANGED <<database, init, draft, ready, edits>>

\* The container's requests die with it.
Crash(c) ==
    LET mine == {r \in Request : request[r].container = c /\ request[r].at \in Handled}
    IN  /\ Restart(c, mine \cup {c})
        /\ request' = [r \in Request |->
                          IF r \in mine THEN [Fresh EXCEPT !.at = "503"]
                          ELSE request[r]]
        /\ UNCHANGED ledger

Handle(r) ==
    \/ GetClient(r) \/ WaitTimeout(r) \/ AppendLock(r) \/ AppendCommit(r)
    \/ QueryRows(r) \/ QueryTotal(r) \/ WalkEnds(r)

Initialise(c) == InitStep(c) /\ UNCHANGED <<ledger, request>>

PostgresReaps == Reap /\ UNCHANGED <<ledger, request>>

Next ==
    \/ \E c \in Container :
          \/ Initialise(c) \/ Crash(c)
          \/ InitFails(c) /\ UNCHANGED <<ledger, request>>
          \/ \E r \in Request : Arrive(r, c)
    \/ \E r \in Request : Handle(r) \/ RequestFails(r)
    \/ PostgresReaps
    \/ Edit /\ UNCHANGED <<ledger, request>>

Spec == Init /\ [][Next]_vars

\* tokio polls what can go on, an attempt that failed is made again, and the
\* server's keepalive finds dead peers.  Nobody is obliged to call or to edit.
Fairness ==
    /\ \A c \in Container : WF_vars(Initialise(c))
    /\ \A r \in Request : WF_vars(Handle(r))
    /\ WF_vars(PostgresReaps)

FairSpec == Spec /\ Fairness

-----------------------------------------------------------------------------
(* Properties.                                                             *)

\* Every variable stays in its type.
TypeOK ==
    /\ StartupOK
    /\ lock \in {NoSession, DeadSession} \cup Container \cup Appender
    /\ ledger \in Seq(Kind)
    /\ request \in [Request ->
          [at : Handled \cup {"idle", "page", "200", "503"}, container : Container,
           offset : Nat, rows : SUBSET Nat, total : Nat, wanted : SUBSET Nat, seen : SUBSET Nat]]

\* A container that hands out clients works on a complete schema: the tables
\* are there, and unless an operator took them away, so are the rows; whatever
\* became of the attempts before (state.rs:24, "only once the schema is ready").
ServesCompleteSchema ==
    \A c \in Container : ready[c] =>
        /\ schema
        /\ edits = 0 => topology = Seed /\ \A p \in Policy : policies[p] = "on"

\* However often containers restart, and whenever they migrate, a policy stays
\* as the operators left it, on or off, as long as its row is there; and a host
\* that was deleted comes back only with all the others, into a table that was
\* empty (db.rs:112-113).
EditsSurvive ==
    [][edits' = edits =>
          /\ \A p \in Policy : policies[p] # "none" => policies'[p] = policies[p]
          /\ topology' # topology => topology = {} /\ topology' = Seed]_vars

\* Containers that come up together do not make each other's migration fail
\* ("one fixed key serializes ledger appends and migrations", db.rs:14).
InitsDoNotCollide ==
    [][\A c \in Container : init[c] # "lock" /\ init'[c] = "lock" => faults' # faults]_vars

\* Although a page's entries and its total come from two queries, the total
\* counts the entries of the page and those that were skipped, and no more than
\* there are.
PageFitsTotal ==
    \A r \in Reader : Is(r, "page") =>
        /\ request[r].rows # {} =>
              request[r].offset + Cardinality(request[r].rows) <= request[r].total
        /\ request[r].total <= Cardinality(Matching(Kinds[r]))

\* A caller that walks through the pages to the end reads every entry there was
\* when it set out: appends in between push entries to later pages only.
WalkSkipsNothing ==
    \A r \in Reader : LastPage(r) => request[r].wanted \subseteq request[r].seen

\* In the end every container serves, whatever failed or died on the way.
EveryContainerServes == \A c \in Container : <>[]ready[c]

\* Every request that arrives is answered: no handler waits for ever for a
\* client or for the lock.
EveryRequestAnswered ==
    \A r \in Request : request[r].at \in Handled ~> request[r].at \in {"page", "200", "503"}
=============================================================================
