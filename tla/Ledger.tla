------------------------------- MODULE Ledger -------------------------------
(***************************************************************************)
(* The tamper-evident ledger of gate/src/ledger.rs: concurrent calls of    *)
(* ledger::append from any container, the Postgres transaction each runs   *)
(* in, and the recomputation of the chain by verify_chain.                 *)
(*                                                                         *)
(* One Request is one call of append.  Its progress is split into what the *)
(* calling task knows (pc) and what Postgres holds for its session (tx),   *)
(* because a connection can break between the two: a caller may get an     *)
(* error for a transaction that Postgres commits all the same.             *)
(*                                                                         *)
(* HMAC-SHA256 is a symbolic term: the sequence of everything signed up to *)
(* and including a row.  Two terms are equal only when key and every       *)
(* signed field are, which is what push_field's length prefixes and the    *)
(* hash give the code.                                                     *)
(***************************************************************************)
EXTENDS Integers, Sequences, FiniteSetsExt

CONSTANTS
    Request,      \* the calls of append
    NoRequest,    \* nobody holds the advisory lock
    Params,       \* the classes of NewEntry.params the callers send
    Clock,        \* the readings of Utc::now(), in nanoseconds
    SigningKey    \* LEDGER_SIGNING_KEY, the same in every container

\* JSON values as far as Postgres jsonb tells them apart: "wide_float" is an
\* integral float in [1e16, 2^64), "wide_int" the integer it equals.
ParamsClass == {"plain", "neg_zero", "zero", "wide_float", "wide_int"}

ASSUME RequestAssumption == NoRequest \notin Request
ASSUME ParamsAssumption == Params \subseteq ParamsClass
ASSUME ClockAssumption == Clock \subseteq Nat

VARIABLES
    ledger,   \* the committed rows of table ledger, by primary key
    lock,     \* the session holding pg_advisory_xact_lock
    pc,       \* where each call is
    tx,       \* what Postgres has of each call's transaction
    asked,    \* the params each call was given
    row       \* the row each call has computed and inserts

vars == <<ledger, lock, pc, tx, asked, row>>

-----------------------------------------------------------------------------
(* The pure part: what is signed, what is stored, what is read back.       *)

GENESIS == <<>>

\* now_micros truncates to the microseconds a timestamptz can hold.
NowMicros(t) == (t \div 1000) * 1000

\* ts_string prints microseconds, whatever the precision of the instant.
TsString(t) == t \div 1000

\* Mutant: the caller's value is signed as it came.
MutNormalizeParams(p) == p

NormalizeParams(p) == IF p = "neg_zero" THEN "zero" ELSE p

CanonicalString(key, e) ==
    [key |-> key, id |-> e.id, ts |-> e.ts, new |-> e.new, params |-> e.params]

HmacHex(key, e) == Append(e.prev_hmac, CanonicalString(key, e))

\* A column of type timestamptz, given an instant in nanoseconds.
Timestamptz(t) == t \div 1000

\* A column of type jsonb: numbers are numeric there, so negative zero loses
\* its sign and an integral float comes back as the integer it is.
Jsonb(p) ==
    IF p = "neg_zero" THEN "zero"
    ELSE IF p = "wide_float" THEN "wide_int"
    ELSE p

\* The row append signs, for call r at clock reading t after row `prev`.
SignedRow(r, t, prev) ==
    LET e == [id |-> prev.id + 1, ts |-> TsString(NowMicros(t)), new |-> r,
              params |-> NormalizeParams(asked[r]), prev_hmac |-> prev.hmac]
    IN  [id |-> e.id, ts |-> e.ts, at |-> NowMicros(t), new |-> e.new,
         params |-> e.params, prev_hmac |-> e.prev_hmac,
         hmac |-> HmacHex(SigningKey, e)]

\* The Entry that entry_from_row rebuilds from what INSERT stored of a row.
StoredRow(e) ==
    [id |-> e.id, ts |-> Timestamptz(e.at), new |-> e.new,
     params |-> Jsonb(e.params), prev_hmac |-> e.prev_hmac, hmac |-> e.hmac]

\* Mutant: the first id is 0.
MutLedgerHead(table) ==
    IF DOMAIN table = {} THEN [id |-> -1, hmac |-> GENESIS]
    ELSE [id |-> Max(DOMAIN table), hmac |-> table[Max(DOMAIN table)].hmac]

\* SELECT id, hmac FROM ledger ORDER BY id DESC LIMIT 1
LedgerHead(table) ==
    IF DOMAIN table = {} THEN [id |-> 0, hmac |-> GENESIS]
    ELSE [id |-> Max(DOMAIN table), hmac |-> table[Max(DOMAIN table)].hmac]

\* The digest verify_chain carries into row i of a table ordered by id.
PrevHmac(table, i) ==
    LET before == {j \in DOMAIN table : j < i}
    IN  IF before = {} THEN GENESIS ELSE table[Max(before)].hmac

\* Mutant: each digest is recomputed, but nobody looks whether it continues
\* the row before.
MutBroken(key, table) ==
    {i \in DOMAIN table : table[i].hmac # HmacHex(key, table[i])}

Broken(key, table) ==
    {i \in DOMAIN table : \/ table[i].prev_hmac # PrevHmac(table, i)
                          \/ table[i].hmac # HmacHex(key, table[i])}

VerifyChain(key, table) ==
    LET bad == Broken(key, table)
    IN  [valid |-> bad = {},
         broken_at |-> IF bad = {} THEN 0 ELSE Min(bad)]

-----------------------------------------------------------------------------
(* One call of append.                                                     *)

Pending == {"begin", "lock", "head", "insert", "commit"}
Live == {"open", "inserted", "committing"}

NoRow == [id |-> 0]

Init ==
    /\ ledger = [i \in {} |-> NoRow]
    /\ lock = NoRequest
    /\ pc = [r \in Request |-> "begin"]
    /\ tx = [r \in Request |-> "idle"]
    /\ asked \in [Request -> Params]
    /\ row = [r \in Request |-> NoRow]

\* client.transaction()
Begin(r) ==
    /\ pc[r] = "begin"
    /\ pc' = [pc EXCEPT ![r] = "lock"]
    /\ tx' = [tx EXCEPT ![r] = "open"]
    /\ UNCHANGED <<ledger, lock, asked, row>>

\* Mutant: the append goes on whether or not it got the lock.
MutAcquireLock(r) ==
    /\ pc[r] = "lock"
    /\ tx[r] = "open"
    /\ lock' = IF lock = NoRequest THEN r ELSE lock
    /\ pc' = [pc EXCEPT ![r] = "head"]
    /\ UNCHANGED <<ledger, tx, asked, row>>

\* SELECT pg_advisory_xact_lock: waits for the session that holds the key.
AcquireLock(r) ==
    /\ pc[r] = "lock"
    /\ tx[r] = "open"
    /\ lock = NoRequest
    /\ lock' = r
    /\ pc' = [pc EXCEPT ![r] = "head"]
    /\ UNCHANGED <<ledger, tx, asked, row>>

\* Read the newest committed row, then compute id, ts, params and hmac.
ReadHead(r) ==
    /\ pc[r] = "head"
    /\ tx[r] = "open"
    /\ \E t \in Clock : row' = [row EXCEPT ![r] = SignedRow(r, t, LedgerHead(ledger))]
    /\ pc' = [pc EXCEPT ![r] = "insert"]
    /\ UNCHANGED <<ledger, lock, tx, asked>>

\* The primary key lets an INSERT through only if no row has its id, and
\* makes it wait for an open transaction that has inserted the same id.
InsertRow(r) ==
    /\ pc[r] = "insert"
    /\ tx[r] = "open"
    /\ row[r].id \notin DOMAIN ledger
    /\ \A q \in Request \ {r} :
          tx[q] \in {"inserted", "committing"} => row[q].id # row[r].id
    /\ pc' = [pc EXCEPT ![r] = "commit"]
    /\ tx' = [tx EXCEPT ![r] = "inserted"]
    /\ UNCHANGED <<ledger, lock, asked, row>>

\* tx.commit(): COMMIT is on its way.
SendCommit(r) ==
    /\ pc[r] = "commit"
    /\ tx[r] = "inserted"
    /\ tx' = [tx EXCEPT ![r] = "committing"]
    /\ UNCHANGED <<ledger, lock, pc, asked, row>>

\* Mutant: a session lock, which the end of the transaction does not release.
MutReleased(r) == lock

Released(r) == IF lock = r THEN NoRequest ELSE lock

\* Postgres commits, whether or not the caller is still there, and the
\* transaction's advisory lock goes with it.
Commit(r) ==
    /\ tx[r] = "committing"
    /\ tx' = [tx EXCEPT ![r] = "committed"]
    /\ ledger' = [i \in DOMAIN ledger \cup {row[r].id} |->
                     IF i = row[r].id THEN StoredRow(row[r]) ELSE ledger[i]]
    /\ lock' = Released(r)
    /\ UNCHANGED <<pc, asked, row>>

\* Mutant: Ok is answered without waiting for the commit.
MutReturn(r) ==
    /\ pc[r] = "commit"
    /\ pc' = [pc EXCEPT ![r] = "ok"]
    /\ UNCHANGED <<ledger, lock, tx, asked, row>>

\* The caller receives Ok(Entry).
Return(r) ==
    /\ pc[r] = "commit"
    /\ tx[r] = "committed"
    /\ pc' = [pc EXCEPT ![r] = "ok"]
    /\ UNCHANGED <<ledger, lock, tx, asked, row>>

\* Postgres ends the transaction without it: a failed statement, a lost
\* connection, a restart of the database, the Transaction being dropped.
Rollback(r) ==
    /\ tx[r] \in Live
    /\ tx' = [tx EXCEPT ![r] = "aborted"]
    /\ lock' = Released(r)
    /\ UNCHANGED <<ledger, pc, asked, row>>

\* Mutant: the error of an await is swallowed.
MutRaise(r) ==
    /\ pc[r] \in Pending
    /\ pc' = [pc EXCEPT ![r] = "ok"]
    /\ UNCHANGED <<ledger, lock, tx, asked, row>>

\* Any of the awaits gives Err, or the calling task goes away: a container
\* crash, a connection reset, a handler future dropped with its client.
Raise(r) ==
    /\ pc[r] \in Pending
    /\ pc' = [pc EXCEPT ![r] = "err"]
    /\ UNCHANGED <<ledger, lock, tx, asked, row>>

Done == \A r \in Request : pc[r] \notin Pending /\ tx[r] \notin Live

Terminated == Done /\ UNCHANGED vars

Step(r) ==
    \/ Begin(r) \/ AcquireLock(r) \/ ReadHead(r) \/ InsertRow(r)
    \/ SendCommit(r) \/ Commit(r) \/ Return(r) \/ Rollback(r) \/ Raise(r)

Next == (\E r \in Request : Step(r)) \/ Terminated

Spec == Init /\ [][Next]_vars

\* The task and Postgres go on with a call they can go on with; a caller is
\* told of a transaction Postgres gave up, and Postgres gives up an open one
\* whose caller is gone.  Nothing else is assumed: no call need fail.
Progress(r) ==
    Begin(r) \/ AcquireLock(r) \/ ReadHead(r) \/ InsertRow(r) \/ SendCommit(r) \/ Return(r)

Notice(r) ==
    \/ tx[r] = "aborted" /\ Raise(r)
    \/ pc[r] = "err" /\ Rollback(r)

Fairness ==
    \A r \in Request :
        WF_vars(Progress(r)) /\ WF_vars(Commit(r)) /\ WF_vars(Notice(r))

FairSpec == Spec /\ Fairness

-----------------------------------------------------------------------------
(* Properties.                                                             *)

Digest == Seq([key : {SigningKey}, id : Nat, ts : Nat, new : Request,
               params : ParamsClass])

Row == [id : Nat \ {0}, ts : Nat, at : Nat, new : Request, params : ParamsClass,
        prev_hmac : Digest, hmac : Digest]

Entry == [id : Nat \ {0}, ts : Nat, new : Request, params : ParamsClass,
          prev_hmac : Digest, hmac : Digest]

\* Every variable stays in its type.
TypeOK ==
    /\ DOMAIN ledger \subseteq Nat \ {0}
    /\ ledger \in [DOMAIN ledger -> Entry]
    /\ lock \in Request \cup {NoRequest}
    /\ pc \in [Request -> Pending \cup {"ok", "err"}]
    /\ tx \in [Request -> {"idle", "committed", "aborted"} \cup Live]
    /\ asked \in [Request -> Params]
    /\ row \in [Request -> Row \cup {NoRow}]

\* A transaction that has computed the row it inserts and may yet commit it.
Prepared(r) == tx[r] \in Live /\ row[r].id # 0

\* No two open transactions have computed the same next id, and none has an
\* id the table already has: the advisory lock covers the read of the head up
\* to the commit, across containers (README.md:92).
NoIdClash ==
    \A r \in Request : Prepared(r) =>
        /\ row[r].id \notin DOMAIN ledger
        /\ \A q \in Request \ {r} : Prepared(q) => row[q].id # row[r].id

\* GET /v1/ledger/verify never reports a broken chain for rows that append
\* alone has written, whatever calls failed or were abandoned in between.
ChainVerifies == VerifyChain(SigningKey, ledger).valid

\* The Entry a caller was given with Ok is, field by field, the one a later
\* read of the ledger gives, and no other row records the same call.
AckedIsReadBack ==
    \A r \in Request : pc[r] = "ok" =>
        /\ row[r].id \in DOMAIN ledger
        /\ \A f \in {"id", "ts", "new", "params", "prev_hmac", "hmac"} :
              ledger[row[r].id][f] = row[r][f]
        /\ \A i \in DOMAIN ledger : ledger[i].new = r => i = row[r].id

\* What somebody with write access to the table, but without the key, may put
\* in the place of a row: a field changed, or a digest copied from anywhere.
ForgedRow(table, e) ==
    LET digests == {table[j].hmac : j \in DOMAIN table} \cup {GENESIS}
    IN  {[e EXCEPT !.ts = @ + 1]}
        \cup {[e EXCEPT !.new = r] : r \in Request}
        \cup {[e EXCEPT !.params = p] : p \in Params}
        \cup {[e EXCEPT !.prev_hmac = d] : d \in digests}
        \cup {[e EXCEPT !.hmac = d] : d \in digests}
        \cup {[e EXCEPT !.new = table[j].new, !.hmac = table[j].hmac] : j \in DOMAIN table}

\* Row i rewritten as e, and the next row made to continue from it or not.
Rewritten(table, i, e) ==
    {[table EXCEPT ![i] = e],
     [j \in DOMAIN table |-> CASE j = i -> e
                                [] j = i + 1 -> [table[j] EXCEPT !.prev_hmac = e.hmac]
                                [] OTHER -> table[j]]}

Without(table, i) == [j \in DOMAIN table \ {i} |-> table[j]]

\* "Any edit to a past row breaks the chain at that row, and /v1/ledger/verify
\* reports where" (README.md:17): of every table append can have written, with
\* a row rewritten or taken out, verify names that row, or the one that lost
\* its predecessor.  Only the newest rows can be cut off unnoticed.
TamperingIsReported ==
    [][\A i \in DOMAIN ledger' :
          /\ \A e \in ForgedRow(ledger', ledger'[i]) \ {ledger'[i]} :
                \A table \in Rewritten(ledger', i, e) :
                    VerifyChain(SigningKey, table).broken_at = i
          /\ i + 1 \in DOMAIN ledger' =>
                VerifyChain(SigningKey, Without(ledger', i)).broken_at = i + 1]_ledger

\* "decision not recorded" (http.rs, evaluate): a caller told of an error has
\* left no row behind.
ErrMeansNotRecorded ==
    \A r \in Request : pc[r] = "err" =>
        \A i \in DOMAIN ledger : ledger[i].new # r

\* The concurrent, transactional ledger implements one append-only log: ids
\* are gapless, rows never change or move, each call is recorded at most once.
Log == INSTANCE AppendLog WITH
    log <- [i \in DOMAIN ledger |-> ledger[i].new],
    answer <- [r \in Request |-> IF pc[r] \in Pending THEN "pending" ELSE pc[r]]

ImplementsAppendLog == Log!Spec

\* No call waits for ever on the advisory lock: whoever held it, and however
\* that call ended, every call returns and its transaction is over.
EveryAppendReturns ==
    \A r \in Request : <>[](pc[r] \notin Pending /\ tx[r] \notin Live)
=============================================================================
