# Esclusa: a TLA+ model of the gate

Esclusa puts a gate in front of destructive infrastructure actions. An agent asks
`POST /v1/evaluate` before it acts; the gate answers `allow` or `refuse` and signs
the answer into an append-only ledger. Afterwards a probe loop inside the private
network watches what really happened, and an operator may send a snapshot to
reconcile the model with. One or two containers of the gate run at a time and share
nothing but a Postgres database and a Valkey cache.

These modules say what that program promises, check it with TLC on small instances,
and prove part of it with TLAPS for instances of any size. All paths below are
relative to the repository.

Contents: [the system](#1-the-system) ·
[the modules](#2-the-modules-and-the-code) · [the runs](#3-the-runs) ·
[what the code does not keep](#4-what-the-code-does-not-keep) ·
[fairness](#5-fairness) · [the proofs](#6-the-proofs) ·
[abstractions and gaps](#7-abstractions-and-what-is-not-modelled) · [plan](#8-plan)

## 1. The system

| Part | Code | State it keeps | Operations |
|---|---|---|---|
| Ledger | `gate/src/ledger.rs` | table `ledger`, the advisory lock | `append`, `verify_chain`, `list`, `all_ordered`, `recent_allow_exists` |
| Policy engine | `gate/src/policy.rs` | none; table `policies` holds the flags | `evaluate` |
| Evaluate endpoint | `gate/src/http.rs:135-208` | locals of the handler | rate limit, parse, read model and flags, decide, append, answer |
| Rate limiter | `gate/src/rate_limit.rs` | Valkey counters, a map per container | `check` |
| Probe loop | `gate/src/probe.rs` | columns `status`, `consecutive_failures` of table `topology` | `cycle`, `probe_one`, `handle_success`, `handle_failure` |
| Topology sync | `gate/src/http.rs:403-537` | the same rows | `topology_sync` |
| Topology model | `gate/src/topology.rs` | table `topology` | `seed`, `all`, `views`, `validate_service` |
| Schema, seed, pool | `gate/src/db.rs` | the schema, eight connections a container, `db_ready`, `cache` | `init_with_retry`, `cache_connect_with_retry` |
| Demo decommission | `gate/src/demo.rs`, `gate/src/http.rs:295-401` | locals of the handler | `demo_decommission`, `play_dead` |
| Old worker | `oldworker/server.js` | its listener and a timer | `/playdead`, `startListening`, `stopListening` |
| State and token | `gate/src/state.rs` | `AppState` | `db_client`, `token_matches` |
| Health and reads | `gate/src/http.rs` | `last_probe_cycle` | `ready`, `healthz`, ledger, drift, verify, policies, topology |
| Startup | `gate/src/main.rs` | none | spawns the tasks above |
| Console | `console/index.html` | what it last polled | draws the read endpoints, starts the demo |
| Demo script, deploy | `scripts/demo.sh`, `zerops*.yml`, `zerops.yaml` | none | a walkthrough, the build |

**How they interact.** Everything meets in two tables. Every writer of `ledger` goes
through `append`: a transaction that takes one advisory lock, reads the newest row,
computes id, timestamp, `prev_hmac` and `hmac`, inserts, and commits. `evaluate`
appends decisions; the probe loop of each container and the sync handler append
`audit`, `drift` and `system` entries; and those two ask the ledger
(`recent_allow_exists`) whether a missing service was allowed to go. Rows of
`topology` are written by the probe loops and by the sync with single `UPDATE`s
that carry the guard in their `WHERE`; there is no transaction around an update and
the ledger entry that explains it.

**What is hard here.**

- *Interleaving.* Two containers handle the same host at the same time, any number of
  syncs work from old reads, and every handler awaits between its statements.
- *Two statements that belong together.* Claiming a removal and recording it are
  separate; either may fail, or the container may die between them.
- *A verdict used after an await.* Whether a removal was authorized is read one
  await before the row is claimed.
- *An acknowledgement that does not arrive.* A commit may succeed while `append`
  returns an error; an `INCR` may count after its 800 ms are over.
- *Clocks.* The limiter's minute is read before its awaits; "allow after the last
  audit" is decided by timestamps of containers that need not agree.
- *Values that change on their way.* What is signed is text computed in Rust; what
  is verified is rebuilt from a `timestamptz` and a `jsonb` column.
- *Time.* A demo run is noticed only if three probe cycles fit into the worker's
  absence, and a second run can begin while the first is not yet noticed.
- *Coming up together.* Two containers migrate and seed the same database at once,
  again after each restart, beside containers that serve and operators who edit.
- *Dropped futures.* A handler whose client hangs up ends at any await.

**What makes each part correct.**

- Ledger: one chain whatever fails; ids never clash; an acknowledged entry is the
  one read back; nothing acknowledged is lost; nobody waits for ever on the lock;
  a row edited without the key is reported where it is.
- Policy and evaluate: the cascade is the README's table; whoever holds a decision
  finds it in the ledger; a request leaves at most one row; the decision follows
  from a model and flags that were in force while it was handled.
- Rate limiter: the limit is one per client however many containers serve it; only
  requests over it are refused; without Valkey each container still keeps it.
- Probe and sync: a removal is logged once, is audited only if it was allowed, uses
  up its allow, and rests on three failures in a row; what comes back is seen; what
  goes away is flagged. Section 4 has what is left of that with several observers.
- Demo and old worker: a run that asked first is not filed as drift; each run is
  filed as its caller was told; in the end the worker listens and the model knows.
- Schema, seed and pool: nobody is served from half a schema; restarts leave the rows
  there are alone; every container comes up in the end; every caller is answered.
- Reads: a page fits its total; walking through the pages misses nothing.

`PROJECT.json` lists the hazards one by one, with the line where each bites and the
properties aimed at it.

## 2. The modules and the code

```
AppendLog <---refines--- Ledger --- LedgerProofs         (MCLedger)
                            |
                            |  licenses the one-step append of
                            v
Policy <-- Gate --- GateProofs                           (MCGate)
Tables <-- Probe --+-- ProbeProofs
   ^               |
   |               +-- Observe --- ObserveProofs --- SoloProofs   (MCObserve)
   +------ Sync ---+
       Probe <-----+
                   +-- Demo --- DemoProofs               (MCDemo)
       OldWorker --+
Startup <-- Service --- ServiceProofs                    (MCService)
RateLimit --- RateLimitProofs                            (MCRateLimit)
```

**`AppendLog`** is the abstract specification of the ledger: a log that only grows at
its end, holds each request at most once, and contains whatever was acknowledged.
It lets a rejected request be in the log, because that is all the code can offer.

**`Ledger`** models `append` for any number of concurrent calls from any containers.
`pc` is what the calling task knows, `tx` what Postgres holds for its session; they
are apart so that a connection can break between them. One action per await:
`Begin`, `AcquireLock`, `ReadHead`, `InsertRow`, `SendCommit`, `Commit`, `Return`;
`Rollback` ends a transaction from Postgres' side and `Raise` is any `?`, a crash, or
a dropped future. `SignedRow`, `StoredRow`, `HmacHex`, `Broken` and `VerifyChain` are
the pure functions. A digest is a symbolic term, the sequence of everything signed
so far, so two are equal only if all signed fields are. `NowMicros`, `TsString`,
`Timestamptz`, `NormalizeParams` and `Jsonb` do what the conversions do to an
instant and to a number: truncation to microseconds, loss of the sign of zero, an
integral float read back as an integer.

**`Policy`** has `Evaluate`, the cascade of `policy.rs`, return by return, and beside
it `FirstMatch`, the table of `README.md:130-139` written as a table. Params are
reduced to what the engine can tell apart: `minContainers` and `key`, in five
classes each.

**`Gate`** is the handler of `/v1/evaluate` for any number of requests: `Limited`,
`Parse`, `ReadViews`, `Decide`, `Unavailable`, `Recorded`, `AppendFails`, `Dropped`.
Meanwhile `EditPolicy` switches or deletes a policy's row and `UpsertService` changes
the model. The rate limit and the append appear by their outcomes. `seen` is a
history variable: every model and every set of flags in force while a request ran.

**`Tables`** holds what containers share when they observe: `topology` (status and
failure counter), `ledger` (kind, target, timestamp of what
`recent_allow_exists` and the statuses look at), Postgres' clock. Time advances by
one with every append and by a whole window in `WindowPasses`; each container's
clock may be ahead by `Skew`.

**`Probe`** is the loop, one task per container: `StartCycle`, `ProbeOne` for each
spawned probe, `JoinNext` in any order, then the statements of `handle_success`
(`ClaimReappear`, `RecordReappear`, `ResetFailures`) and of `handle_failure`
(`CountFailure`, `Verdict`, `ClaimRemoval`, `RecordRemoval`). `StatementFails`
follows the error path of each statement, `CrashProbe` restarts the loop.

**`Sync`** is the handler of `/v1/topology/sync`, for any number of requests at a time on
any containers: `SyncBegin` (with the one read it works from), `SyncUpsert`,
`SyncVerdict`, `SyncClaim`, `SyncRecord`, `SyncEnd`, and `SyncAbort` for a 503 or a
dropped future at any await. Like the code, `SyncClaim` goes on whether or not its
`UPDATE` has found the row present; `late` is history and counts the syncs that came too
late, by the verdict they held.

**`Observe`** composes the three with the environment: services that stop and start
(`Flip`), callers that are allowed to stop one (`Authorize`), time (`TimePasses`).

**`OldWorker`** is `oldworker/server.js`: `PlayDead` takes an order, `StopListening` is
the callback 50 ms later, `Listen` and `ListenFails` are what the timer finds. A tick is
assumed to be no longer than the shortest absence, 5 s: with longer ones the worker
would be back before any time has passed.

**`Demo`** composes it with `Probe` and with the handler of `/v1/demo/decommission`:
`TurnAway`, `StatusTest`, `Allowed`, `Refused`, `NotRecorded`, then `play_dead` as
`Connect`, `Deliver`, `Undelivered`, and the answers `Started` and `ReplyLost`. Whether
a run is noticed is a matter of time, so a `Tick` of 3 s (a probe's timeout) passes
when nothing is left to be done: `timer` counts a loop's sleep (15 s and up to 3 s of
jitter) and its probe, `reopen` the worker's timer. `Loop` is a loop's progress,
`LoopFails` everything that may go wrong with it: a failed statement, a cycle without its
query, a restart. Four variables are history: `knocker` (whose order closed the
listener), `muddled` (runs that were not alone), `stalls` (how often loops have failed
while a run's order kept the worker down) and `unasked` (loops whose verdict comes from
the `unwrap_or(false)` of `probe.rs:166` instead of the ledger).

**`Startup`** is `init_with_retry`, a statement an action: `InitLock`, `InitSchema`,
`InitPolicies`, `InitTopology`, `InitCommit`, `InitReady`; `InitFails` is a failed attempt
or a commit whose answer is lost, `Restart` the process, `Edit` an operator. What an
uncommitted transaction has inserted is in `draft`.

**`Service`** puts callers around it. Requests `Arrive` (`db_client`), wait for a client
of the container's pool (`GetClient`, `WaitTimeout`), and either append (`AppendLock`,
`AppendCommit`) or read a page with two queries (`QueryRows`, `QueryTotal`); a reader
goes on to the next page, at any container, until one is not full (`WalkEnds`).
`RequestFails` and `Crash` end them at any await. One lock serves appends and
migrations; of a dead container `PostgresReaps` it.

**`RateLimit`** is `check` for one client over several containers: `ReadMinute`,
`Incr`, `Expire`, `CacheFails`, `CountInMemory`, `Dropped`, and the clock's `Tick`.
`Connect` is `cache_connect_with_retry`, `Sweep` what another client's request does to
the entry when the map is full, `Restart` a container that starts anew. `lost` is
history: the minutes whose count a map has forgotten.

`Mut...` operators are plausible bugs of the definition that follows them; they are
used by no specification and exist to show that the properties notice. The
correspondence of each definition to its lines is `map` in `PROJECT.json`.

## 3. The runs

To repeat one: `tlc -config MCLedger.cfg MCLedger`.

| Run | Config | Instance | Distinct states |
|---|---|---|---|
| `ledger` | `MCLedger.cfg` | 3 appends, 2 classes of params, 2 clock readings, fairness | 280,712 |
| `evaluate` | `MCGate.cfg` | 2 requests, 4 hosts, 84 × 2 inputs, 1 edit | 1,296,721 |
| `rate` | `MCRateLimit.cfg` | 4 requests, 2 containers, limit 2, 2 minutes, flaky cache, restarts | 342,210 |
| `observe_one` | `MCObserveOne.cfg` | 1 container, 2 hosts, 3 flips, 2 allows, 3 windows | 1,802,700 |
| `observe_live` | `MCObserveLive.cfg` | 2 containers, clocks apart, 1 host, 2 flips, 1 allow, 1 fault, fairness | 1,113,887 |
| `observe_sync` | `MCObserveSync.cfg` | 1 container, 1 host, 2 syncs, 3 flips, 1 allow, 1 fault | 5,402,038 |
| `demo` | `MCDemo.cfg` | 2 runs, 1 container, ticks of 3 s, 1 fault, 1 failed listen, fairness | 600,992 |
| `service` | `MCService.cfg` | 2 containers, 2 appends, 1 walk, pool 1, pages of 1, 1 fault, 1 edit, fairness | 174,122 |

- **`ledger`**: `NoIdClash`, `ChainVerifies` and `AckedIsReadBack` hold whatever calls
  fail or are abandoned and wherever; `ImplementsAppendLog` shows the refinement of
  `AppendLog`; `EveryAppendReturns` that the advisory lock is always given back.
  `TamperingIsReported` edits every table the calls can have written, in every way
  `ForgedRow` lists (a field changed, digests and links copied from other rows, the
  next row made to fit), and asks `verify_chain` where it breaks.
  Three calls are what it takes for one to hold the lock, one to wait for it and one
  to have died; the clock readings 1999 and 2000 ns lie on either side of a
  microsecond, and the params include negative zero.
- **`evaluate`**: `AnswerIsOnRecord`, `OneRowAtMost` and `DecisionFollowsTable`. The
  first request carries everything the engine can distinguish, over a stateful
  service, one of the audit spine, a plain one and one that is not in the model; the
  second is under way beside it. The edit happens at any point of either.
- **`rate`**: `SharedLimit`, `MemoryLimit` and `RefusedOnlyOverLimit`, with limit 2 in
  place of 30: four requests cross it, on two containers, over one minute boundary,
  with Valkey answering, failing, or answering late, the map swept and containers
  restarting. Valkey itself keeps its count. `SharedLimit` counts what Valkey answers:
  while it flaps, each container's map adds a limit of its own, which no property
  bounds. `RefusedOnlyOverLimit` counts whoever was past the `INCR`, dropped requests
  too, so that it says what a slow cache cannot do, not who came first. `MemoryLimit` excepts the minutes whose count a map has lost; section 4
  tells of the case worth knowing.
- **`observe_one`**: the README's promises about removals, kept by one container
  without faults: `AuditsAreSingleUse`, `AllowCoversOneRemoval`, `StatusIsExplained`,
  `RemovedAfterThreeFailures`. Three flips are a removal, a return and a second removal;
  two allows and three windows let an allow be fresh, spent, or expired at each of them.
- **`observe_live`**: `RemovalLoggedOnce` with two loops racing and one of them
  failing; `BackIsSeen` and `DownIsFlagged`, that the model agrees with the network in
  the end.
- **`observe_sync`**: two syncs at any moment of each other and of a probe loop, one
  statement, handler or container failing. `RemovalLoggedOnce`: each claim has its one
  entry, and whatever further entry there is comes from a sync that found the row
  claimed. `AllowSpentOnceEach`: two observers can spend one allow twice (section 4), but
  none goes on spending it. Three flips and two syncs are enough for four removals, one
  more than the three observers may take as authorized by one allow. The requests are
  interchangeable, so the run uses symmetry; it checks safety only, and compares states
  without `streak`, which neither of the two invariants reads, and `allows`, which the
  ledger determines (`NoStreak`).
- **`demo`**: `KnockIsNoticed`, that 90 s are enough for three cycles at their longest and
  one failure or restart of the loop (`Spare`); `ApprovedIsNotDrift`, whatever else gets
  lost; `FiledAsAnnouncedAlone`, for runs that meet no other; `DemoLeavesNoTrace`. Two
  runs are what it takes to meet: both orders within the 50 ms, the second in the 45 s
  before the status changes, during the absence, after the return, or while a failed
  listen is tried again. The fault is one of a handler, of any statement of the loop, or a
  restart; with two, one more than `Spare`, the run passes as well (2,601,676 states, three
  minutes).
- **`service`**: `ServesCompleteSchema`, `EditsSurvive`, `InitsDoNotCollide` and
  `EveryContainerServes` for the initialisation; `EveryRequestAnswered`, although
  handlers hold clients while they wait for a lock that others hold; `PageFitsTotal`
  and `WalkSkipsNothing` for a walk that two appends shift. A pool of one client makes
  the second caller wait; pages of one entry make a walk of two entries have three
  pages. The edit switches or deletes the policy, or deletes one or both of the hosts, so
  that the topology keeps a row or is emptied. The run ends when each request has been
  answered, so it does not check for deadlock: `EveryRequestAnswered` and
  `EveryContainerServes` do.

Four more runs end in a counterexample; they are section 4.

The counter of failures stops at `FailureCap`, one above the only value the code
compares it with; `faults` bounds crashes and failed statements together.
`Terminated` lets finished calls stutter, so that TLC's deadlock check is on
everywhere but in `service`: a state in which a call can neither go on nor is over would
be an error.

## 4. What the code does not keep

Each of these is a statement in the repository that a short behaviour contradicts.

- **`ledger_ack`** (`ErrMeansNotRecorded`). If the acknowledgement of `COMMIT` is
  lost, `append` returns an error and `evaluate` answers "decision not recorded"
  (`gate/src/http.rs:191`; `README.md:89`: "appends nothing"), with a signed row in
  the table. An allow recorded that way can later explain a removal.
- **`ledger_jsonb`** (`ChainVerifies`). `normalize_params` takes care of negative zero
  and says that it is the only float affected (`gate/src/ledger.rs:103`). An integral
  float from 1e16 up to 2^64 is signed as `1e16` and comes back from `jsonb` as
  `10000000000000000`: verification then reports an untouched row as broken.
- **`observe_race`** (`AuditsAreSingleUse`). One container reads the verdict and is
  held up; the other audits the removal and sees the service come back; the first
  claims the row with its old verdict. One allow, two audits (`README.md:90`).
- **`demo_second`** (`FiledAsAnnounced`). "One demo at a time"
  (`gate/src/http.rs:313`, `README.md:154-155`) rests on the row's status, which changes
  with the third failed probe. A second run passes the test until then. If it is
  approved, its allow is in the ledger before it finds the port closed (502), and the
  first run, which was not approved and whose caller was told to expect a drift, is
  filed as an audit.

Further behaviours come out of the same modules with other constants; they are not
runs of their own.

- One container, three flips, one allow, one fault: `AllowCoversOneRemoval` fails. A
  container that dies between the claim of an audited removal and its entry leaves the
  allow unspent, and after a return of the service it covers the next removal as well
  (`README.md:27`). With a failed append in place of the crash, `StatusIsExplained`
  fails too: a status without an entry behind it stays.
- A sync beside a probe loop, or beside another sync: one removal is logged twice. The
  handler does not look at how many rows its `UPDATE` changed (`gate/src/http.rs:468`),
  so a removal that somebody else has claimed and filed in the meantime gets a second
  entry: a drift for one that was audited, if the sync's verdict comes after that audit
  (`README.md:31`), or a second audit on the same allow, if it came before
  (`AuditsAreSingleUse` fails). `late` counts these, and `RemovalLoggedOnce` says that
  there are no others.
- Two containers whose clocks differ: `AuditsAreSingleUse` fails without any race,
  since an allow stamped by the faster clock looks newer than the audit that spent it.
  `AllowSpentOnceEach` is what is left with several observers and clocks.
- Two containers and two flips: `RemovedAfterThreeFailures` fails, since the claim
  tests the status but not the counter, which an answered probe may have reset.
- `MemoryLimit` without its exception fails in `rate`: with Valkey down, a request that
  read the minute before the boundary and counts itself after it resets the
  container's entry, and with it the count of the new minute
  (`gate/src/rate_limit.rs:42`).
- `EditsSurvive` speaks of rows that are there. A policy's row that was deleted is
  inserted again, enabled, when the next container comes up (`gate/src/db.rs:106`). A
  host that was deleted stays deleted only as long as another row is left: a topology
  that was emptied is seeded again as a whole (`gate/src/db.rs:112-113`), deleted hosts
  included.
- In `demo`, `ApprovedIsNotDrift` and `FiledAsAnnouncedAlone` without `Asked` fail: an
  error of the query for an allow counts as no allow (`gate/src/probe.rs:166`), and an
  approved run that was alone, and whose caller was told to expect an audit, is filed as
  a drift. With `MaxFaults = 2` they fail without `Punctual`, and `KnockIsNoticed` without
  its premise: two failures of the loop in one absence, each of which can cost a cycle, and the worker is
  back before the third failed probe.
- `TamperingIsReported` speaks of rows before the last. Rows taken from the end leave a
  shorter chain that verifies: nothing records its length.

## 5. Fairness

Only what the runtime does by itself is assumed to go on.

- `Ledger`: weak fairness of each call's own next statement (`Progress`: tokio polls
  a task whose query has answered), of `Commit` (Postgres executes what it was sent),
  and of `Notice` (a task hears of a transaction Postgres gave up, and Postgres gives
  up a session whose client is gone). Since there is no `lock_timeout`, a waiting
  append depends on exactly this: if Postgres never noticed a dead session, its lock
  would stay. No call is obliged to fail. Weak fairness is enough, because once the
  finitely many other calls are over nobody competes for the lock any more.
- `Observe`: weak fairness of each loop's next step (its sleep ends, its statements
  answer) and of each spawned probe (it has a 3 s timeout). Nobody is obliged to stop
  a service, ask for an allow, send a sync, or fail; the liveness properties speak of
  services that stay up or down from some point on.

- `Demo`: weak fairness of time (`Tick`), of each loop's next step, of `Listen` and
  `ListenFails` (the timer that is due), and of the handlers and their 50 ms callbacks
  taken together: these are finitely many steps, so each of them is taken in the end.
  Nobody is obliged to start a run, and no statement to fail. `ListenFails` is bounded, so that a port which is
  never free again is not a behaviour: against that, the code has no remedy.
- `Service`: weak fairness of each container's initialisation and of each handler's
  next step (timeouts and answers come), and of `PostgresReaps`, the server's keepalive.
  The pool's `wait_timeout` is part of `Handle`. A container that waits for the lock
  gets it in the end because only finitely many requests compete for it.

`RateLimit` and `Gate` state safety only and assume no fairness.

## 6. The proofs

`tlapm M.tla`, for `LedgerProofs`, `GateProofs`, `RateLimitProofs`, `ServiceProofs`,
`ProbeProofs`, `ObserveProofs`, `SoloProofs` and `DemoProofs`. Every leaf is checked. Every
safety invariant and every action property that a run checks and no counterexample
refutes is the statement of a theorem; where a theorem has hypotheses, the run that
checks the property satisfies them.

### `LedgerProofs`: for any number of calls, any params and any clock

Assumed: `NoRequest` is not a request, params are among the modelled classes, clock
readings are natural numbers (the named assumptions of `Ledger`).

`TypeOK` and `NoIdClash` are not inductive: they say nothing of why the head a call
has read is still the head when it commits. The invariant that is, `IInv`, adds

- `TableInv`: ids are 1..n without a gap, so the head's id is the number of rows;
- `LockInv`: a call holds the advisory lock from its read of the head until its
  transaction ends, and only an open transaction holds it;
- `SignInv`: a prepared row is its call's own, signed over the values it carries, and
  reads back as it was signed;
- `RowInv`: the prepared row of an open transaction still extends the newest
  committed row;
- `ChainInv`: each committed row's `prev_hmac` is its predecessor's `hmac`, and its own
  `hmac` is the one recomputed from its columns;
- `CallInv`: a committed transaction has its row in the table, no other has, and `Ok` is
  answered to a committed one only.

From it follow `LedgerTypeOK`, `LedgerNoIdClash`, `LedgerImplementsAppendLog` (initial
states map to initial states; `Commit` maps to `Record`, `Return` to `Acknowledge`,
`Raise` to `Reject`, everything else to a stutter) and, under the further hypothesis
`"wide_float" \notin Params`, `LedgerChainVerifies`, `LedgerAckedIsReadBack` and
`LedgerTamperingIsReported`. The hypothesis is needed: `ledger_jsonb` is the
counterexample without it. The last one goes by cases on what was forged: a changed
field no longer fits the digest, a copied digest belongs to a row with other contents
(an `hmac` determines the whole prefix that was signed), a changed link no longer fits
the row before; and every row up to there is untouched, so it is the first break.

### `GateProofs`: for any requests, any model, any number of edits

Assumed: what requests may carry and what the seeded model is (`SentAssumption`,
`ViewsAssumption`, `ChangesAssumption`).

`EvaluateIsFirstMatch` says that the cascade and the table agree on every request,
every model and every set of rows in table `policies`, deleted rows included. It
goes through the five rules by number: the cascade returns at the first that
hits, and the least element of the table's set of hits is the same.

`DecisionFollowsTable` speaks of rows, but a row is decided two awaits after the model
was read. The inductive invariant `IInv` therefore follows the handler: what it has
read was in force while it ran (`SeenInv`), so what it has decided follows the table
for something in force (`DecisionInv`), and so do the rows (`RowInv`), which belong to
finished handlers only. That last clause is why a row is its request's only one, and
why an answer with status 200 points at the right one (`AnswerInv`). The theorems are
`GateTypeOK`, `GateAnswerIsOnRecord`, `GateOneRowAtMost` and
`GateDecisionFollowsTable`.

### `RateLimitProofs`: for any finite set of requests, any containers and any limit

Assumed: requests are finitely many, the limit is positive (`RequestAssumption`,
`LimitAssumption`). That no more than `Limit` requests pass does not follow from the
counters by themselves. `IInv` relates them to the requests:

- `CountInv`: of a minute, Valkey has counted at least the requests it has admitted, and
  at most those that have got past their `INCR`;
- `MemoryInv`: the same lower bound for a container's map, in minutes it has not lost;
- `ServedInv`: a map counts at most the requests its container has served in that minute;
- `RefusedInv`: a refused request has `Limit` others behind it.

An admission adds one request to a set whose size the counter bounds, and it happens
only if the counter, after its own increment, is still within the limit; a refusal
happens only if the counter is above it, and then the upper bounds supply the others.
The theorems are `RateTypeOK`, `RateSharedLimit`, `RateMemoryLimit` and
`RateRefusedOnlyOverLimit`.

### `ServiceProofs`: for any containers, policies, seed, requests, pool and page sizes

Assumed: sessions, containers and requests are different things, there is a container,
something is seeded, pool and page hold at least one (`StartupAssumption`,
`ServiceAssumption`). `ServesCompleteSchema` speaks of containers that serve; what a
container has done before it serves is in the invariant, `IInv`:

- `LockInv`: whoever is past the first statement of its migration holds the lock;
- `DraftInv`: so the tables are still as it found them, and no row it is about to commit
  conflicts with one of them;
- `ReadyInv`, `UneditedInv`: a container that is done has found or left the schema; as
  long as no operator has edited them, the tables hold all of the seed or nothing of it,
  and each transaction what is missing;
- `RequestInv`: for a page, `PageSound`; for a walk, `WalkSound`.

Appends go in at the top of a listing, so every entry only gets deeper. A page that was
queried earlier is a slice of a listing that has since been pushed down, and fits into
a later count; and what a walk has not seen lies at its offset or deeper, however many
entries have come in since. This is counting with finite sets of ranks, the lemmas under
"Numbers, ranked from the top". The theorems are `SpecIInv`, `TypeCorrect`,
`ReadyMeansComplete`, `PagesFit`, `WalksAreComplete`, `MigrationsKeepEdits` and
`MigrationsDoNotCollide`.

### `ProbeProofs`, `ObserveProofs`, `SoloProofs`: for any hosts, containers and bounds

Assumed: there are finitely many containers and at least one; `NoHost` is not a host.
`ProbeProofs` has what each statement of the loop does to the types and to its own
variables, and what an append does to the ledger's order; the other two, and
`DemoProofs`, cite it action by action.

`ObserveProofs`:

- `TypeCorrect`, for any number of loops, syncs, flips, allows and faults.
- `RemovalsAreLoggedOnce`, for any number of loops, concurrent syncs, clocks and faults.
  Claims, and the syncs that came too late for one, are counted against their entries, the
  observers that still owe one, and the faults that lost one (`Balanced`).
- `AllowsAreSpentOnceEach` (`AllowSpentOnceEach`), for the same and any clocks. An entry's
  timestamp says when it was written, up to the spread of the clocks (`Timed`), so a
  verdict can take an allow for unspent only if fewer audits than the spread have followed
  it. Each observer holds at most one verdict about a host and gives it up with the audit;
  the audits since the last allow and the verdicts held together never exceed the
  observers and the spread (`SpentInv`). The least and the greatest clock of a finite set
  of containers come from `WellFoundedInduction` and the finite sets' theorems.

`SoloProofs`, where one container's loop compares the network with the model and nobody
sends a sync (`SingleObserver`); the first three also assume `OneClock`:

- `OneAllowOneAudit` (`AuditsAreSingleUse`), whatever crashes and fails. An audit needs an
  allow of its own, and between the verdict and the entry nobody else may spend it; the
  invariant `HostInv` says so of each host. `observe_race` is what a second observer does.
- `EachFaultCoversOneRemoval`, whatever crashes and fails: no more removals of a host are
  taken as authorized than there were authorizations of it and faults together
  (`ExcessIsFaults`). Section 4 has the crash that makes one allow cover two removals.
- `AllowsCoverRemovals` follows from it where `MaxFaults = 0`.
- `LedgerExplainsStatus`, where `MaxFaults = 0`: a row
  that is not as the newest entry says is one whose loop has the entry still to write
  (`ExplainedInv`). With a fault between claim and entry it stays unexplained.
- `ThreeFailuresBeforeRemoval`, for one container (`OneLoop`) without faults, beside any
  syncs: the
  counter in the table never runs ahead of the failures in a row (`StreakInv`). A reset
  that fails, or a second container, lets it.

### `DemoProofs`: for any runs, jitter, timeouts and length of a tick

Assumed besides the above: the one host is the target and is probed, a sleep is at
least a tick (`DemoAssumption`), a tick is at most 5 s (`OldWorkerAssumption`).

`TypeCorrect` holds for any number of containers, runs and faults.

`KnocksAreNoticed` (`KnockIsNoticed`) has the hypothesis `CyclesFit`: three of the longest
cycles (`MaxSleep` and a probe's timeout each), and one for each of the `Spare` failures of
the loops that an absence is to put up with, are shorter than the absence. `demo.rs:13`
claims "plus slack"; with the figures of the source the slack is good for one failure,
(3 + 1) · (18 s + 3 s) = 84 s < 90 s, and in the run that is 28 ticks of 30. It holds for any
number of containers. The invariant, `NoticeInv`, has a variant in it: once a tick has
passed since the worker went down, all probes fail, and `Left(c)`, the longest time until
loop `c` claims the removal, is, with the `Reserve` for the failures to come, less than the
time until the worker listens again. A tick takes as much from one as from the other, a
counted failure makes good for the cycle it begins, a failure of the loop spends a cycle of
the reserve, and no other move adds to either.

`ApprovedRunsAreNotDrift` (`ApprovedIsNotDrift`) and `AloneIsFiledAsAnnounced`
(`FiledAsAnnouncedAlone`) add `OneLoop` and `AllowsFit`: the runs are finitely many and fewer
than a window has entries. `Tables` measures age in entries appended, so `AllowsFit` says
that the runs in question do not drag on for thirty minutes; a run is over within
seconds, and its claim within 90 s. `OneLoop` is what the proof needs, not what breaks the
properties: with a second container a probe's answer can be counted after the other one
has claimed, and the invariants below do not say what may be left over from whom. With two
containers, two runs and one fault TLC finds no violation. The properties speak of
filings while no absence has seen more than `Spare` failures (`Punctual`), by a loop whose
verdict the ledger gave (`Asked`); section 4 has what happens otherwise. The invariant,
`StageInv`, holds as long as `Punctual` does:

- `DownInv`: failures are counted, removals claimed and filed only while the worker is
  down, since by `NoticeInv` the claim is over before it listens again;
- `RunsInv`: a run is under way only while the row is present, and none is when the
  worker opens its port again;
- `BackedInv`: while the order of an approved run is on its way, and from then on until its
  removal has been claimed, there is an allow that no audit follows, and it is not older than
  the entries of the runs past their decision and one reappearance (`Slack`); hence the
  verdict, if it asks, finds it;
- `AloneInv`: as long as a run that was not approved has the stage for itself there is no
  allow to be found and nobody to record one.

TLC checked the four on the instance of `demo` and with the smallest windows `AllowsFit`
permits before they were proved.

### Model-checked only

Liveness (`EveryAppendReturns`, `BackIsSeen`, `DownIsFlagged`, `DemoLeavesNoTrace`,
`EveryContainerServes`, `EveryRequestAnswered`) is out of this prover's reach, as is
anything by induction over data. That `Tables` may take an append for one step rests on
`LedgerImplementsAppendLog` as an argument, not as a composed specification. The four
statements of section 4 are refuted, so there is nothing to prove of them without the
hypotheses named above.

## 7. Abstractions, and what is not modelled

Abstractions within the modules:

- Entries keep the fields a property or a query looks at; reasons, actors and wording
  are left out. A digest is a term, so a collision cannot happen.
- `Tables` records only allowed stops and deletes among the decisions, because
  `recent_allow_exists` reads no others.
- A statement that takes effect and loses its answer is not an action of `Probe`: it
  leaves the tables as a failure of a later statement of the same handler would.
- `Probeable` is constant, though a sync may change a service's `probe_method`.
- The limiter's map is one entry; that it holds more than 4096 is the environment's
  choice (`Sweep`).
- `verify_chain` is the operator `VerifyChain`, evaluated on one state of the table.
- `Demo` counts time in ticks of 3 s and takes statements, connections and replies to be
  over within the tick they begin in, and so a container's restart: a database that keeps a
  cycle waiting, or a container that stays away, could make a run go unnoticed. A loop
  that has failed to get its rows sleeps like one that has restarted. The 30 minute window
  never closes in it.
- A page of `Service` shows the kinds of its entries and no more. The container's other
  tasks are requests: a cycle of the probe loop is an appender. A migration's client is
  not counted among the pool's, since nobody else of that container gets one before
  `db_ready`.
- The sync's inserts into `topology` are left out of `Service`, whose rows come from the
  seed.

Parts not modelled:

- *Health and the reads of policies and topology*: one question each, whose answer is
  passed on.
- *A gate without `DATABASE_URL`*: `db_client` gives nobody a client, as before
  `db_ready`.
- *State and token*: `token_matches` is a comparison made before any state is touched.
- *Startup, console, script, deploy files*: they start, draw or describe the rest.
- *`seed.json`, `validate_service`*: data, and checks of one request's body.

## 8. Plan

In this order; what is not marked done is left.

1. `AppendLog`, `Ledger`, `LedgerProofs`: the ledger first, since everything else
   rests on it. Done.
2. `Policy`, `Gate`, `GateProofs`: the endpoint agents depend on. Done.
3. `Tables`, `Probe`, `Sync`, `Observe`: observation, two containers, faults. Done.
4. `RateLimit`. Done.
5. `LedgerTamperingIsReported`: edits of the table without the key. Done.
6. `RateLimitProofs`. Done.
7. `OldWorker`, `Demo`. Done.
8. `Startup`, `Service`: initialisation, pool, pages. Done.
9. `ServiceProofs`. Done.
10. `ProbeProofs`, `ObserveProofs`, `SoloProofs`. Done.
11. `DemoProofs`. Done.
12. What the hypotheses of section 6 leave open. `ApprovedRunsAreNotDrift` and
    `AloneIsFiledAsAnnounced` for two containers: each needs a count of the probes under
    way and of the answers not yet counted beside the failures of the row. And both with
    a window that counts the allows since the row became present instead of all runs
    there may ever be. A bound on the requests that the containers' maps let pass while
    Valkey flaps.
13. A statement of what `Tables` assumes of `Ledger`, as an abstract specification that
    both refer to.
