------------------------------ MODULE RateLimit ------------------------------
(***************************************************************************)
(* The per-client rate limit of gate/src/rate_limit.rs, for one client IP: *)
(* requests served by several containers count themselves in Valkey under  *)
(* a key per minute, and in the container's memory while it has no         *)
(* connection to Valkey, or when Valkey fails or takes longer than 800 ms. *)
(* The minute is read once, before the first await, and used after the     *)
(* last.  A container that restarts begins without a map and without a     *)
(* connection.                                                             *)
(***************************************************************************)
EXTENDS Naturals, FiniteSets

CONSTANTS
    Request,      \* requests of one client IP
    Container,    \* containers of the gate
    Limit,        \* LIMIT, requests per minute
    LastMinute    \* bound: minutes the clock goes through

ASSUME RequestAssumption == IsFiniteSet(Request)
ASSUME LimitAssumption == Limit \in Nat \ {0} /\ LastMinute \in Nat

VARIABLES
    clock,     \* the current minute
    connected, \* the containers whose cache is Some(connection)
    pc,        \* where each request is in check()
    at,        \* the container serving each request
    minute,    \* the minute each request has read
    count,     \* Valkey: value of rl:{ip}:{minute}
    memory,    \* mem_rl of each container: the entry of this IP
    fellBack,  \* history: the requests Valkey did not answer in time
    lost       \* history: the minutes whose count a container's map has lost

requestVars == <<pc, at, minute, fellBack>>
vars == <<clock, connected, requestVars, count, memory, lost>>

Minute == 0..LastMinute

NoEntry == [minute |-> 0, count |-> 0]

Init ==
    /\ clock = 0
    /\ connected = {}
    /\ pc = [r \in Request |-> "start"]
    /\ at \in [Request -> Container]
    /\ minute = [r \in Request |-> 0]
    /\ count = [m \in Minute |-> 0]
    /\ memory = [c \in Container |-> NoEntry]
    /\ fellBack = {}
    /\ lost = {}

Goto(r, point) == pc' = [pc EXCEPT ![r] = point]

\* The verdict on a request that is the n-th of its minute.
Decide(r, n) == Goto(r, IF n <= Limit THEN "admitted" ELSE "refused")

\* The entry of container c loses what it has counted.
Forgotten(c) ==
    IF memory[c].count = 0 THEN lost ELSE lost \cup {<<c, memory[c].minute>>}

\* cache_connect_with_retry gets its connection, which mends itself from then on.
Connect(c) ==
    /\ connected' = connected \cup {c}
    /\ c \notin connected
    /\ UNCHANGED <<clock, requestVars, count, memory, lost>>

\* Mutant: the minute is rounded up.
MutReadMinute(r) ==
    /\ pc[r] = "start"
    /\ minute' = [minute EXCEPT ![r] = clock + 1]
    /\ Goto(r, "incr")
    /\ UNCHANGED <<clock, connected, at, fellBack, count, memory, lost>>

\* SystemTime::now(), then the connection, if there is one.
ReadMinute(r) ==
    /\ pc[r] = "start"
    /\ minute' = [minute EXCEPT ![r] = clock]
    /\ \/ at[r] \in connected /\ Goto(r, "incr") /\ UNCHANGED fellBack
       \/ at[r] \notin connected /\ Goto(r, "memory") /\ fellBack' = fellBack \cup {r}
    /\ UNCHANGED <<clock, connected, at, count, memory, lost>>

\* Mutant: GET, then SET, by two containers at once: the second sees no more
\* than the first did.
MutIncr(r) ==
    /\ pc[r] = "incr"
    /\ \E n \in {count[minute[r]], count[minute[r]] + 1} \ {0} :
          /\ count' = [count EXCEPT ![minute[r]] = n]
          /\ \/ n = 1 /\ Goto(r, "expire")
             \/ n # 1 /\ Decide(r, n)
    /\ UNCHANGED <<clock, connected, at, minute, fellBack, memory, lost>>

\* INCR of the minute's key; the first one goes on to set the expiry.
Incr(r) ==
    LET n == count[minute[r]] + 1 IN
    /\ pc[r] = "incr"
    /\ count' = [count EXCEPT ![minute[r]] = n]
    /\ \/ n = 1 /\ Goto(r, "expire")
       \/ n # 1 /\ Decide(r, n)
    /\ UNCHANGED <<clock, connected, at, minute, fellBack, memory, lost>>

\* EXPIRE after an INCR that returned 1: the key outlives its minute.
Expire(r) ==
    /\ pc[r] = "expire"
    /\ Decide(r, 1)
    /\ UNCHANGED <<clock, connected, at, minute, fellBack, count, memory, lost>>

\* INCR or EXPIRE fails or is too late; an INCR may have counted all the same.
CacheFails(r) ==
    /\ pc[r] \in {"incr", "expire"}
    /\ \/ UNCHANGED count
       \/ pc[r] = "incr" /\ count' = [count EXCEPT ![minute[r]] = @ + 1]
    /\ fellBack' = fellBack \cup {r}
    /\ Goto(r, "memory")
    /\ UNCHANGED <<clock, connected, at, minute, memory, lost>>

\* Mutant: the entry is given the new minute, but keeps its count.
MutCountInMemory(r) ==
    LET c == at[r]
        n == memory[c].count + 1 IN
    /\ pc[r] = "memory"
    /\ memory' = [memory EXCEPT ![c] = [minute |-> minute[r], count |-> n]]
    /\ Decide(r, n)
    /\ UNCHANGED <<clock, connected, at, minute, fellBack, count, lost>>

\* Mutant: the mutex is given back between the look at the entry and its update.
MutUnlocked(r) ==
    LET c == at[r]
        seen == IF memory[c].minute = minute[r] THEN memory[c].count ELSE 0 IN
    /\ pc[r] = "memory"
    /\ \E n \in {seen, seen + 1} \ {0} :
          /\ memory' = [memory EXCEPT ![c] = [minute |-> minute[r], count |-> n]]
          /\ Decide(r, n)
    /\ lost' = IF seen = 0 THEN Forgotten(c) ELSE lost
    /\ UNCHANGED <<clock, connected, at, minute, fellBack, count>>

\* The in-process map, under its mutex: an entry of another minute, older or
\* newer, starts again from zero.
CountInMemory(r) ==
    LET c == at[r]
        sameMinute == memory[c].minute = minute[r]
        n == IF sameMinute THEN memory[c].count + 1 ELSE 1 IN
    /\ pc[r] = "memory"
    /\ memory' = [memory EXCEPT ![c] = [minute |-> minute[r], count |-> n]]
    /\ lost' = IF sameMinute THEN lost ELSE Forgotten(c)
    /\ Decide(r, n)
    /\ UNCHANGED <<clock, connected, at, minute, fellBack, count>>

\* A request of another client, with another minute in hand, finds more than
\* 4096 entries in the map and retains those of its own minute.
Sweep(c) ==
    /\ memory[c].count # 0
    /\ \E m \in 0..clock : m # memory[c].minute
    /\ memory' = [memory EXCEPT ![c] = NoEntry]
    /\ lost' = Forgotten(c)
    /\ UNCHANGED <<clock, connected, requestVars, count>>

\* The handler's future is dropped with its connection at an await of check,
\* before or after its INCR has counted it.
Dropped(r) ==
    /\ pc[r] \in {"incr", "expire"}
    /\ \/ UNCHANGED count
       \/ pc[r] = "incr" /\ count' = [count EXCEPT ![minute[r]] = @ + 1]
    /\ Goto(r, "dropped")
    /\ UNCHANGED <<clock, connected, at, minute, fellBack, memory, lost>>

\* A container is replaced: its map, its connection and its requests are gone.
Restart(c) ==
    /\ connected' = connected \ {c}
    /\ memory' = [memory EXCEPT ![c] = NoEntry]
    /\ lost' = Forgotten(c)
    /\ pc' = [r \in Request |-> IF at[r] = c /\ pc[r] \in {"incr", "expire", "memory"}
                                THEN "dropped" ELSE pc[r]]
    /\ UNCHANGED <<clock, at, minute, fellBack, count>>

Tick ==
    /\ clock < LastMinute
    /\ clock' = clock + 1
    /\ UNCHANGED <<connected, requestVars, count, memory, lost>>

Over == {"admitted", "refused", "dropped"}

Check(r) == ReadMinute(r) \/ Incr(r) \/ Expire(r) \/ CacheFails(r) \/ CountInMemory(r)

Next ==
    \/ \E r \in Request : Check(r) \/ Dropped(r)
    \/ \E c \in Container : Connect(c) \/ Sweep(c) \/ Restart(c)
    \/ Tick

Spec == Init /\ [][Next]_vars

-----------------------------------------------------------------------------
(* Properties.                                                             *)

\* Every variable stays in its type.
TypeOK ==
    /\ clock \in Minute
    /\ connected \subseteq Container
    /\ pc \in [Request -> {"start", "incr", "expire", "memory"} \cup Over]
    /\ at \in [Request -> Container]
    /\ minute \in [Request -> Minute]
    /\ count \in [Minute -> 0..Cardinality(Request)]
    /\ memory \in [Container -> [minute : Minute, count : 0..Cardinality(Request)]]
    /\ fellBack \subseteq Request
    /\ lost \subseteq Container \X Minute

AdmittedIn(m) == {r \in Request : pc[r] = "admitted" /\ minute[r] = m}

\* Of the requests that fall into one minute and that Valkey answers, no more
\* than the limit pass, whichever containers they reach and whichever of them
\* restart (README.md:82).  Valkey keeps its count here; what it does not answer
\* in time, and each container's map then lets pass besides, is not counted.
SharedLimit == \A m \in Minute : Cardinality(AdmittedIn(m) \ fellBack) <= Limit

\* Without Valkey each container still keeps the limit for the requests it
\* serves (rate_limit.rs:1-3), in every minute whose count its map has not
\* lost: to a restart, to the sweep, or to a request that was held up over the
\* minute's end and counts itself last.
MemoryLimit ==
    \A c \in Container, m \in Minute : <<c, m>> \notin lost =>
        Cardinality({r \in AdmittedIn(m) \cap fellBack : at[r] = c}) <= Limit

\* A request is refused only if as many others of its minute as the limit
\* allows have been past their INCR, dropped and later ones among them: a slow
\* or failing cache refuses nobody on its own.
RefusedOnlyOverLimit ==
    \A r \in Request : pc[r] = "refused" =>
        Cardinality({q \in Request \ {r} : /\ minute[q] = minute[r]
                                           /\ pc[q] \notin {"start", "incr"}}) >= Limit
=============================================================================
