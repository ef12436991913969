------------------------------ MODULE OldWorker ------------------------------
(***************************************************************************)
(* oldworker/server.js: the beacon the demo knocks over.  POST /playdead   *)
(* is answered at once and closes the listener 50 ms later; a timer opens  *)
(* it again.  Time is counted in ticks of TickSeconds: the 50 ms are less  *)
(* than one, the retry of a failed listen is rounded up to one.            *)
(***************************************************************************)
EXTENDS Integers

CONSTANTS
    Order,             \* the requests POST /playdead
    TickSeconds,       \* seconds per tick
    MaxListenErrors    \* bound: failures of server.listen

\* The worker is down for five seconds at least: a tick is not longer.
ASSUME OldWorkerAssumption ==
    TickSeconds \in 1..5 /\ MaxListenErrors \in Nat

VARIABLES
    server,        \* "listening", "failed" (created, but listen failed) or "null"
    stopping,      \* the orders whose 50 ms are not over
    reopen,        \* ticks until startListening is called; Never if it is not
    listenErrors   \* failures of server.listen so far

workerVars == <<server, stopping, reopen, listenErrors>>

MAX_SECONDS == 120
Never == -1

\* Math.max(5, Math.min(MAX_SECONDS, seconds))
Clamp(seconds) ==
    IF seconds > MAX_SECONDS THEN MAX_SECONDS ELSE IF seconds < 5 THEN 5 ELSE seconds

InitWorker ==
    /\ server = "listening"
    /\ stopping = {}
    /\ reopen = Never
    /\ listenErrors = 0

\* The handler of /playdead: the reply goes out, stopListening is scheduled.
PlayDead(o) ==
    /\ server = "listening"
    /\ stopping' = stopping \cup {o}
    /\ UNCHANGED <<server, reopen, listenErrors>>

\* if (!server) return; otherwise close, and start again after the seconds.
StopListening(o, seconds) ==
    /\ o \in stopping
    /\ stopping' = stopping \ {o}
    /\ \/ server = "null" /\ UNCHANGED <<server, reopen>>
       \/ /\ server # "null"
          /\ server' = "null"
          /\ reopen' = Clamp(seconds) \div TickSeconds
    /\ UNCHANGED listenErrors

\* Mutant: the error handler logs and does not try again.
MutListenFails ==
    /\ reopen = 0
    /\ listenErrors < MaxListenErrors
    /\ server' = "failed"
    /\ reopen' = Never
    /\ listenErrors' = listenErrors + 1
    /\ UNCHANGED stopping

\* server.on("error"): the old socket lingers; again in one second.
ListenFails ==
    /\ reopen = 0
    /\ listenErrors < MaxListenErrors
    /\ server' = "failed"
    /\ reopen' = 1
    /\ listenErrors' = listenErrors + 1
    /\ UNCHANGED stopping

\* startListening
Listen ==
    /\ reopen = 0
    /\ server' = "listening"
    /\ reopen' = Never
    /\ UNCHANGED <<stopping, listenErrors>>

WorkerOK ==
    /\ server \in {"listening", "failed", "null"}
    /\ stopping \subseteq Order
    /\ reopen \in -1..(MAX_SECONDS \div TickSeconds)
    /\ listenErrors \in 0..MaxListenErrors
=============================================================================
