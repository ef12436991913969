----------------------------- MODULE AppendLog -----------------------------
(***************************************************************************)
(* What the ledger promises its callers, with no table, transaction, lock  *)
(* or digest in sight: one totally ordered log that only ever grows at its *)
(* end, holds every request at most once, and never loses a request it has *)
(* acknowledged.                                                           *)
(*                                                                         *)
(* The promise has a gap that callers must know of: an error does not say  *)
(* that the request is absent (Record does not look at the answer), which  *)
(* is all ledger::append can offer over a connection that may break.       *)
(***************************************************************************)
EXTENDS Sequences, Naturals

CONSTANT Request

VARIABLES
    log,      \* the requests recorded so far, oldest first
    answer    \* what the caller of each request has been told

vars == <<log, answer>>

Recorded == {log[i] : i \in DOMAIN log}

Init ==
    /\ log = <<>>
    /\ answer = [r \in Request |-> "pending"]

Record(r) ==
    /\ r \notin Recorded
    /\ answer[r] # "ok"
    /\ log' = Append(log, r)
    /\ UNCHANGED answer

Acknowledge(r) ==
    /\ answer[r] = "pending"
    /\ r \in Recorded
    /\ answer' = [answer EXCEPT ![r] = "ok"]
    /\ UNCHANGED log

Reject(r) ==
    /\ answer[r] = "pending"
    /\ answer' = [answer EXCEPT ![r] = "err"]
    /\ UNCHANGED log

Next == \E r \in Request : Record(r) \/ Acknowledge(r) \/ Reject(r)

Spec == Init /\ [][Next]_vars
=============================================================================
