-------------------------------- MODULE Gate --------------------------------
(***************************************************************************)
(* POST /v1/evaluate (evaluate of gate/src/http.rs), for any number of     *)
(* concurrent requests, while an operator edits table policies and syncs   *)
(* upsert services.  Each await is a step; the future may be dropped at    *)
(* any of them when the client hangs up.                                   *)
(*                                                                         *)
(* The rate limit and the append appear here by their outcomes: modules    *)
(* RateLimit and Ledger say how they come about.                           *)
(***************************************************************************)
EXTENDS Policy

CONSTANTS
    Request,          \* the calls of the endpoint
    Sent,             \* what each may carry: [body, action, target, min, key]
    Views,            \* the seeded model: host |-> stateful
    NewHost,          \* hosts a later sync adds
    MaxChanges        \* bound: edits of the policies and upserts of services

\* "body" says whether the body parses and names a non-blank action and target.
ASSUME SentAssumption ==
    Sent \in [Request -> SUBSET [body : {"ok", "bad"}, action : STRING, target : STRING,
                                  min : MinContainers, key : EnvKey]]
ASSUME ViewsAssumption == Views \in [DOMAIN Views -> BOOLEAN]
ASSUME ChangesAssumption == MaxChanges \in Nat

VARIABLES
    sent,       \* what each request carries
    pc,         \* where its handler is
    views,      \* the handler's locals: topology::views ...
    decision,   \* ... and what policy::evaluate returned
    answer,     \* the response, once there is one
    model,      \* table topology: hosts, and whether they are stateful
    enabled,    \* table policies: absent is a deleted row
    rows,       \* the decisions in table ledger, in id order
    changes,    \* edits so far
    seen        \* history: models and flags in force while each request ran

locals == <<pc, views, decision, answer>>
vars == <<sent, locals, model, enabled, rows, changes, seen>>

NoAnswer == [status |-> 0, decision |-> Allow, id |-> 0]
Answers(status) == [NoAnswer EXCEPT !.status = status]

Init ==
    /\ sent \in {s \in [Request -> UNION {Sent[r] : r \in Request}] :
                   \A r \in Request : s[r] \in Sent[r]}
    /\ pc = [r \in Request |-> "limit"]
    /\ views = [r \in Request |-> <<>>]
    /\ decision = [r \in Request |-> Allow]
    /\ answer = [r \in Request |-> NoAnswer]
    /\ model = Views
    /\ enabled = [id \in PolicyId |-> TRUE]
    /\ rows = <<>>
    /\ changes = 0
    /\ seen = [r \in Request |-> [models |-> {Views}, flags |-> {enabled}]]

Goto(r, point) == pc' = [pc EXCEPT ![r] = point]

Respond(r, response) == answer' = [answer EXCEPT ![r] = response] /\ Goto(r, "done")

tables == <<model, enabled, changes, seen>>

\* check() says no: 429, and nothing else happens.
Limited(r) ==
    /\ pc[r] = "limit"
    /\ Respond(r, Answers(429))
    /\ UNCHANGED <<sent, views, decision, rows, tables>>

\* check() says yes; the body is parsed and its fields tested: 400.
Parse(r) ==
    /\ pc[r] = "limit"
    /\ \/ sent[r].body = "bad" /\ Respond(r, Answers(400))
       \/ sent[r].body = "ok" /\ Goto(r, "views") /\ UNCHANGED answer
    /\ UNCHANGED <<sent, views, decision, rows, tables>>

\* A client from the pool, then topology::views.
ReadViews(r) ==
    /\ pc[r] = "views"
    /\ views' = [views EXCEPT ![r] = model]
    /\ Goto(r, "enabled")
    /\ UNCHANGED <<sent, decision, answer, rows, tables>>

\* load_enabled, and the decision, which needs no await.
Decide(r) ==
    /\ pc[r] = "enabled"
    /\ decision' = [decision EXCEPT ![r] = Evaluate(sent[r], views[r], enabled)]
    /\ Goto(r, "append")
    /\ UNCHANGED <<sent, views, answer, rows, tables>>

\* No client within 5 s (or none before the schema is ready), or a query fails.
Unavailable(r) ==
    /\ pc[r] \in {"views", "enabled"}
    /\ Respond(r, Answers(503))
    /\ UNCHANGED <<sent, views, decision, rows, tables>>

NewEntry(r) ==
    [request |-> r, action |-> sent[r].action, target |-> sent[r].target,
     decision |-> decision[r]]

\* Mutant: the id answered is the one the next append will take.
MutRecorded(r) ==
    /\ pc[r] = "append"
    /\ rows' = Append(rows, NewEntry(r))
    /\ Respond(r, [status |-> 200, decision |-> decision[r], id |-> Len(rows) + 2])
    /\ UNCHANGED <<sent, views, decision, tables>>

\* ledger::append returns the entry.
Recorded(r) ==
    /\ pc[r] = "append"
    /\ rows' = Append(rows, NewEntry(r))
    /\ Respond(r, [status |-> 200, decision |-> decision[r], id |-> Len(rows) + 1])
    /\ UNCHANGED <<sent, views, decision, tables>>

\* Mutant: the decision is answered whether or not the append succeeded.
MutAppendFails(r) ==
    /\ pc[r] = "append"
    /\ rows' \in {rows, Append(rows, NewEntry(r))}
    /\ Respond(r, [status |-> 200, decision |-> decision[r], id |-> Len(rows')])
    /\ UNCHANGED <<sent, views, decision, tables>>

\* Mutant: a failed append is tried again.
MutRetry(r) ==
    /\ pc[r] = "append"
    /\ rows' \in {rows, Append(rows, NewEntry(r))}
    /\ Respond(r, Answers(503)) \/ UNCHANGED <<pc, answer>>
    /\ UNCHANGED <<sent, views, decision, tables>>

\* ledger::append returns an error; the row may be committed nevertheless.
AppendFails(r) ==
    /\ pc[r] = "append"
    /\ rows' \in {rows, Append(rows, NewEntry(r))}
    /\ Respond(r, Answers(503))
    /\ UNCHANGED <<sent, views, decision, tables>>

\* The connection is gone and hyper drops the handler, at whatever await.
Dropped(r) ==
    /\ pc[r] # "done"
    /\ \/ UNCHANGED rows
       \/ pc[r] = "append" /\ rows' = Append(rows, NewEntry(r))
    /\ Goto(r, "done")
    /\ UNCHANGED <<sent, views, decision, answer, tables>>

\* The requests under way will have run under this model and these flags too.
Witnessed ==
    seen' = [r \in Request |->
                IF pc[r] = "done" THEN seen[r]
                ELSE [models |-> seen[r].models \cup {model'},
                      flags |-> seen[r].flags \cup {enabled'}]]

\* An operator switches a policy, or deletes its row.
EditPolicy(id) ==
    /\ changes < MaxChanges
    /\ changes' = changes + 1
    /\ id \in DOMAIN enabled
    /\ enabled' \in {[enabled EXCEPT ![id] = ~@], [i \in DOMAIN enabled \ {id} |-> enabled[i]]}
    /\ UNCHANGED model
    /\ Witnessed
    /\ UNCHANGED <<sent, locals, rows>>

\* topology_sync upserts a service; no row is ever deleted.
UpsertService(h, stateful) ==
    /\ changes < MaxChanges
    /\ changes' = changes + 1
    /\ model' = [i \in DOMAIN model \cup {h} |-> IF i = h THEN stateful ELSE model[i]]
    /\ UNCHANGED enabled
    /\ Witnessed
    /\ UNCHANGED <<sent, locals, rows>>

Handle(r) ==
    \/ Limited(r) \/ Parse(r) \/ ReadViews(r) \/ Decide(r) \/ Unavailable(r)
    \/ Recorded(r) \/ AppendFails(r) \/ Dropped(r)

Terminated == (\A r \in Request : pc[r] = "done") /\ UNCHANGED vars

Next ==
    \/ \E r \in Request : Handle(r)
    \/ \E id \in PolicyId : EditPolicy(id)
    \/ \E h \in DOMAIN Views \cup NewHost, stateful \in BOOLEAN : UpsertService(h, stateful)
    \/ Terminated

Spec == Init /\ [][Next]_vars

-----------------------------------------------------------------------------
(* Properties.                                                             *)

RowsOf(r) == {i \in DOMAIN rows : rows[i].request = r}

\* Every variable stays in its type.
TypeOK ==
    /\ \A r \in Request : sent[r] \in Sent[r]
    /\ pc \in [Request -> {"limit", "views", "enabled", "append", "done"}]
    /\ decision \in [Request -> Decisions]
    /\ \A r \in Request : /\ answer[r].status \in {0, 200, 400, 429, 503}
                          /\ answer[r].decision \in Decisions
                          /\ answer[r].id \in 0..Len(rows)
                          /\ DOMAIN views[r] \subseteq DOMAIN model
    /\ DOMAIN Views \subseteq DOMAIN model
    /\ DOMAIN enabled \subseteq PolicyId
    /\ changes \in 0..MaxChanges

\* No caller holds a decision that is not in the ledger as that caller's, at
\* the id it was told, with the decision it was told (README.md:89: "no code
\* path that produces an allow or refuse without a durable, signed row").
AnswerIsOnRecord ==
    \A r \in Request : answer[r].status = 200 =>
        \E i \in RowsOf(r) :
            /\ i = answer[r].id
            /\ rows[i].decision = answer[r].decision
            /\ rows[i].target = sent[r].target /\ rows[i].action = sent[r].action

\* A request leaves at most one row, however it ends, and none if it is over
\* the rate limit or unreadable: nothing is tried twice, and an error that may
\* hide a committed row is the handler's last word.
OneRowAtMost ==
    \A r \in Request :
        /\ Cardinality(RowsOf(r)) <= 1
        /\ answer[r].status \in {400, 429} => RowsOf(r) = {}

\* Whatever is recorded is what the table of README.md:130-139 decides for the
\* request, for some model and some flags in force while it was handled: a
\* policy that stayed on is never passed over, one that stayed off never
\* refuses, and a policy whose row is gone counts as on.
DecisionFollowsTable ==
    \A i \in DOMAIN rows :
        LET r == rows[i].request IN
        \E m \in seen[r].models, f \in seen[r].flags :
            rows[i].decision = FirstMatch(sent[r], m, f)
=============================================================================
