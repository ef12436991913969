----------------------------- MODULE GateProofs -----------------------------
(***************************************************************************)
(* Proofs about Gate and Policy for any requests, any model, any number of *)
(* edits.                                                                  *)
(*                                                                         *)
(* The argument in one paragraph.  The engine returns the first match of   *)
(* the README's table for whatever model and flags it is given             *)
(* (EvaluateIsFirstMatch).  What a handler has read was in force while it  *)
(* ran (SeenInv), so a decision waiting to be appended follows the table   *)
(* for something in force (DecisionInv), and so do the rows (RowInv), of   *)
(* which a handler that is not done has none: that is why one it leaves is *)
(* its only one, and the one it answers with (AnswerInv).                  *)
(***************************************************************************)
EXTENDS Gate, FiniteSetTheorems, SequenceTheorems, TLAPS

-----------------------------------------------------------------------------
(* The engine and the table.                                               *)

IsFlags(f) == f \in [DOMAIN f -> BOOLEAN]

\* A least element of a set of integers is its Min.
LEMMA MinOfSet ==
    ASSUME NEW S \in SUBSET Int, NEW m \in S, \A x \in S : m <= x
    PROVE  Min(S) = m
<1>1. Min(S) \in S /\ \A x \in S : Min(S) <= x
    BY DEF Min
<1>2. Min(S) \in Int /\ m \in Int /\ Min(S) <= m /\ m <= Min(S)
    BY <1>1
<1> QED
    BY <1>2

\* The engine of policy.rs decides every request as the table of
\* README.md:130-139 does, whatever the model and whatever rows table
\* policies has (policy.rs, evaluate).
THEOREM EvaluateIsFirstMatch ==
    ASSUME NEW request, NEW model_, NEW flags, IsFlags(model_), IsFlags(flags)
    PROVE  Evaluate(request, model_, flags) = FirstMatch(request, model_, flags)
<1> DEFINE hit(n) == On(flags, Policies[n]) /\ RowMatches(n, request, model_)
           off == {id \in DOMAIN flags : ~flags[id]}
           found == {n \in 1..5 : Policies[n] \notin off /\ RowMatches(n, request, model_)}
<1>1. \A id : On(flags, id) <=> id \notin off
    BY DEF On, IsFlags
<1>2. found = {n \in 1..5 : hit(n)}
    BY <1>1
<1>3. FirstMatch(request, model_, flags) =
        IF found = {} THEN Allow ELSE Refuse(Policies[Min(found)])
    BY DEF FirstMatch
<1>4. ASSUME NEW k \in 1..5, hit(k), \A n \in 1..5 : n < k => ~hit(n)
      PROVE  FirstMatch(request, model_, flags) = Refuse(Policies[k])
    <2>1. found \in SUBSET Int /\ k \in found /\ \A n \in found : k <= n
        BY <1>2, <1>4
    <2>2. Min(found) = k
        BY <2>1, MinOfSet
    <2> QED
        BY <1>3, <2>1, <2>2
<1>5. /\ Policies[1] = "protect-stateful" /\ Policies[2] = "protect-spine"
      /\ Policies[3] = "no-scale-to-zero" /\ Policies[4] = "secret-shield"
      /\ Policies[5] = "unknown-target"
    BY DEF Policies
<1>6. /\ RowMatches(1, request, model_) <=>
           request.action \in {"service.delete", "service.stop"}
           /\ request.target \in DOMAIN model_ /\ model_[request.target]
      /\ RowMatches(2, request, model_) <=>
           request.target \in {"gate", "console"}
           /\ request.action \in {"service.delete", "service.stop", "env.delete"}
      /\ RowMatches(3, request, model_) <=>
           request.action = "service.scale" /\ MinContainersIsZero(request.min)
      /\ RowMatches(4, request, model_) <=>
           request.action \in EnvActions /\ SecretKey(request.key)
      /\ RowMatches(5, request, model_) <=>
           OutsideModel(request.action, request.target \in DOMAIN model_)
    BY DEF RowMatches, MinContainersIsZero, SecretKey, EnvActions, OutsideModel, ServiceActions
<1>7. Evaluate(request, model_, flags) =
        IF hit(1) THEN Refuse(Policies[1]) ELSE IF hit(2) THEN Refuse(Policies[2])
        ELSE IF hit(3) THEN Refuse(Policies[3]) ELSE IF hit(4) THEN Refuse(Policies[4])
        ELSE IF hit(5) THEN Refuse(Policies[5]) ELSE Allow
    BY <1>5, <1>6, Zenon DEF Evaluate
<1>8. CASE \A n \in 1..5 : ~hit(n)
    BY <1>8, <1>7, <1>3, <1>2
<1>9. CASE \E n \in 1..5 : hit(n)
    <2>1. PICK k \in 1..5 : hit(k) /\ \A n \in 1..5 : n < k => ~hit(n)
        <3>1. PICK n \in 1..5 : hit(n)
            BY <1>9
        <3>2. n = 1 \/ n = 2 \/ n = 3 \/ n = 4 \/ n = 5
            OBVIOUS
        <3>3. /\ \A m \in 1..5 : m < 1 => m = 0
              /\ \A m \in 1..5 : m < 2 => m = 1
              /\ \A m \in 1..5 : m < 3 => (m = 1 \/ m = 2)
              /\ \A m \in 1..5 : m < 4 => (m = 1 \/ m = 2 \/ m = 3)
              /\ \A m \in 1..5 : m < 5 => (m = 1 \/ m = 2 \/ m = 3 \/ m = 4)
            OBVIOUS
        <3> HIDE DEF hit
        <3> QED
            BY <3>1, <3>2, <3>3
    <2>2. FirstMatch(request, model_, flags) = Refuse(Policies[k])
        BY <1>4, <2>1
    <2>3. k = 1 \/ k = 2 \/ k = 3 \/ k = 4 \/ k = 5
        OBVIOUS
    <2>4. Evaluate(request, model_, flags) = Refuse(Policies[k])
        <3> HIDE DEF hit
        <3> QED
            BY <1>7, <2>1, <2>3
    <2> QED
        BY <2>2, <2>4
<1> QED
    BY <1>8, <1>9

-----------------------------------------------------------------------------
(* The inductive invariant of the handler.                                 *)

Point == {"limit", "views", "enabled", "append", "done"}

Row == [request : Request, action : STRING, target : STRING, decision : Decisions]

\* What TypeOK says, and the shape of the functions it looks into.
TypeInv ==
    /\ sent \in [Request -> [body : {"ok", "bad"}, action : STRING, target : STRING,
                              min : MinContainers, key : EnvKey]]
    /\ \A r \in Request : sent[r] \in Sent[r]
    /\ pc \in [Request -> Point]
    /\ decision \in [Request -> Decisions]
    /\ answer \in [Request -> [status : {0, 200, 400, 429, 503}, decision : Decisions,
                                id : Nat]]
    /\ views = [r \in Request |-> views[r]]
    /\ IsFlags(model) /\ IsFlags(enabled)
    /\ rows \in Seq(Row)
    /\ seen = [r \in Request |-> [models |-> seen[r].models, flags |-> seen[r].flags]]
    /\ changes \in 0..MaxChanges

\* The tables only move the way their writers move them.
TablesInv ==
    /\ DOMAIN Views \subseteq DOMAIN model
    /\ DOMAIN enabled \subseteq PolicyId
    /\ \A r \in Request : /\ DOMAIN views[r] \subseteq DOMAIN model
                           /\ answer[r].id \in 0..Len(rows)

\* What is in force is among what an unfinished handler has seen, and so is
\* what it has read.
SeenInv ==
    \A r \in Request :
        /\ \A m \in seen[r].models : IsFlags(m)
        /\ \A f \in seen[r].flags : IsFlags(f)
        /\ pc[r] # "done" => model \in seen[r].models /\ enabled \in seen[r].flags
        /\ pc[r] = "enabled" => views[r] \in seen[r].models

\* A decision the table gives for something the request has seen.
Follows(request, saw, d) ==
    \E m \in saw.models, f \in saw.flags : d = FirstMatch(request, m, f)

DecisionInv == \A r \in Request : pc[r] = "append" => Follows(sent[r], seen[r], decision[r])

RowInv ==
    \A i \in 1..Len(rows) :
        /\ pc[rows[i].request] = "done"
        /\ Follows(sent[rows[i].request], seen[rows[i].request], rows[i].decision)
        /\ rows[i].target = sent[rows[i].request].target
        /\ rows[i].action = sent[rows[i].request].action
        /\ \A j \in 1..Len(rows) : rows[j].request = rows[i].request => i = j

AnswerInv ==
    \A r \in Request :
        /\ answer[r].status # 0 => pc[r] = "done"
        /\ answer[r].status = 200 =>
              /\ answer[r].id \in 1..Len(rows)
              /\ rows[answer[r].id].request = r
              /\ rows[answer[r].id].decision = answer[r].decision
        /\ answer[r].status \in {400, 429} => \A i \in 1..Len(rows) : rows[i].request # r

IInv == TypeInv /\ TablesInv /\ SeenInv /\ DecisionInv /\ RowInv /\ AnswerInv

\* Every result of the engine is a decision.
LEMMA EvaluateType ==
    ASSUME NEW request, NEW m, NEW f
    PROVE  Evaluate(request, m, f) \in Decisions
BY DEF Evaluate, Refuse, Allow, Decisions, PolicyId, Policies

LEMMA InitIInv == Init => IInv
<1> SUFFICES ASSUME Init PROVE IInv
    OBVIOUS
<1> USE DEF Init
<1>1. Allow \in Decisions /\ NoAnswer \in [status : {0, 200, 400, 429, 503},
                                          decision : Decisions, id : Nat]
    BY DEF Allow, Decisions, NoAnswer
<1>2. IsFlags(Views) /\ IsFlags(enabled) /\ DOMAIN enabled = PolicyId
    BY ViewsAssumption DEF IsFlags
<1>3. TypeInv
    <2>1. sent \in [Request -> [body : {"ok", "bad"}, action : STRING, target : STRING,
                               min : MinContainers, key : EnvKey]]
        BY SentAssumption
    <2>2. rows \in Seq(Row) /\ changes \in 0..MaxChanges
        BY ChangesAssumption
    <2> QED
        BY <1>1, <1>2, <2>1, <2>2 DEF TypeInv, Point
<1>4. TablesInv
    BY <1>2 DEF TablesInv, NoAnswer
<1>5. SeenInv
    BY <1>2 DEF SeenInv
<1>6. DecisionInv /\ RowInv /\ AnswerInv
    BY DEF DecisionInv, RowInv, AnswerInv, NoAnswer
<1> QED
    BY <1>3, <1>4, <1>5, <1>6 DEF IInv

-----------------------------------------------------------------------------
(* Every step preserves it.                                                *)

\* What the two writers of the shared tables have in common.
Edit == (\E id \in PolicyId : EditPolicy(id))
        \/ \E h \in DOMAIN Views \cup NewHost, b \in BOOLEAN : UpsertService(h, b)

LEMMA NextCases ==
    ASSUME [Next]_vars
    PROVE  (\E r \in Request : Handle(r)) \/ Edit \/ UNCHANGED vars
BY DEF Next, Edit, Terminated

LEMMA RespondType ==
    ASSUME NEW status \in {400, 429, 503}
    PROVE  /\ Answers(status) \in [status : {0, 200, 400, 429, 503},
                                   decision : Decisions, id : Nat]
           /\ Answers(status).status = status /\ Answers(status).id = 0
BY DEF Answers, NoAnswer, Allow, Decisions

\* An entry of the handler is a row, and appending it leaves the others alone.
LEMMA RowAppended ==
    ASSUME TypeInv, NEW r \in Request, rows' = Append(rows, NewEntry(r))
    PROVE  /\ NewEntry(r) \in Row
           /\ rows' \in Seq(Row) /\ Len(rows') = Len(rows) + 1
           /\ rows'[Len(rows) + 1] = NewEntry(r)
           /\ \A i \in 1..Len(rows) : rows'[i] = rows[i]
<1>1. NewEntry(r) \in Row
    BY DEF TypeInv, NewEntry, Row
<1>2. rows \in Seq(Row)
    BY DEF TypeInv
<1> QED
    BY <1>1, <1>2

LEMMA RowType ==
    ASSUME TypeInv, NEW i \in 1..Len(rows)
    PROVE  rows[i] \in Row /\ rows[i].request \in Request
<1>1. rows \in Seq(Row)
    BY DEF TypeInv
<1>2. rows[i] \in Row
    BY <1>1, ElementOfSeq
<1> QED
    BY <1>2 DEF Row

LEMMA EditedTables ==
    ASSUME TypeInv, TablesInv, Edit
    PROVE  /\ IsFlags(model') /\ IsFlags(enabled')
           /\ DOMAIN model \subseteq DOMAIN model' /\ DOMAIN enabled' \subseteq PolicyId
           /\ changes' \in 0..MaxChanges
           /\ Witnessed /\ UNCHANGED <<sent, locals, rows>>
<1>1. CASE \E id \in PolicyId : EditPolicy(id)
    <2>1. PICK id \in PolicyId : EditPolicy(id)
        BY <1>1
    <2>2. IsFlags(enabled') /\ DOMAIN enabled' \subseteq DOMAIN enabled
        <3>1. enabled \in [DOMAIN enabled -> BOOLEAN] /\ id \in DOMAIN enabled
            BY <2>1 DEF EditPolicy, TypeInv, IsFlags
        <3>2. CASE enabled' = [enabled EXCEPT ![id] = ~@]
            BY <3>1, <3>2 DEF IsFlags
        <3>3. CASE enabled' = [i \in DOMAIN enabled \ {id} |-> enabled[i]]
            <4>1. DOMAIN enabled' = DOMAIN enabled \ {id}
                BY <3>3
            <4>2. \A i \in DOMAIN enabled' : enabled'[i] = enabled[i]
                BY <3>3, <4>1
            <4>3. enabled' \in [DOMAIN enabled \ {id} -> BOOLEAN]
                BY <3>1, <3>3
            <4> QED
                BY <4>1, <4>3 DEF IsFlags
        <3> QED
            BY <2>1, <3>2, <3>3 DEF EditPolicy
    <2> QED
        BY <2>1, <2>2, ChangesAssumption DEF EditPolicy, TypeInv, TablesInv
<1>2. CASE \E h \in DOMAIN Views \cup NewHost, b \in BOOLEAN : UpsertService(h, b)
    <2>1. PICK h \in DOMAIN Views \cup NewHost, b \in BOOLEAN : UpsertService(h, b)
        BY <1>2
    <2>2. IsFlags(model') /\ DOMAIN model \subseteq DOMAIN model'
        BY <2>1 DEF UpsertService, TypeInv, IsFlags
    <2> QED
        BY <2>1, <2>2, ChangesAssumption DEF UpsertService, TypeInv, TablesInv
<1> QED
    BY <1>1, <1>2 DEF Edit

LEMMA EditKeeps == IInv /\ Edit => IInv'
<1> SUFFICES ASSUME IInv, Edit PROVE IInv'
    OBVIOUS
<1>1. /\ IsFlags(model') /\ IsFlags(enabled')
      /\ DOMAIN model \subseteq DOMAIN model' /\ DOMAIN enabled' \subseteq PolicyId
      /\ changes' \in 0..MaxChanges /\ Witnessed
      /\ UNCHANGED <<sent, pc, views, decision, answer, rows>>
    BY EditedTables DEF IInv, locals
<1>2. \A r \in Request :
        /\ pc[r] = "done" => seen'[r] = seen[r]
        /\ pc[r] # "done" => seen'[r] = [models |-> seen[r].models \cup {model'},
                                        flags |-> seen[r].flags \cup {enabled'}]
    BY <1>1 DEF Witnessed
<1>3. TypeInv'
    <2>1. seen' = [r \in Request |-> [models |-> seen'[r].models, flags |-> seen'[r].flags]]
        BY <1>1 DEF Witnessed, IInv, TypeInv
    <2> QED
        BY <1>1, <2>1 DEF IInv, TypeInv
<1>4. TablesInv'
    BY <1>1 DEF IInv, TablesInv
<1>5. SeenInv'
    <2> SUFFICES ASSUME NEW r \in Request
                 PROVE  /\ \A m \in seen'[r].models : IsFlags(m)
                        /\ \A f \in seen'[r].flags : IsFlags(f)
                        /\ pc[r] # "done" => /\ model' \in seen'[r].models
                                             /\ enabled' \in seen'[r].flags
                        /\ pc[r] = "enabled" => views[r] \in seen'[r].models
        BY <1>1 DEF SeenInv
    <2>1. /\ \A m \in seen[r].models : IsFlags(m)
          /\ \A f \in seen[r].flags : IsFlags(f)
          /\ pc[r] = "enabled" => views[r] \in seen[r].models
        BY DEF IInv, SeenInv
    <2>2. CASE pc[r] = "done"
        BY <1>2, <2>1, <2>2
    <2>3. CASE pc[r] # "done"
        <3>1. seen'[r] = [models |-> seen[r].models \cup {model'},
                          flags |-> seen[r].flags \cup {enabled'}]
            BY <1>2, <2>3
        <3>2. /\ seen'[r].models = seen[r].models \cup {model'}
              /\ seen'[r].flags = seen[r].flags \cup {enabled'}
            BY <3>1
        <3> QED
            BY <1>1, <2>1, <3>2
    <2> QED
        BY <2>2, <2>3
<1>6. \A r \in Request : /\ seen[r].models \subseteq seen'[r].models
                         /\ seen[r].flags \subseteq seen'[r].flags
    <2> SUFFICES ASSUME NEW r \in Request
                 PROVE  /\ seen[r].models \subseteq seen'[r].models
                        /\ seen[r].flags \subseteq seen'[r].flags
        OBVIOUS
    <2>1. CASE pc[r] = "done"
        BY <1>2, <2>1
    <2>2. CASE pc[r] # "done"
        <3>1. seen'[r] = [models |-> seen[r].models \cup {model'},
                          flags |-> seen[r].flags \cup {enabled'}]
            BY <1>2, <2>2
        <3>2. /\ seen'[r].models = seen[r].models \cup {model'}
              /\ seen'[r].flags = seen[r].flags \cup {enabled'}
            BY <3>1
        <3> QED
            BY <3>2
    <2> QED
        BY <2>1, <2>2
<1>7. \A r \in Request : \A d :
        Follows(sent[r], seen[r], d) => Follows(sent'[r], seen'[r], d)
    BY <1>1, <1>6 DEF Follows
<1>8. DecisionInv'
    BY <1>1, <1>7 DEF IInv, DecisionInv
<1>9. RowInv'
    <2>1. \A i \in 1..Len(rows) : rows[i].request \in Request
        BY RowType DEF IInv
    <2> QED
        BY <1>1, <1>7, <2>1 DEF IInv, RowInv
<1>10. AnswerInv'
    BY <1>1 DEF IInv, AnswerInv
<1> QED
    BY <1>3, <1>4, <1>5, <1>8, <1>9, <1>10 DEF IInv

LEMMA HandleType ==
    ASSUME TypeInv, NEW r \in Request, Handle(r)
    PROVE  TypeInv'
<1> USE DEF TypeInv, Goto, Respond, tables
<1>1. CASE Limited(r)
    BY <1>1, RespondType DEF Limited, Point
<1>2. CASE Parse(r)
    <2>1. CASE sent[r].body = "bad" /\ Respond(r, Answers(400))
        BY <1>2, <2>1, RespondType DEF Parse, Point
    <2>2. CASE Goto(r, "views") /\ UNCHANGED answer
        BY <1>2, <2>2 DEF Parse, Point
    <2> QED
        BY <1>2, <2>1, <2>2 DEF Parse
<1>3. CASE ReadViews(r)
    <2>1. views' = [views EXCEPT ![r] = model] /\ DOMAIN views = Request
        BY <1>3 DEF ReadViews
    <2>2. views' = [q \in Request |-> views'[q]]
        BY <2>1
    <2>3. pc' \in [Request -> Point]
        BY <1>3 DEF ReadViews, Point
    <2> QED
        BY <1>3, <2>2, <2>3 DEF ReadViews
<1>4. CASE Decide(r)
    BY <1>4, EvaluateType DEF Decide, Point
<1>5. CASE Unavailable(r)
    BY <1>5, RespondType DEF Unavailable, Point
<1>6. CASE Recorded(r)
    <2>1. rows' \in Seq(Row)
        BY <1>6, RowAppended DEF Recorded
    <2>2. Len(rows) + 1 \in Nat /\ decision[r] \in Decisions
        OBVIOUS
    <2> QED
        BY <1>6, <2>1, <2>2 DEF Recorded, Point
<1>7. CASE AppendFails(r)
    <2>1. rows' \in Seq(Row)
        BY <1>7, RowAppended DEF AppendFails
    <2> QED
        BY <1>7, <2>1, RespondType DEF AppendFails, Point
<1>8. CASE Dropped(r)
    <2>1. rows' \in Seq(Row)
        BY <1>8, RowAppended DEF Dropped
    <2> QED
        BY <1>8, <2>1 DEF Dropped, Point
<1> QED
    BY <1>1, <1>2, <1>3, <1>4, <1>5, <1>6, <1>7, <1>8 DEF Handle

\* A handler's step is its own: it leaves the shared tables and the other
\* handlers alone, and adds at most its entry, as the last thing it does.
LEMMA HandleFrame ==
    ASSUME TypeInv, NEW r \in Request, Handle(r)
    PROVE  /\ UNCHANGED <<sent, model, enabled, seen>>
           /\ pc[r] # "done"
           /\ \A q \in Request \ {r} : /\ pc'[q] = pc[q] /\ views'[q] = views[q]
                                       /\ decision'[q] = decision[q]
                                       /\ answer'[q] = answer[q]
           /\ \/ rows' = rows
              \/ pc[r] = "append" /\ pc'[r] = "done" /\ rows' = Append(rows, NewEntry(r))
<1> USE DEF TypeInv, Goto, Respond, tables
<1>1. CASE Limited(r)
    BY <1>1 DEF Limited
<1>2. CASE Parse(r)
    BY <1>2 DEF Parse
<1>3. CASE ReadViews(r)
    BY <1>3 DEF ReadViews
<1>4. CASE Decide(r)
    BY <1>4 DEF Decide
<1>5. CASE Unavailable(r)
    BY <1>5 DEF Unavailable
<1>6. CASE Recorded(r)
    BY <1>6 DEF Recorded
<1>7. CASE AppendFails(r)
    BY <1>7 DEF AppendFails
<1>8. CASE Dropped(r)
    BY <1>8 DEF Dropped
<1> QED
    BY <1>1, <1>2, <1>3, <1>4, <1>5, <1>6, <1>7, <1>8 DEF Handle

\* What the step does to the handler itself.
LEMMA HandleOwn ==
    ASSUME IInv, NEW r \in Request, Handle(r)
    PROVE  /\ views'[r] \in {views[r], model}
           /\ pc'[r] = "enabled" => views'[r] = model
           /\ pc'[r] = "append" => /\ pc[r] = "enabled"
                                   /\ decision'[r] = Evaluate(sent[r], views[r], enabled)
           /\ pc'[r] # "done" => answer'[r] = answer[r]
           /\ \/ answer'[r] = answer[r]
              \/ answer'[r].id = 0 /\ answer'[r].status = 503
              \/ /\ pc[r] = "limit" /\ rows' = rows
                 /\ answer'[r].id = 0 /\ answer'[r].status \in {400, 429}
              \/ /\ rows' = Append(rows, NewEntry(r))
                 /\ answer'[r] = [status |-> 200, decision |-> decision[r],
                                  id |-> Len(rows) + 1]
<1> USE DEF IInv, TypeInv, Goto, Respond, tables
<1>1. CASE Limited(r)
    BY <1>1, RespondType DEF Limited
<1>2. CASE Parse(r)
    BY <1>2, RespondType DEF Parse
<1>3. CASE ReadViews(r)
    BY <1>3 DEF ReadViews
<1>4. CASE Decide(r)
    BY <1>4 DEF Decide
<1>5. CASE Unavailable(r)
    BY <1>5, RespondType DEF Unavailable
<1>6. CASE Recorded(r)
    BY <1>6 DEF Recorded
<1>7. CASE AppendFails(r)
    BY <1>7, RespondType DEF AppendFails
<1>8. CASE Dropped(r)
    BY <1>8 DEF Dropped
<1> QED
    BY <1>1, <1>2, <1>3, <1>4, <1>5, <1>6, <1>7, <1>8 DEF Handle

LEMMA HandleKeeps == IInv /\ (\E r \in Request : Handle(r)) => IInv'
<1> SUFFICES ASSUME IInv, NEW r \in Request, Handle(r) PROVE IInv'
    OBVIOUS
<1>1. TypeInv /\ TypeInv'
    BY HandleType DEF IInv
<1>2. /\ UNCHANGED <<sent, model, enabled, seen>>
      /\ pc[r] # "done"
      /\ \A q \in Request \ {r} : /\ pc'[q] = pc[q] /\ views'[q] = views[q]
                                  /\ decision'[q] = decision[q]
                                  /\ answer'[q] = answer[q]
      /\ \/ rows' = rows
         \/ pc[r] = "append" /\ pc'[r] = "done" /\ rows' = Append(rows, NewEntry(r))
    BY <1>1, HandleFrame
<1>3. /\ views'[r] \in {views[r], model}
      /\ pc'[r] = "enabled" => views'[r] = model
      /\ pc'[r] = "append" => /\ pc[r] = "enabled"
                              /\ decision'[r] = Evaluate(sent[r], views[r], enabled)
      /\ pc'[r] # "done" => answer'[r] = answer[r]
      /\ \/ answer'[r] = answer[r]
         \/ answer'[r].id = 0 /\ answer'[r].status = 503
         \/ /\ pc[r] = "limit" /\ rows' = rows
            /\ answer'[r].id = 0 /\ answer'[r].status \in {400, 429}
         \/ /\ rows' = Append(rows, NewEntry(r))
            /\ answer'[r] = [status |-> 200, decision |-> decision[r], id |-> Len(rows) + 1]
    BY HandleOwn
<1>4. /\ Len(rows) \in Nat /\ Len(rows') \in {Len(rows), Len(rows) + 1}
      /\ \A i \in 1..Len(rows) : rows'[i] = rows[i] /\ rows[i].request \in Request
      /\ rows' # rows => /\ Len(rows') = Len(rows) + 1
                         /\ rows'[Len(rows) + 1] = NewEntry(r)
                         /\ pc[r] = "append" /\ pc'[r] = "done"
    <2>1. Len(rows) \in Nat
        BY <1>1 DEF TypeInv
    <2>2. \A i \in 1..Len(rows) : rows[i].request \in Request
        BY <1>1, RowType
    <2>3. CASE rows' = rows
        BY <2>1, <2>2, <2>3
    <2>4. CASE rows' = Append(rows, NewEntry(r)) /\ pc[r] = "append" /\ pc'[r] = "done"
        BY <1>1, <2>1, <2>2, <2>4, RowAppended
    <2> QED
        BY <1>2, <2>3, <2>4
<1>5. \A i \in 1..Len(rows) : rows[i].request # r
    BY <1>2 DEF IInv, RowInv
<1>6. NewEntry(r).request = r /\ NewEntry(r).decision = decision[r]
      /\ NewEntry(r).target = sent[r].target /\ NewEntry(r).action = sent[r].action
    BY DEF NewEntry
<1>7. TablesInv'
    <2> SUFFICES ASSUME NEW q \in Request
                 PROVE  DOMAIN views'[q] \subseteq DOMAIN model /\ answer'[q].id \in 0..Len(rows')
        BY <1>2 DEF TablesInv, IInv
    <2>1. DOMAIN views[q] \subseteq DOMAIN model /\ answer[q].id \in 0..Len(rows)
        BY DEF IInv, TablesInv
    <2>2. CASE q # r
        BY <1>2, <1>4, <2>1, <2>2
    <2>3. CASE q = r
        <3>1. DOMAIN views'[r] \subseteq DOMAIN model
            BY <1>3, <2>1, <2>3
        <3>2. answer'[r].id \in 0..Len(rows')
            <4>1. CASE answer'[r] = answer[r] \/ answer'[r].id = 0
                BY <1>4, <2>1, <2>3, <4>1
            <4>2. CASE rows' = Append(rows, NewEntry(r)) /\ answer'[r].id = Len(rows) + 1
                <5>1. Len(rows') = Len(rows) + 1
                    BY <1>1, <4>2, RowAppended
                <5> QED
                    BY <1>4, <4>2, <5>1
            <4> QED
                BY <1>3, <4>1, <4>2
        <3> QED
            BY <2>3, <3>1, <3>2
    <2> QED
        BY <2>2, <2>3
<1>8. SeenInv'
    <2> SUFFICES ASSUME NEW q \in Request
                 PROVE  /\ pc'[q] # "done" => model \in seen[q].models /\ enabled \in seen[q].flags
                        /\ pc'[q] = "enabled" => views'[q] \in seen[q].models
        BY <1>2 DEF IInv, SeenInv
    <2>1. CASE q # r
        BY <1>2, <2>1 DEF IInv, SeenInv
    <2>2. CASE q = r
        BY <1>2, <1>3, <2>2 DEF IInv, SeenInv
    <2> QED
        BY <2>1, <2>2
<1>9. DecisionInv'
    <2> SUFFICES ASSUME NEW q \in Request, pc'[q] = "append" 
                 PROVE  Follows(sent[q], seen[q], decision'[q])
        BY <1>2 DEF DecisionInv
    <2>1. CASE q # r
        BY <1>2, <2>1 DEF IInv, DecisionInv
    <2>2. CASE q = r
        <3>1. pc[r] = "enabled" /\ decision'[r] = Evaluate(sent[r], views[r], enabled)
            BY <1>3, <2>2
        <3>2. /\ views[r] \in seen[r].models /\ enabled \in seen[r].flags
              /\ IsFlags(views[r]) /\ IsFlags(enabled)
            BY <3>1 DEF IInv, SeenInv
        <3>3. decision'[r] = FirstMatch(sent[r], views[r], enabled)
            BY <3>1, <3>2, EvaluateIsFirstMatch
        <3>4. Follows(sent[r], seen[r], decision'[r])
            BY <3>2, <3>3 DEF Follows
        <3> QED
            BY <2>2, <3>4
    <2> QED
        BY <2>1, <2>2
<1>10. RowInv'
    <2>1. \A i \in 1..Len(rows) : /\ rows'[i] = rows[i]
                                  /\ rows[i].request \in Request \ {r}
        BY <1>4, <1>5
    <2>2. ASSUME NEW i \in 1..Len(rows)
          PROVE  /\ pc'[rows'[i].request] = "done"
                 /\ Follows(sent'[rows'[i].request], seen'[rows'[i].request],
                            rows'[i].decision)
                 /\ rows'[i].target = sent'[rows'[i].request].target
                 /\ rows'[i].action = sent'[rows'[i].request].action
        <3>1. /\ pc[rows[i].request] = "done"
              /\ Follows(sent[rows[i].request], seen[rows[i].request], rows[i].decision)
              /\ rows[i].target = sent[rows[i].request].target
              /\ rows[i].action = sent[rows[i].request].action
            BY DEF IInv, RowInv
        <3> QED
            BY <1>2, <2>1, <3>1
    <2>3. ASSUME NEW i \in 1..Len(rows), NEW j \in 1..Len(rows),
                 rows'[j].request = rows'[i].request
          PROVE  i = j
        BY <2>1, <2>3 DEF IInv, RowInv
    <2>4. CASE rows' = rows
        BY <2>2, <2>3, <2>4 DEF RowInv
    <2>5. CASE rows' # rows
        <3> DEFINE n == Len(rows) + 1
        <3>1. Len(rows') = n /\ rows'[n] = NewEntry(r) /\ pc[r] = "append" /\ pc'[r] = "done"
            BY <1>4, <2>5
        <3>2. rows'[n].request = r /\ rows'[n].decision = decision[r]
              /\ rows'[n].target = sent'[r].target /\ rows'[n].action = sent'[r].action
            BY <1>2, <1>6, <3>1
        <3>3. Follows(sent[r], seen[r], decision[r])
            BY <3>1 DEF IInv, DecisionInv
        <3>4. Follows(sent'[r], seen'[r], rows'[n].decision)
            BY <1>2, <3>2, <3>3
        <3>5. \A i \in 1..n : i = n \/ i \in 1..Len(rows)
            BY <1>4
        <3>6. \A i \in 1..Len(rows) : rows'[i].request # r
            BY <2>1
        <3> HIDE DEF n
        <3>7. ASSUME NEW i \in 1..n
              PROVE  /\ pc'[rows'[i].request] = "done"
                     /\ Follows(sent'[rows'[i].request], seen'[rows'[i].request],
                                rows'[i].decision)
                     /\ rows'[i].target = sent'[rows'[i].request].target
                     /\ rows'[i].action = sent'[rows'[i].request].action
                     /\ \A j \in 1..n : rows'[j].request = rows'[i].request => i = j
            <4>1. CASE i = n
                <5>1. \A j \in 1..n : rows'[j].request = r => j = n
                    BY <3>5, <3>6
                <5> QED
                    BY <3>1, <3>2, <3>4, <4>1, <5>1
            <4>2. CASE i \in 1..Len(rows)
                <5>1. \A j \in 1..n : rows'[j].request = rows'[i].request => i = j
                    BY <2>3, <3>2, <3>5, <3>6, <4>2
                <5> QED
                    BY <2>2, <4>2, <5>1
            <4> QED
                BY <3>5, <4>1, <4>2
        <3> QED
            BY <3>1, <3>7 DEF RowInv
    <2> QED
        BY <2>4, <2>5
<1>11. AnswerInv'
    <2> SUFFICES ASSUME NEW q \in Request
                 PROVE  /\ answer'[q].status # 0 => pc'[q] = "done"
                        /\ answer'[q].status = 200 =>
                              /\ answer'[q].id \in 1..Len(rows')
                              /\ rows'[answer'[q].id].request = q
                              /\ rows'[answer'[q].id].decision = answer'[q].decision
                        /\ answer'[q].status \in {400, 429} =>
                              \A i \in 1..Len(rows') : rows'[i].request # q
        BY DEF AnswerInv
    <2>1. /\ answer[q].status # 0 => pc[q] = "done"
          /\ answer[q].status = 200 =>
                /\ answer[q].id \in 1..Len(rows)
                /\ rows[answer[q].id].request = q
                /\ rows[answer[q].id].decision = answer[q].decision
          /\ answer[q].status \in {400, 429} => \A i \in 1..Len(rows) : rows[i].request # q
        BY DEF IInv, AnswerInv
    <2>2. /\ 1..Len(rows) \subseteq 1..Len(rows')
          /\ \A i \in 1..Len(rows) : rows'[i] = rows[i]
        BY <1>4
    <2>3. CASE q # r
        <3>1. answer'[q] = answer[q] /\ pc'[q] = pc[q]
            BY <1>2, <2>3
        <3>2. \A i \in 1..Len(rows') : i \in 1..Len(rows) \/ rows'[i].request = r
            <4>1. CASE rows' = rows
                BY <4>1
            <4>2. CASE rows' # rows
                BY <1>4, <1>6, <4>2
            <4> QED
                BY <4>1, <4>2
        <3> QED
            BY <2>1, <2>2, <2>3, <3>1, <3>2
    <2>4. CASE q = r
        <3>1. answer[r].status = 0
            BY <1>2, <2>1, <2>4
        <3>2. answer'[r].status # 0 => pc'[r] = "done"
            <4>1. pc' \in [Request -> Point]
                BY <1>1 DEF TypeInv
            <4> QED
                BY <1>3, <3>1
        <3>3. CASE answer'[r] = answer[r]
            BY <2>4, <3>1, <3>3
        <3>4. CASE answer'[r].id = 0 /\ answer'[r].status = 503
            BY <2>4, <3>2, <3>4
        <3>5. CASE rows' = rows /\ answer'[r].status \in {400, 429}
            BY <1>5, <2>4, <3>2, <3>5
        <3>6. CASE /\ rows' = Append(rows, NewEntry(r))
                   /\ answer'[r] = [status |-> 200, decision |-> decision[r],
                                    id |-> Len(rows) + 1]
            <4>1. Len(rows') = Len(rows) + 1 /\ rows'[Len(rows) + 1] = NewEntry(r)
                BY <1>1, <3>6, RowAppended
            <4>2. answer'[r].status = 200 /\ answer'[r].id = Len(rows) + 1
                  /\ answer'[r].decision = decision[r]
                BY <3>6
            <4>3. Len(rows) + 1 \in 1..Len(rows')
                BY <1>4, <4>1
            <4>4. /\ rows'[answer'[r].id].request = r
                  /\ rows'[answer'[r].id].decision = answer'[r].decision
                BY <1>6, <4>1, <4>2
            <4> QED
                BY <2>4, <3>2, <4>2, <4>3, <4>4
        <3> QED
            BY <1>3, <3>3, <3>4, <3>5, <3>6
    <2> QED
        BY <2>3, <2>4
<1> QED
    BY <1>1, <1>7, <1>8, <1>9, <1>10, <1>11 DEF IInv

-----------------------------------------------------------------------------
(* The theorems.                                                           *)

\* The inductive invariant holds of every run of the handler.
THEOREM SpecIInv == Spec => []IInv
<1>1. IInv /\ [Next]_vars => IInv'
    <2> SUFFICES ASSUME IInv, [Next]_vars PROVE IInv'
        OBVIOUS
    <2>1. CASE \E r \in Request : Handle(r)
        BY <2>1, HandleKeeps
    <2>2. CASE Edit
        BY <2>2, EditKeeps
    <2>3. CASE UNCHANGED vars
        <3>1. /\ UNCHANGED <<sent, pc, views, decision, answer>>
              /\ UNCHANGED <<model, enabled, rows, changes, seen>>
            BY <2>3 DEF vars, locals
        <3>2. TypeInv' /\ TablesInv'
            BY <3>1 DEF IInv, TypeInv, TablesInv
        <3>3. SeenInv' /\ DecisionInv'
            BY <3>1 DEF IInv, SeenInv, DecisionInv
        <3>4. RowInv' /\ AnswerInv'
            BY <3>1 DEF IInv, RowInv, AnswerInv
        <3> QED
            BY <3>2, <3>3, <3>4 DEF IInv
    <2> QED
        BY <2>1, <2>2, <2>3, NextCases
<1> QED
    BY InitIInv, <1>1, PTL DEF Spec

\* Every variable stays in its type (evaluate of http.rs).
THEOREM GateTypeOK == Spec => []TypeOK
<1>1. IInv => TypeOK
    <2> SUFFICES ASSUME IInv PROVE TypeOK
        OBVIOUS
    <2>1. \A r \in Request : /\ answer[r].status \in {0, 200, 400, 429, 503}
                              /\ answer[r].decision \in Decisions
        BY DEF IInv, TypeInv
    <2> QED
        BY <2>1 DEF IInv, TypeInv, TablesInv, TypeOK, Point
<1> QED
    BY SpecIInv, <1>1, PTL

\* For any number of requests and edits, no caller holds a decision that is
\* not in the ledger as its own, at the id it was told (evaluate of http.rs:
\* the answer is built from the entry the append returned).
THEOREM GateAnswerIsOnRecord == Spec => []AnswerIsOnRecord
<1>1. IInv => AnswerIsOnRecord
    <2> SUFFICES ASSUME IInv, NEW r \in Request, answer[r].status = 200
                 PROVE  \E i \in RowsOf(r) :
                           /\ i = answer[r].id
                           /\ rows[i].decision = answer[r].decision
                           /\ rows[i].target = sent[r].target
                           /\ rows[i].action = sent[r].action
        BY DEF AnswerIsOnRecord
    <2> DEFINE i == answer[r].id
    <2>1. i \in 1..Len(rows) /\ rows[i].request = r /\ rows[i].decision = answer[r].decision
        BY DEF IInv, AnswerInv
    <2>2. rows[i].target = sent[r].target /\ rows[i].action = sent[r].action
        BY <2>1 DEF IInv, RowInv
    <2>3. DOMAIN rows = 1..Len(rows)
        BY DEF IInv, TypeInv
    <2> QED
        BY <2>1, <2>2, <2>3 DEF RowsOf
<1> QED
    BY SpecIInv, <1>1, PTL

\* A request leaves one row at the most, and none if it was over its limit or
\* unreadable (evaluate of http.rs never tries anything twice).
THEOREM GateOneRowAtMost == Spec => []OneRowAtMost
<1>1. IInv => OneRowAtMost
    <2> SUFFICES ASSUME IInv, NEW r \in Request
                 PROVE  /\ Cardinality(RowsOf(r)) <= 1
                        /\ answer[r].status \in {400, 429} => RowsOf(r) = {}
        BY DEF OneRowAtMost
    <2>1. RowsOf(r) = {i \in 1..Len(rows) : rows[i].request = r}
        BY DEF RowsOf, IInv, TypeInv
    <2>2. CASE RowsOf(r) = {}
        BY <2>2, FS_EmptySet
    <2>3. CASE RowsOf(r) # {}
        <3>1. PICK i \in RowsOf(r) : TRUE
            BY <2>3
        <3>2. RowsOf(r) = {i}
            BY <2>1, <3>1 DEF IInv, RowInv
        <3>3. Cardinality(RowsOf(r)) = 1
            BY <3>2, FS_Singleton
        <3>4. answer[r].status \notin {400, 429}
            BY <2>1, <3>1 DEF IInv, AnswerInv
        <3> QED
            BY <3>3, <3>4
    <2> QED
        BY <2>2, <2>3
<1> QED
    BY SpecIInv, <1>1, PTL

\* Whatever is recorded is what the README's table decides for the request,
\* for a model and flags in force while it was handled (evaluate of http.rs
\* reads both before it decides, and decides before it appends).
THEOREM GateDecisionFollowsTable == Spec => []DecisionFollowsTable
<1>1. IInv => DecisionFollowsTable
    <2> SUFFICES ASSUME IInv, NEW i \in DOMAIN rows
                 PROVE  Follows(sent[rows[i].request], seen[rows[i].request], rows[i].decision)
        BY DEF DecisionFollowsTable, Follows
    <2>1. DOMAIN rows = 1..Len(rows)
        BY DEF IInv, TypeInv
    <2> QED
        BY <2>1 DEF IInv, RowInv
<1> QED
    BY SpecIInv, <1>1, PTL
=============================================================================
