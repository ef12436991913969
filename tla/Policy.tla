------------------------------- MODULE Policy -------------------------------
(***************************************************************************)
(* The policy engine of gate/src/policy.rs: a cascade of rules over the    *)
(* request, the topology model and the enabled flags, the first that       *)
(* matches decides.  Beside it, the table of README.md:130-139 it is       *)
(* meant to implement, as the reference it is checked against.             *)
(*                                                                         *)
(* A request is a record [action, target, min, key]: of its params, the    *)
(* engine can only tell what minContainers and key are.                    *)
(***************************************************************************)
EXTENDS Naturals, Sequences, FiniteSetsExt

MinContainers == {"missing", "int_zero", "float_zero", "positive", "text_zero"}
EnvKey == {"missing", "not_text", "harmless", "upper_secret", "lower_secret"}

\* The ids of POLICIES, in their order.
Policies == <<"protect-stateful", "protect-spine", "no-scale-to-zero",
              "secret-shield", "unknown-target", "default-record">>

PolicyId == {Policies[i] : i \in 1..Len(Policies)}

\* action.starts_with("service.") and action.starts_with("env.")
ServiceActions == {"service.create", "service.start", "service.stop", "service.delete",
                   "service.scale"}
EnvActions == {"env.set", "env.delete"}

Decisions == [effect : {"allow"}, policy : {"default-record"}]
             \cup [effect : {"refuse"}, policy : PolicyId \ {"default-record"}]

Refuse(policy) == [effect |-> "refuse", policy |-> policy]
Allow == [effect |-> "allow", policy |-> "default-record"]

\* enabled.get(id).copied().unwrap_or(true)
On(enabled, id) == id \in DOMAIN enabled => enabled[id]

\* v.as_i64() == Some(0) || v.as_f64() == Some(0.0): text is not a number.
MinContainersIsZero(min) == min \in {"int_zero", "float_zero"}

\* The suffixes are compared with the key in upper case.
SecretKey(key) == key \in {"upper_secret", "lower_secret"}

\* unknown-target: creating what exists, or touching what does not.
OutsideModel(action, known) ==
    \/ action = "service.create" /\ known
    \/ action \in (ServiceActions \ {"service.create"}) \cup EnvActions /\ ~known

\* Mutant: the rule about unknown targets comes before the one about secrets.
MutEvaluate(request, views, enabled) ==
    LET on(id) == On(enabled, id)
        action == request.action
        known == request.target \in DOMAIN views
        stateful == known /\ views[request.target]
    IN  IF on("protect-stateful") /\ action \in {"service.delete", "service.stop"}
           /\ stateful
        THEN Refuse("protect-stateful")
        ELSE IF on("protect-spine") /\ request.target \in {"gate", "console"}
                /\ action \in {"service.delete", "service.stop", "env.delete"}
        THEN Refuse("protect-spine")
        ELSE IF on("no-scale-to-zero") /\ action = "service.scale"
                /\ MinContainersIsZero(request.min)
        THEN Refuse("no-scale-to-zero")
        ELSE IF on("unknown-target") /\ OutsideModel(action, known)
        THEN Refuse("unknown-target")
        ELSE IF on("secret-shield") /\ action \in EnvActions /\ SecretKey(request.key)
        THEN Refuse("secret-shield")
        ELSE Allow

\* policy::evaluate: the refusal of the first rule that is on and matches.
\* views maps the hosts of the model to whether they are stateful.
Evaluate(request, views, enabled) ==
    LET on(id) == On(enabled, id)
        action == request.action
        known == request.target \in DOMAIN views
        stateful == known /\ views[request.target]
    IN  IF on("protect-stateful") /\ action \in {"service.delete", "service.stop"}
           /\ stateful
        THEN Refuse("protect-stateful")
        ELSE IF on("protect-spine") /\ request.target \in {"gate", "console"}
                /\ action \in {"service.delete", "service.stop", "env.delete"}
        THEN Refuse("protect-spine")
        ELSE IF on("no-scale-to-zero") /\ action = "service.scale"
                /\ MinContainersIsZero(request.min)
        THEN Refuse("no-scale-to-zero")
        ELSE IF on("secret-shield") /\ action \in EnvActions /\ SecretKey(request.key)
        THEN Refuse("secret-shield")
        ELSE IF on("unknown-target") /\ OutsideModel(action, known)
        THEN Refuse("unknown-target")
        ELSE Allow

-----------------------------------------------------------------------------
(* The reference: the rows of the table in README.md, by their number.     *)

\* What row n of the table says it matches.
RowMatches(n, request, views) ==
    LET inModel == request.target \in DOMAIN views IN
    \/ n = 1 /\ request.action \in {"service.delete", "service.stop"}
             /\ inModel /\ views[request.target]
    \/ n = 2 /\ request.action \in {"service.delete", "service.stop", "env.delete"}
             /\ request.target \in {"gate", "console"}
    \/ n = 3 /\ request.action = "service.scale" /\ request.min \in {"int_zero", "float_zero"}
    \/ n = 4 /\ request.action \in {"env.set", "env.delete"}
             /\ request.key \in {"upper_secret", "lower_secret"}
    \/ n = 5 /\ request.action \in ServiceActions \cup EnvActions
             /\ IF request.action = "service.create" THEN inModel ELSE ~inModel

\* "First match wins" among the rows not switched off; everything else is
\* allowed by row 6.
FirstMatch(request, views, enabled) ==
    LET off == {id \in DOMAIN enabled : ~enabled[id]}
        rows == {n \in 1..5 : Policies[n] \notin off /\ RowMatches(n, request, views)}
    IN  IF rows = {} THEN Allow ELSE Refuse(Policies[Min(rows)])
=============================================================================
