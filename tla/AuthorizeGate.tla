--------------------------- MODULE AuthorizeGate ---------------------------
(***************************************************************************)
(* The zero-trust gate: ProxyServer::authorize (src/src/proxy/mod.rs) from *)
(* the session it has read to its verdict, with the policy and risk        *)
(* engines at work and the audit rows it leaves.                           *)
(*                                                                         *)
(* ProxySessions leaves the policy's verdict and the recommendation open;  *)
(* here they are computed, one request at a time: nothing but the rules,   *)
(* which are only added to before the proxy serves, outlives a request.    *)
(***************************************************************************)
EXTENDS PolicyEngine, RiskEngine, FiniteSets

CONSTANTS
    Rules,        \* rules an operator may add to the default ones
    MaxRules,     \* how many of them at most (a bound for TLC)
    Resources,    \* paths, sequences of characters
    Actions,      \* methods in lower case
    Hours,        \* hours of the day a request may come at
    Ages,         \* ages of a session, in minutes
    DefaultDeny,  \* policy.default_deny
    RequireMfa,   \* auth.require_mfa
    StepUp,       \* risk.step_up_threshold
    Block         \* risk.block_threshold

ASSUME ThresholdAssumption == StepUp \in Nat /\ Block \in Nat
ASSUME FlagsAssumption == DefaultDeny \in BOOLEAN /\ RequireMfa \in BOOLEAN
ASSUME InputAssumption ==
    MaxRules \in Nat /\ Ages \subseteq Int /\ Hours \subseteq 0..23

VARIABLES
    rules,    \* the rules of all policies
    pc,       \* "setup", the test authorize comes to next, or its verdict
    request,  \* what the tests look at
    audit,    \* rows of the audit log written for the request
    lost      \* history: has an audit row failed to be written?

vars == <<rules, pc, request, audit, lost>>

Request == [resource: Resources, action: Actions,
            hour: Hours, ipChanged: BOOLEAN, age: Ages, mfa: BOOLEAN]

\* A risk_evaluation row, an authorization row of either outcome.
Rows == {"scored", "allowed", "refused"}

Verdicts == {"forward", "denied", "mfa_required", "blocked"}

\* The attributes authorize evaluates policies with: none.
Context(q) ==
    [resource |-> q.resource, action |-> q.action, attributes |-> <<>>]

\* The token's device_id and the session's come from the same login.
Risk(q) == TotalScore(RequestContext(TRUE, q.hour, q.ipChanged, q.age))

\* The rule of build_default_policy_engine, whatever default_deny says.
DefaultRule ==
    [pattern |-> [star |-> TRUE, text |-> <<>>],
     actions |-> {"get", "post", "put", "patch", "delete", "head", "options"},
     conditions |-> {}, effect |-> "Allow"]

TypeOK ==
    /\ rules \subseteq Rules \union {DefaultRule}
    /\ Cardinality(rules) <= MaxRules + 1
    /\ pc \in {"setup", "policy", "mfa", "risk"} \union Verdicts
    /\ request \in Request
    /\ audit \in SUBSET Rows /\ ~({"allowed", "refused"} \subseteq audit)
    /\ lost \in BOOLEAN

Init ==
    /\ rules = {DefaultRule}
    /\ pc = "setup"
    /\ request \in Request
    /\ audit = {}
    /\ lost = FALSE

-----------------------------------------------------------------------------

\* add_policy.
AddRule(rule) ==
    /\ pc = "setup"
    /\ Cardinality(rules) <= MaxRules
    /\ rules' = rules \union {rule}
    /\ UNCHANGED <<pc, request, audit, lost>>

Serve ==
    /\ pc = "setup"
    /\ pc' = "policy"
    /\ UNCHANGED <<rules, request, audit, lost>>

\* log_authorization or log_risk_evaluation, with .await.ok(): a row that
\* cannot be written is missed by nobody.
LogRow(row) ==
    \/ audit' = audit \union {row} /\ UNCHANGED lost
    \/ lost' = TRUE /\ UNCHANGED audit

\* Mutated form: the policy's permission is recorded as the gate's.
CheckPolicy_LogsAllow ==
    /\ pc = "policy"
    /\ IF Allowed(rules, DefaultDeny, Context(request))
       THEN pc' = "mfa" /\ LogRow("allowed")
       ELSE pc' = "denied" /\ LogRow("refused")
    /\ UNCHANGED <<rules, request>>

\* What the policy allows is scored at once, and the score is logged.
CheckPolicy ==
    /\ pc = "policy"
    /\ IF Allowed(rules, DefaultDeny, Context(request))
       THEN pc' = "mfa" /\ LogRow("scored")
       ELSE pc' = "denied" /\ LogRow("refused")
    /\ UNCHANGED <<rules, request>>

CheckMfa ==
    /\ pc = "mfa"
    /\ pc' = IF RequireMfa /\ ~request.mfa THEN "mfa_required" ELSE "risk"
    /\ UNCHANGED <<rules, request, audit, lost>>

\* Mutated form: both refusals leave a row.
CheckRisk_LogsStepUp ==
    /\ pc = "risk"
    /\ LET r == Recommendation(Risk(request), StepUp, Block) IN
       \/ /\ r = "Block" \/ (r = "StepUpAuth" /\ ~request.mfa)
          /\ pc' = IF r = "Block" THEN "blocked" ELSE "mfa_required"
          /\ LogRow("refused")
       \/ /\ r = "Allow" \/ (r = "StepUpAuth" /\ request.mfa)
          /\ pc' = "forward" /\ LogRow("allowed")
    /\ UNCHANGED <<rules, request>>

\* The three recommendations.
CheckRisk ==
    /\ pc = "risk"
    /\ LET r == Recommendation(Risk(request), StepUp, Block) IN
       \/ /\ r = "Block"
          /\ pc' = "blocked" /\ LogRow("refused")
       \/ /\ r = "StepUpAuth" /\ ~request.mfa
          /\ pc' = "mfa_required" /\ UNCHANGED <<audit, lost>>
       \/ /\ r = "Allow" \/ (r = "StepUpAuth" /\ request.mfa)
          /\ pc' = "forward" /\ LogRow("allowed")
    /\ UNCHANGED <<rules, request>>

Next ==
    \/ \E rule \in Rules : AddRule(rule)
    \/ Serve \/ CheckPolicy \/ CheckMfa \/ CheckRisk

Spec == Init /\ [][Next]_vars

-----------------------------------------------------------------------------
(* Properties.                                                             *)

\* The rows written for the request are these, but for what was lost.
Records(rowset) == audit \subseteq rowset /\ (audit = rowset \/ lost)

\* The audit trail never contradicts the answer: no row says that a request was
\* allowed which is refused later, and unless an insert failed every decision
\* of the policy or of the risk engine has its row, of all that have been
\* scored and of no others.  A demand for MFA leaves no authorization row.
AuditAgrees ==
    /\ pc = "forward" => Records({"scored", "allowed"})
    /\ pc = "denied" => Records({"refused"})
    /\ pc = "blocked" => Records({"scored", "refused"})
    /\ pc = "mfa_required" => Records({"scored"})

\* "Deny takes precedence": nothing passes that an unconditional Deny rule
\* names, whatever other rules say.
DenyWins ==
    pc = "forward" =>
        ~\E rule \in rules :
            /\ rule.effect = "Deny" /\ rule.conditions = {}
            /\ request.action \in rule.actions
            /\ MatchesResource(rule.pattern, request.resource)

\* The risk test speaks up for old sessions only: neither the hour nor a new
\* address nor both refuse a session of an hour or less, so with sessions of
\* 15 minutes the default thresholds never ask for anything, whatever else
\* changes meanwhile (ContextIsHeeded is what README.md leads to expect).
OnlyAgeIsRisky ==
    pc = "blocked" \/ (pc = "mfa_required" /\ ~RequireMfa) => request.age > 60

\* An attribute of the request that authorize knows itself: whether its address
\* is still the one of the login.
AttributesOf(q) ==
    [ip_changed |-> [chars |-> IF q.ipChanged THEN <<"y">> ELSE <<"n">>,
                     number |-> 0]]

\* "Attribute-based access control (ABAC)" (README.md): a Deny rule whose
\* conditions the attributes of the request meet is not passed over.
PolicyHeedsContext ==
    ~\E rule \in rules :
        /\ rule.effect = "Deny"
        /\ request.action \in rule.actions
        /\ MatchesResource(rule.pattern, request.resource)
        /\ EvaluateConditions(rule.conditions, AttributesOf(request))

\* "Adaptive authentication (step-up when risk increases)" (README.md): a request
\* from a new address in the hours that count as unusual has a second factor.
RiskHeedsContext ==
    request.ipChanged /\ TimeRisk(request.hour) > 0 => request.mfa

\* At least one of the two sentences is true of whatever authorize forwards.
ContextIsHeeded == pc = "forward" => PolicyHeedsContext \/ RiskHeedsContext
=============================================================================
