------------------------ MODULE AuthorizeGateProofs ------------------------
(***************************************************************************)
(* Proofs about AuthorizeGate and the two engines it consults, for every   *)
(* set of rules, paths, methods, hours and ages.                           *)
(***************************************************************************)
EXTENDS AuthorizeGate, FiniteSetTheorems, TLAPS

-----------------------------------------------------------------------------
(* The engines.                                                            *)

\* evaluate permits nothing that an applicable Deny rule names, whatever the
\* default and however many rules allow it.
LEMMA DenyPrecedes ==
    ASSUME NEW R, NEW default, NEW context, NEW rule \in R,
           rule.effect = "Deny", Applies(rule, context)
    PROVE  Allowed(R, default, context) = FALSE
BY DEF Allowed

\* Without attributes to look at, a rule applies only if it has no conditions.
LEMMA NoAttributes ==
    ASSUME NEW rule, NEW q, Applies(rule, Context(q))
    PROVE  rule.conditions = {}
BY DEF Applies, EvaluateConditions, Context

\* So the rules that have some can be left out.
LEMMA PlainRulesDecide ==
    ASSUME NEW R, NEW default, NEW q
    PROVE  Allowed(R, default, Context(q))
             = Allowed({rule \in R : rule.conditions = {}}, default, Context(q))
<1> DEFINE plain == {rule \in R : rule.conditions = {}}
<1>1. {x \in R : Applies(x, Context(q))} = {x \in plain : Applies(x, Context(q))}
  BY NoAttributes
<1> QED
  BY <1>1 DEF Allowed

\* A request of a session of an hour or less scores at most 55: 20 for a device
\* that is always new, 15 for the hour, 20 for a new address.
LEMMA YoungSessionsScoreLow ==
    ASSUME NEW hour, NEW ipChanged \in BOOLEAN, NEW age \in Int, age <= 60
    PROVE  TotalScore(RequestContext(TRUE, hour, ipChanged, age)) \in 0..55
<1> DEFINE c == RequestContext(TRUE, hour, ipChanged, age)
<1>1. DeviceRisk(c.device) = 20
  BY DEF RequestContext, DeviceRisk
<1>2. FailedAttemptsRisk(c.failed_attempts) = 0
  BY DEF RequestContext, FailedAttemptsRisk
<1>3. TimeRisk(c.hour) \in {0, 15}
  BY DEF TimeRisk
<1>4. IpChangeRisk(c.ip_changed) \in {0, 20}
  BY DEF IpChangeRisk
<1>5. SessionAgeRisk(c.age) = 0
  BY DEF RequestContext, SessionAgeRisk
<1> HIDE DEF c
<1>6. TotalScore(c) \in 0..55
  BY <1>1, <1>2, <1>3, <1>4, <1>5 DEF TotalScore, AtMost
<1> QED
  BY <1>6 DEF c

\* A login's device has just been made: whatever its trust, a login scores at
\* most 75, below the default of 85 for risk.block_threshold.
THEOREM LoginScoreBounded ==
    ASSUME NEW score \in 0..100, NEW trusted \in BOOLEAN, NEW hour
    PROVE  TotalScore(LoginContext(score, trusted, hour)) \in 20..75
<1> DEFINE c == LoginContext(score, trusted, hour)
<1>1. DeviceRisk(c.device) \in 20..60
  <2>1. c.device.days = 0 /\ c.device.trust_score = score
    BY DEF LoginContext
  <2> QED
    BY <2>1 DEF DeviceRisk
<1>2. FailedAttemptsRisk(c.failed_attempts) = 0
  BY DEF LoginContext, FailedAttemptsRisk
<1>3. TimeRisk(c.hour) \in {0, 15}
  BY DEF TimeRisk
<1>4. IpChangeRisk(c.ip_changed) = 0
  BY DEF LoginContext, IpChangeRisk
<1>5. SessionAgeRisk(c.age) = 0
  BY DEF LoginContext, SessionAgeRisk
<1> HIDE DEF c
<1>6. TotalScore(c) \in 20..75
  BY <1>1, <1>2, <1>3, <1>4, <1>5 DEF TotalScore, AtMost
<1> QED
  BY <1>6 DEF c

\* A rule with effect Allow added to the others takes no permission away, a rule
\* with effect Deny grants none: evaluate is monotone in the rules of one effect
\* while those of the other, and the default, stay the same.
THEOREM RulesPullTheirWay ==
    ASSUME NEW R, NEW S, R \subseteq S, NEW default \in BOOLEAN, NEW context
    PROVE  /\ (\A rule \in S \ R : rule.effect = "Allow")
                /\ Allowed(R, default, context) => Allowed(S, default, context)
           /\ (\A rule \in S \ R : rule.effect = "Deny")
                /\ Allowed(S, default, context) => Allowed(R, default, context)
<1> DEFINE Found(Q) == {rule.effect : rule \in {x \in Q : Applies(x, context)}}
<1>1. Found(R) \subseteq Found(S)
  OBVIOUS
<1>2. ASSUME NEW e, \A rule \in S \ R : rule.effect = e
      PROVE  Found(S) \subseteq Found(R) \union {e}
  BY <1>2
<1>3. \A Q : Allowed(Q, default, context) <=>
               /\ "Deny" \notin Found(Q)
               /\ "Allow" \in Found(Q) \/ ~default
  BY DEF Allowed
<1> HIDE DEF Found
<1>4. ASSUME \A rule \in S \ R : rule.effect = "Allow",
             Allowed(R, default, context)
      PROVE  Allowed(S, default, context)
  <2>1. Found(S) \subseteq Found(R) \union {"Allow"}
    BY <1>2, <1>4
  <2> QED
    BY <1>1, <1>3, <1>4, <2>1
<1>5. ASSUME \A rule \in S \ R : rule.effect = "Deny",
             Allowed(S, default, context)
      PROVE  Allowed(R, default, context)
  <2>1. Found(S) \subseteq Found(R) \union {"Deny"}
    BY <1>2, <1>5
  <2> QED
    BY <1>1, <1>3, <1>5, <2>1
<1> QED
  BY <1>4, <1>5

\* What can be said of the risk of one context against another: nothing about d
\* is more reassuring than it is about c, and the hour is the same.
AtLeastAsRisky(d, c) ==
    /\ d.device.is_trusted => c.device.is_trusted
    /\ d.device.trust_score <= c.device.trust_score
    /\ d.device.days <= c.device.days
    /\ c.failed_attempts <= d.failed_attempts
    /\ c.hour = d.hour
    /\ c.ip_changed => d.ip_changed
    /\ c.age <= d.age

\* The contexts calculate_risk can be asked about: ages may be negative when the
\* clocks of the proxy and of a record disagree.
RiskContext ==
    [device : [trust_score : Int, is_trusted : BOOLEAN, days : Int],
     failed_attempts : Nat, hour : 0..23, ip_changed : BOOLEAN, age : Int]

\* The five factors of a score, each with its range.
LEMMA FactorsInRange ==
    ASSUME NEW c \in RiskContext
    PROVE  /\ DeviceRisk(c.device) \in 0..60
           /\ FailedAttemptsRisk(c.failed_attempts) \in 0..60
           /\ TimeRisk(c.hour) \in 0..15
           /\ IpChangeRisk(c.ip_changed) \in 0..20
           /\ SessionAgeRisk(c.age) \in 0..30
<1>1. DeviceRisk(c.device) \in 0..60
  BY DEF DeviceRisk
<1>2. FailedAttemptsRisk(c.failed_attempts) \in {0, 10, 25, 40, 60}
  BY DEF FailedAttemptsRisk
<1>3. TimeRisk(c.hour) \in {0, 15}
  BY DEF TimeRisk
<1>4. IpChangeRisk(c.ip_changed) \in {0, 20}
  BY DEF IpChangeRisk
<1>5. SessionAgeRisk(c.age) \in {0, 15, 30}
  BY DEF SessionAgeRisk
<1> QED
  BY <1>1, <1>2, <1>3, <1>4, <1>5

\* More failures, a longer session or a less familiar device weigh no less.
LEMMA FactorsMonotone ==
    ASSUME NEW c \in RiskContext, NEW d \in RiskContext, AtLeastAsRisky(d, c)
    PROVE  /\ DeviceRisk(c.device) <= DeviceRisk(d.device)
           /\ FailedAttemptsRisk(c.failed_attempts)
                <= FailedAttemptsRisk(d.failed_attempts)
           /\ TimeRisk(c.hour) = TimeRisk(d.hour)
           /\ IpChangeRisk(c.ip_changed) <= IpChangeRisk(d.ip_changed)
           /\ SessionAgeRisk(c.age) <= SessionAgeRisk(d.age)
<1>1. ASSUME NEW s \in Int, NEW t \in Int, NEW m \in Int, NEW n \in Int,
             NEW p \in BOOLEAN, NEW q \in BOOLEAN, q => p, t <= s, n <= m
      PROVE  DeviceRisk([trust_score |-> s, is_trusted |-> p, days |-> m])
               <= DeviceRisk([trust_score |-> t, is_trusted |-> q, days |-> n])
  BY <1>1 DEF DeviceRisk
<1>2. DeviceRisk(c.device) <= DeviceRisk(d.device)
  <2>1. /\ c.device = [trust_score |-> c.device.trust_score,
                       is_trusted |-> c.device.is_trusted,
                       days |-> c.device.days]
        /\ d.device = [trust_score |-> d.device.trust_score,
                       is_trusted |-> d.device.is_trusted,
                       days |-> d.device.days]
        /\ c.device.trust_score \in Int /\ c.device.days \in Int
        /\ d.device.trust_score \in Int /\ d.device.days \in Int
        /\ c.device.is_trusted \in BOOLEAN /\ d.device.is_trusted \in BOOLEAN
    BY DEF RiskContext
  <2> QED
    BY <1>1, <2>1, Zenon DEF AtLeastAsRisky
<1>3. ASSUME NEW m \in Nat, NEW n \in Nat, m <= n
      PROVE  FailedAttemptsRisk(m) <= FailedAttemptsRisk(n)
  BY <1>3 DEF FailedAttemptsRisk
<1>4. ASSUME NEW m \in Int, NEW n \in Int, m <= n
      PROVE  SessionAgeRisk(m) <= SessionAgeRisk(n)
  BY <1>4 DEF SessionAgeRisk
<1>5. IpChangeRisk(c.ip_changed) <= IpChangeRisk(d.ip_changed)
  BY DEF AtLeastAsRisky, RiskContext, IpChangeRisk
<1>6. /\ c.failed_attempts \in Nat /\ d.failed_attempts \in Nat
      /\ c.age \in Int /\ d.age \in Int
  BY DEF RiskContext
<1> QED
  BY <1>2, <1>3, <1>4, <1>5, <1>6, Zenon DEF AtLeastAsRisky

\* calculate_risk is a score out of 100, and no context gets a higher one by
\* being more reassuring: there is no factor whose steps go the wrong way.
THEOREM ScoresAreMonotone ==
    ASSUME NEW c \in RiskContext, NEW d \in RiskContext, AtLeastAsRisky(d, c)
    PROVE  /\ TotalScore(c) \in 0..100 /\ TotalScore(d) \in 0..100
           /\ TotalScore(c) <= TotalScore(d)
<1>1. ASSUME NEW m \in Int, NEW n \in Int, 0 <= m, m <= n
      PROVE  /\ AtMost(100, m) \in 0..100 /\ AtMost(100, n) \in 0..100
             /\ AtMost(100, m) <= AtMost(100, n)
  BY <1>1 DEF AtMost
<1> DEFINE Sum(x) == DeviceRisk(x.device)
                       + FailedAttemptsRisk(x.failed_attempts)
                       + TimeRisk(x.hour)
                       + IpChangeRisk(x.ip_changed)
                       + SessionAgeRisk(x.age)
<1>2. Sum(c) \in Int /\ Sum(d) \in Int /\ 0 <= Sum(c) /\ Sum(c) <= Sum(d)
  <2>1. ASSUME NEW x \in RiskContext
        PROVE  \E a \in 0..60, b \in 0..60, e \in 0..15, f \in 0..20, g \in 0..30 :
                 /\ a = DeviceRisk(x.device)
                 /\ b = FailedAttemptsRisk(x.failed_attempts)
                 /\ e = TimeRisk(x.hour)
                 /\ f = IpChangeRisk(x.ip_changed)
                 /\ g = SessionAgeRisk(x.age)
    BY FactorsInRange, Zenon
  <2>2. PICK a \in 0..60, b \in 0..60, e \in 0..15, f \in 0..20, g \in 0..30 :
               /\ a = DeviceRisk(c.device)
               /\ b = FailedAttemptsRisk(c.failed_attempts)
               /\ e = TimeRisk(c.hour)
               /\ f = IpChangeRisk(c.ip_changed)
               /\ g = SessionAgeRisk(c.age)
    BY <2>1, Zenon
  <2>3. PICK i \in 0..60, j \in 0..60, k \in 0..15, l \in 0..20, n \in 0..30 :
               /\ i = DeviceRisk(d.device)
               /\ j = FailedAttemptsRisk(d.failed_attempts)
               /\ k = TimeRisk(d.hour)
               /\ l = IpChangeRisk(d.ip_changed)
               /\ n = SessionAgeRisk(d.age)
    BY <2>1, Zenon
  <2>4. a <= i /\ b <= j /\ e = k /\ f <= l /\ g <= n
    BY <2>2, <2>3, FactorsMonotone, Zenon
  <2>5. Sum(c) = a + b + e + f + g /\ Sum(d) = i + j + k + l + n
    BY <2>2, <2>3, Zenon
  <2> HIDE DEF Sum
  <2> QED
    BY <2>4, <2>5
<1>3. TotalScore(c) = AtMost(100, Sum(c)) /\ TotalScore(d) = AtMost(100, Sum(d))
  BY DEF TotalScore
<1> HIDE DEF Sum
<1> QED
  BY <1>1, <1>2, <1>3

\* So a riskier context never gets off more lightly, whatever the thresholds,
\* in whatever order: what is blocked stays blocked, and what has to step up
\* has to step up or is blocked.
THEOREM AdviceIsMonotone ==
    ASSUME NEW c \in RiskContext, NEW d \in RiskContext, AtLeastAsRisky(d, c),
           NEW stepUp \in Int, NEW block \in Int
    PROVE  LET advice(x) == Recommendation(TotalScore(x), stepUp, block) IN
           /\ advice(c) = "Block" => advice(d) = "Block"
           /\ advice(c) = "StepUpAuth" => advice(d) # "Allow"
<1>1. PICK m \in 0..100, n \in 0..100 :
        m = TotalScore(c) /\ n = TotalScore(d) /\ m <= n
  BY ScoresAreMonotone
<1>2. /\ Recommendation(m, stepUp, block) = "Block"
           => Recommendation(n, stepUp, block) = "Block"
      /\ Recommendation(m, stepUp, block) = "StepUpAuth"
           => Recommendation(n, stepUp, block) # "Allow"
  BY <1>1 DEF Recommendation
<1> QED
  BY <1>1, <1>2, Zenon

-----------------------------------------------------------------------------
(* The inductive invariant: which tests a request has passed, and what has *)
(* been written about it so far.                                           *)

Permitted == Allowed(rules, DefaultDeny, Context(request))
Advice == Recommendation(Risk(request), StepUp, Block)

TestsOK ==
    /\ pc \in {"mfa", "risk", "forward"} => Permitted
    /\ pc = "denied" => ~Permitted
    /\ pc = "blocked" => Advice = "Block"
    /\ pc = "mfa_required" => RequireMfa \/ Advice = "StepUpAuth"

AuditOK ==
    /\ pc \in {"setup", "policy"} => audit = {}
    /\ pc \in {"mfa", "risk"} => Records({"scored"})
    /\ AuditAgrees

IInv == TypeOK /\ IsFiniteSet(rules) /\ TestsOK /\ AuditOK

\* The invariant holds before the proxy serves.
LEMMA InitIInv == Init => IInv
<1> SUFFICES ASSUME Init PROVE IInv
  OBVIOUS
<1>1. /\ rules \subseteq Rules \union {DefaultRule}
      /\ IsFiniteSet(rules) /\ Cardinality(rules) <= MaxRules + 1
  <2>1. IsFiniteSet({DefaultRule}) /\ Cardinality({DefaultRule}) = 1
    BY FS_Singleton
  <2>2. rules = {DefaultRule}
    BY DEF Init
  <2> QED
    BY <2>1, <2>2, InputAssumption
<1> QED
  BY <1>1 DEF Init, IInv, TypeOK, TestsOK, AuditOK, AuditAgrees, Rows

\* Adding a rule, which only happens before the first test, preserves it.
LEMMA AddRuleIInv ==
    ASSUME IInv, NEW rule \in Rules, AddRule(rule)
    PROVE  IInv'
<1>1. /\ IsFiniteSet(rules') /\ rules' \subseteq Rules \union {DefaultRule}
      /\ Cardinality(rules') <= Cardinality(rules) + 1
      /\ Cardinality(rules) \in Nat /\ Cardinality(rules') \in Nat
  <2>1. /\ IsFiniteSet(rules) /\ rules' = rules \union {rule}
        /\ rules \subseteq Rules \union {DefaultRule}
    BY DEF IInv, TypeOK, AddRule
  <2>2. /\ IsFiniteSet(rules \union {rule})
        /\ Cardinality(rules \union {rule})
             = IF rule \in rules THEN Cardinality(rules) ELSE Cardinality(rules) + 1
    BY <2>1, FS_AddElement
  <2>3. Cardinality(rules) \in Nat
    BY <2>1, FS_CardinalityType
  <2> QED
    BY <2>1, <2>2, <2>3
<1>2. Cardinality(rules') <= MaxRules + 1
  BY <1>1, InputAssumption DEF AddRule
<1> QED
  BY <1>1, <1>2 DEF IInv, TypeOK, AddRule, TestsOK, AuditOK, AuditAgrees

\* Every step that leaves the rules and the request alone preserves the part of
\* the invariant that is about them.
LEMMA GateTypes ==
    ASSUME IInv, UNCHANGED <<rules, request>>,
           pc' \in {"policy", "mfa", "risk"} \union Verdicts,
           audit' \in SUBSET Rows, ~({"allowed", "refused"} \subseteq audit'),
           lost' \in BOOLEAN
    PROVE  TypeOK' /\ IsFiniteSet(rules)'
BY DEF IInv, TypeOK

\* The audit call appends the row, or loses it.
LEMMA LogFacts ==
    ASSUME NEW rowset \in SUBSET Rows, Records(rowset), lost \in BOOLEAN,
           NEW row \in Rows, LogRow(row),
           NEW after \in SUBSET Rows, after = rowset \union {row}
    PROVE  /\ Records(after)' /\ audit' \subseteq after /\ lost' \in BOOLEAN
BY DEF LogRow, Records

\* The first request comes in.
LEMMA ServeIInv ==
    ASSUME IInv, Serve
    PROVE  IInv'
BY DEF IInv, TypeOK, Serve, TestsOK, AuditOK, AuditAgrees

\* The policy test.
LEMMA CheckPolicyIInv ==
    ASSUME IInv, CheckPolicy
    PROVE  IInv'
<1>1. /\ pc = "policy" /\ Records({}) /\ lost \in BOOLEAN
      /\ UNCHANGED <<rules, request>>
  BY DEF IInv, TypeOK, CheckPolicy, AuditOK, Records
<1>2. CASE Permitted
  <2>1. pc' = "mfa" /\ LogRow("scored")
    BY <1>2 DEF CheckPolicy, Permitted
  <2>2. Permitted'
    BY <1>1, <1>2 DEF Permitted
  <2>3. Records({"scored"})' /\ audit' \subseteq {"scored"} /\ lost' \in BOOLEAN
    <3>1. {"scored"} = {} \union {"scored"}
      OBVIOUS
    <3> QED
      BY <1>1, <2>1, <3>1, LogFacts DEF Rows
  <2> QED
    BY <1>1, <2>1, <2>2, <2>3, GateTypes
       DEF IInv, TestsOK, AuditOK, AuditAgrees, Rows
<1>3. CASE ~Permitted
  <2>1. pc' = "denied" /\ LogRow("refused")
    BY <1>3 DEF CheckPolicy, Permitted
  <2>3. ~Permitted'
    BY <1>1, <1>3 DEF Permitted
  <2>2. Records({"refused"})' /\ audit' \subseteq {"refused"} /\ lost' \in BOOLEAN
    <3>1. {"refused"} = {} \union {"refused"}
      OBVIOUS
    <3> QED
      BY <1>1, <2>1, <3>1, LogFacts DEF Rows
  <2> QED
    BY <1>1, <2>1, <2>2, <2>3, GateTypes
       DEF IInv, TestsOK, AuditOK, AuditAgrees, Verdicts, Rows
<1> QED
  BY <1>2, <1>3

\* The test of auth.require_mfa.
LEMMA CheckMfaIInv ==
    ASSUME IInv, CheckMfa
    PROVE  IInv'
<1>1. /\ pc = "mfa" /\ Records({"scored"}) /\ lost \in BOOLEAN
      /\ UNCHANGED <<rules, request, audit, lost>>
  BY DEF IInv, TypeOK, CheckMfa, AuditOK
<1>2. Permitted'
  BY <1>1 DEF IInv, TestsOK, Permitted
<1>3. \/ pc' = "mfa_required" /\ RequireMfa
      \/ pc' = "risk"
  BY DEF CheckMfa
<1>4. Records({"scored"})' /\ audit' \subseteq {"scored"}
  BY <1>1 DEF Records
<1> QED
  BY <1>1, <1>2, <1>3, <1>4, GateTypes
     DEF IInv, TestsOK, AuditOK, AuditAgrees, Verdicts, Rows

\* The risk test, one step for each recommendation.
LEMMA CheckRiskIInv ==
    ASSUME IInv, CheckRisk
    PROVE  IInv'
<1>1. /\ pc = "risk" /\ Records({"scored"}) /\ lost \in BOOLEAN
      /\ UNCHANGED <<rules, request>>
  BY DEF IInv, TypeOK, CheckRisk, AuditOK
<1>2. Permitted' /\ Advice' = Advice
  BY <1>1 DEF IInv, TestsOK, Permitted, Advice
<1>3. \/ Advice = "Block" /\ pc' = "blocked" /\ LogRow("refused")
      \/ Advice = "StepUpAuth" /\ pc' = "mfa_required" /\ UNCHANGED <<audit, lost>>
      \/ pc' = "forward" /\ LogRow("allowed")
  BY DEF CheckRisk, Advice
<1>4. CASE Advice = "Block" /\ pc' = "blocked" /\ LogRow("refused")
  <2>1. /\ Records({"scored", "refused"})' /\ lost' \in BOOLEAN
        /\ audit' \subseteq {"scored", "refused"}
    <3>1. {"scored", "refused"} = {"scored"} \union {"refused"}
      OBVIOUS
    <3> QED
      BY <1>1, <1>4, <3>1, LogFacts DEF Rows
  <2> QED
    BY <1>1, <1>2, <1>4, <2>1, GateTypes
       DEF IInv, TestsOK, AuditOK, AuditAgrees, Verdicts, Rows
<1>5. CASE /\ Advice = "StepUpAuth" /\ pc' = "mfa_required"
           /\ UNCHANGED <<audit, lost>>
  <2>1. Records({"scored"})' /\ audit' \subseteq {"scored"}
    BY <1>1, <1>5 DEF Records
  <2> QED
    BY <1>1, <1>2, <1>5, <2>1, GateTypes
       DEF IInv, TestsOK, AuditOK, AuditAgrees, Verdicts, Rows
<1>6. CASE pc' = "forward" /\ LogRow("allowed")
  <2>1. /\ Records({"scored", "allowed"})' /\ lost' \in BOOLEAN
        /\ audit' \subseteq {"scored", "allowed"}
    <3>1. {"scored", "allowed"} = {"scored"} \union {"allowed"}
      OBVIOUS
    <3> QED
      BY <1>1, <1>6, <3>1, LogFacts DEF Rows
  <2> QED
    BY <1>1, <1>2, <1>6, <2>1, GateTypes
       DEF IInv, TestsOK, AuditOK, AuditAgrees, Verdicts, Rows
<1> QED
  BY <1>3, <1>4, <1>5, <1>6

\* The invariant is inductive.
LEMMA NextIInv == IInv /\ [Next]_vars => IInv'
<1> SUFFICES ASSUME IInv, [Next]_vars
             PROVE  IInv'
  OBVIOUS
<1>1. CASE UNCHANGED vars
  BY <1>1 DEF vars, IInv, TypeOK, TestsOK, AuditOK, AuditAgrees, Records,
         Permitted, Advice
<1> QED
  BY <1>1, AddRuleIInv, ServeIInv, CheckPolicyIInv, CheckMfaIInv, CheckRiskIInv
     DEF Next

-----------------------------------------------------------------------------
(* Theorems.                                                               *)

\* The invariant holds in every reachable state.
THEOREM IInvAlways == Spec => []IInv
BY InitIInv, NextIInv, PTL DEF Spec

\* Every variable keeps its type, and no request is both allowed and refused.
THEOREM TypeCorrect == Spec => []TypeOK
<1>1. IInv => TypeOK
  BY DEF IInv
<1> QED
  BY <1>1, IInvAlways, PTL

\* The audit row, if it was written, says what the gate answered.
THEOREM AuditAlwaysAgrees == Spec => []AuditAgrees
<1>1. IInv => AuditAgrees
  BY DEF IInv, AuditOK
<1> QED
  BY <1>1, IInvAlways, PTL

\* Nothing an unconditional Deny rule names is forwarded.
THEOREM DenyAlwaysWins == Spec => []DenyWins
<1>1. ASSUME IInv, pc = "forward", NEW rule \in rules,
             rule.effect = "Deny", rule.conditions = {},
             request.action \in rule.actions,
             MatchesResource(rule.pattern, request.resource)
      PROVE  FALSE
  <2>1. Applies(rule, Context(request))
    BY <1>1 DEF Applies, Context, EvaluateConditions
  <2> QED
    BY <1>1, <2>1, DenyPrecedes DEF IInv, TestsOK, Permitted
<1>2. IInv => DenyWins
  BY <1>1 DEF DenyWins
<1> QED
  BY <1>2, IInvAlways, PTL

\* How far the run gate_context's disagreement with README.md goes: authorize
\* gives the engine no attributes, so a rule with a condition, of either effect,
\* might as well not be there.
ConditionsAreInert ==
    LET plain == {rule \in rules : rule.conditions = {}} IN
    Allowed(rules, DefaultDeny, Context(request))
        <=> Allowed(plain, DefaultDeny, Context(request))

\* Rules with conditions decide nothing, in no state and for no set of rules.
THEOREM ConditionsAlwaysInert == Spec => []ConditionsAreInert
<1>1. ConditionsAreInert
  BY PlainRulesDecide DEF ConditionsAreInert
<1> QED
  BY <1>1, PTL

\* With thresholds above 55, and the defaults are 60 and 85, the risk test
\* refuses no request of a session of an hour or less.
THEOREM OnlyAgeRisky ==
    ASSUME StepUp > 55, Block > 55
    PROVE  Spec => []OnlyAgeIsRisky
<1>1. ASSUME IInv, Advice # "Allow"
      PROVE  request.age > 60
  <2>1. request.age \in Int /\ request.ipChanged \in BOOLEAN
    BY <1>1, InputAssumption DEF IInv, TypeOK, Request
  <2>2. CASE request.age <= 60
    <3>1. Risk(request) \in 0..55
      BY <2>1, <2>2, YoungSessionsScoreLow DEF Risk
    <3> QED
      BY <1>1, <3>1, ThresholdAssumption DEF Advice, Recommendation
  <2> QED
    BY <2>1, <2>2
<1>2. IInv => OnlyAgeIsRisky
  BY <1>1 DEF IInv, TestsOK, OnlyAgeIsRisky
<1> QED
  BY <1>2, IInvAlways, PTL

\* The default rule is there from the start, and nothing removes a rule.
LEMMA DefaultRuleStays == Spec => [](DefaultRule \in rules)
<1>1. Init => DefaultRule \in rules
  BY DEF Init
<1>2. DefaultRule \in rules /\ [Next]_vars => (DefaultRule \in rules)'
  BY DEF Next, vars, AddRule, Serve, CheckPolicy, CheckMfa, CheckRisk
<1> QED
  BY <1>1, <1>2, PTL DEF Spec

\* A pattern that is a star alone matches every path.
LEMMA StarMatches ==
    ASSUME NEW Chars, NEW path \in Seq(Chars)
    PROVE  MatchesResource(DefaultRule.pattern, path)
<1>1. IsPrefix(<<>>, path)
  BY DEF IsPrefix
<1> QED
  BY <1>1 DEF MatchesResource, DefaultRule

\* build_default_policy_engine allows every path with each of seven methods, so
\* for those policy.default_deny changes no answer, and what refuses such a
\* request is always a Deny rule that applies to it.
THEOREM DefaultDenyMoot ==
    ASSUME NEW Chars, Resources \subseteq Seq(Chars)
    PROVE  Spec => [](request.action \in DefaultRule.actions =>
                        /\ Allowed(rules, TRUE, Context(request))
                             <=> Allowed(rules, FALSE, Context(request))
                        /\ pc = "denied" =>
                             \E rule \in rules :
                               /\ rule.effect = "Deny"
                               /\ Applies(rule, Context(request)))
<1>1. ASSUME IInv, DefaultRule \in rules,
             request.action \in DefaultRule.actions
      PROVE  Applies(DefaultRule, Context(request))
  <2>1. request.resource \in Seq(Chars)
    BY <1>1 DEF IInv, TypeOK, Request
  <2>2. MatchesResource(DefaultRule.pattern, request.resource)
    BY <2>1, StarMatches
  <2>3. DefaultRule.conditions = {}
    BY DEF DefaultRule
  <2> QED
    BY <1>1, <2>2, <2>3 DEF Applies, Context, EvaluateConditions
<1>2. ASSUME IInv, DefaultRule \in rules,
             request.action \in DefaultRule.actions, NEW default \in BOOLEAN
      PROVE  Allowed(rules, default, Context(request)) <=>
               ~\E rule \in rules : /\ rule.effect = "Deny"
                                    /\ Applies(rule, Context(request))
  <2> DEFINE found == {rule.effect :
                         rule \in {x \in rules : Applies(x, Context(request))}}
  <2>1. "Allow" \in found
    <3>1. DefaultRule.effect = "Allow"
      BY DEF DefaultRule
    <3> QED
      BY <1>1, <1>2, <3>1
  <2>2. "Deny" \in found <=>
          \E rule \in rules : /\ rule.effect = "Deny"
                              /\ Applies(rule, Context(request))
    OBVIOUS
  <2>3. Allowed(rules, default, Context(request)) <=> "Deny" \notin found
    BY <2>1 DEF Allowed
  <2> QED
    BY <2>2, <2>3
<1>3. IInv /\ DefaultRule \in rules =>
        (request.action \in DefaultRule.actions =>
           /\ Allowed(rules, TRUE, Context(request))
                <=> Allowed(rules, FALSE, Context(request))
           /\ pc = "denied" =>
                \E rule \in rules : /\ rule.effect = "Deny"
                                    /\ Applies(rule, Context(request)))
  <2> SUFFICES ASSUME IInv, DefaultRule \in rules,
                      request.action \in DefaultRule.actions
               PROVE  /\ Allowed(rules, TRUE, Context(request))
                           <=> Allowed(rules, FALSE, Context(request))
                      /\ pc = "denied" =>
                           \E rule \in rules :
                             rule.effect = "Deny" /\ Applies(rule, Context(request))
    OBVIOUS
  <2>2. Allowed(rules, TRUE, Context(request))
          <=> Allowed(rules, FALSE, Context(request))
    BY <1>2, Zenon
  <2>3. pc = "denied" => ~Allowed(rules, DefaultDeny, Context(request))
    BY DEF IInv, TestsOK, Permitted
  <2> QED
    BY <1>2, <2>2, <2>3, FlagsAssumption
<1> QED
  BY <1>3, IInvAlways, DefaultRuleStays, PTL
=============================================================================
