----------------------------- MODULE RiskEngine -----------------------------
(***************************************************************************)
(* RiskEngine::calculate_risk (src/src/risk/mod.rs), a pure function of    *)
(* the request's context and two thresholds, and the two contexts the      *)
(* proxy asks it about (src/src/proxy/mod.rs): a login's and an authorized *)
(* request's.  Ages are whole days and whole minutes, as num_days and      *)
(* num_minutes return them.                                                *)
(***************************************************************************)
EXTENDS Integers

AtMost(limit, n) == IF n < limit THEN n ELSE limit

DeviceRisk(device) ==
    (IF device.is_trusted THEN 0 ELSE 25)
  + (IF device.trust_score < 50 THEN 15 ELSE 0)
  + (IF device.days < 1 THEN 20 ELSE IF device.days < 7 THEN 10 ELSE 0)

FailedAttemptsRisk(n) ==
    CASE n = 0 -> 0
      [] n \in 1..2 -> 10
      [] n \in 3..5 -> 25
      [] n \in 6..10 -> 40
      [] OTHER -> 60

TimeRisk(hour) == IF hour \in 2..4 THEN 15 ELSE 0

IpChangeRisk(changed) == IF changed THEN 20 ELSE 0

\* Mutated form: a session starts to look old after half an hour.
SessionAgeRisk_Early(minutes) ==
    IF minutes > 120 THEN 30 ELSE IF minutes > 30 THEN 15 ELSE 0

SessionAgeRisk(minutes) ==
    IF minutes > 120 THEN 30 ELSE IF minutes > 60 THEN 15 ELSE 0

TotalScore(context) ==
    AtMost(100, DeviceRisk(context.device)
              + FailedAttemptsRisk(context.failed_attempts)
              + TimeRisk(context.hour)
              + IpChangeRisk(context.ip_changed)
              + SessionAgeRisk(context.age))

Recommendation(total, stepUp, block) ==
    IF total >= block THEN "Block"
    ELSE IF total >= stepUp THEN "StepUpAuth"
    ELSE "Allow"

Level(total) ==
    CASE total \in 0..30  -> "Low"
      [] total \in 31..60 -> "Medium"
      [] total \in 61..85 -> "High"
      [] OTHER            -> "Critical"

\* evaluate_request_risk.  The device is built anew, so it is always less than
\* a day old; it is trusted if the token's device_id is the session's.
RequestContext(sameDevice, hour, ipChanged, age) ==
    [device |-> [trust_score |-> IF sameDevice THEN 70 ELSE 40,
                 is_trusted |-> sameDevice, days |-> 0],
     failed_attempts |-> 0, hour |-> hour, ip_changed |-> ipChanged, age |-> age]

\* handle_login, whose device has just been built as well.
LoginContext(score, trusted, hour) ==
    [device |-> [trust_score |-> score, is_trusted |-> trusted, days |-> 0],
     failed_attempts |-> 0, hour |-> hour, ip_changed |-> FALSE, age |-> 0]
=============================================================================
