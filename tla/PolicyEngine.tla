---------------------------- MODULE PolicyEngine ----------------------------
(***************************************************************************)
(* PolicyEngine::evaluate (src/src/policy/mod.rs), a pure function of the  *)
(* rules, the default and the context of a request.                        *)
(*                                                                         *)
(* A resource is a sequence of characters, and so is the text of a pattern *)
(* up to its final '*', if it has one.  A value of an attribute is a       *)
(* record of its characters and of the number they parse to, 0 if they     *)
(* parse to none (unwrap_or(0.0)).                                         *)
(***************************************************************************)
EXTENDS Integers, SequencesExt

Effects == {"Allow", "Deny"}

\* matches_resource: "*" alone is the pattern with a star and no text.
MatchesResource(pattern, resource) ==
    IF pattern.star THEN IsPrefix(pattern.text, resource)
                    ELSE pattern.text = resource

ConditionHolds(c, value) ==
    CASE c.operator = "Equals"      -> value.chars = c.value.chars
      [] c.operator = "NotEquals"   -> value.chars # c.value.chars
      [] c.operator = "Contains"    -> c.value.chars \in SubSeqs(value.chars)
      [] c.operator = "GreaterThan" -> value.number > c.value.number
      [] c.operator = "LessThan"    -> value.number < c.value.number

\* All of them, on attributes the request has; "not equal" to an attribute it
\* does not have is false like everything else.
EvaluateConditions(conditions, attributes) ==
    \A c \in conditions :
        /\ c.attribute \in DOMAIN attributes
        /\ ConditionHolds(c, attributes[c.attribute])

Applies(rule, context) ==
    /\ MatchesResource(rule.pattern, context.resource)
    /\ context.action \in rule.actions
    /\ EvaluateConditions(rule.conditions, context.attributes)

\* Mutated form: what is allowed somewhere is allowed.
Allowed_FirstAllow(rules, defaultDeny, context) ==
    LET found == {rule.effect : rule \in {x \in rules : Applies(x, context)}}
    IN  "Allow" \in found \/ (found = {} /\ ~defaultDeny)

\* evaluate: the order of policies and of the rules in them plays no part.
Allowed(rules, defaultDeny, context) ==
    LET found == {rule.effect : rule \in {x \in rules : Applies(x, context)}}
    IN  IF "Deny" \in found THEN FALSE
        ELSE IF "Allow" \in found THEN TRUE
        ELSE ~defaultDeny
=============================================================================
