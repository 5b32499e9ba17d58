-------------------------- MODULE MCAuthorizeGate --------------------------
(***************************************************************************)
(* Rules, paths and times that make every branch of the gate happen: rules *)
(* for everything, for a prefix and for one path, with and without a       *)
(* condition, of both effects; a method that the default rule leaves out;  *)
(* ages on both sides of the two steps of the session-age risk; an hour    *)
(* inside and an hour outside "unusual hours".                             *)
(***************************************************************************)
EXTENDS AuthorizeGate

Rule(star, text, actions, conditions, effect) ==
    [pattern |-> [star |-> star, text |-> text], actions |-> actions,
     conditions |-> conditions, effect |-> effect]

Elsewhere == [attribute |-> "country", operator |-> "NotEquals",
              value |-> [chars |-> <<"d", "e">>, number |-> 0]]

Moved == [attribute |-> "ip_changed", operator |-> "Equals",
          value |-> [chars |-> <<"y">>, number |-> 0]]

MCRules ==
    { Rule(TRUE, <<"a">>, {"get"}, {}, "Deny"),
      Rule(FALSE, <<"a", "b">>, {"trace"}, {}, "Allow"),
      Rule(FALSE, <<"a", "b">>, {"get", "trace"}, {}, "Deny"),
      Rule(TRUE, <<>>, {"post"}, {Moved}, "Deny"),
      Rule(TRUE, <<>>, {"trace"}, {Elsewhere}, "Allow") }

MCResources == {<<"a">>, <<"a", "b">>, <<"b">>}
MCActions == {"get", "post", "trace"}
MCHours == {3, 12}
MCAges == {0, 60, 61, 121}
=============================================================================
