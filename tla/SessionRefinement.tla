------------------------- MODULE SessionRefinement -------------------------
(***************************************************************************)
(* ProxySessions implements SessionLife: whatever its Redis commands,      *)
(* handlers, faults and clocks do, a token's holder sees a register with   *)
(* stale writers and nothing worse.                                        *)
(***************************************************************************)
EXTENDS ProxySessions

ValueOf(mfa) == IF mfa THEN "verified" ELSE "open"

\* What a request that presents session s would find in get_session.
LifeOf(s) ==
    IF IsExpired(s) THEN "over"
    ELSE IF Present(s) THEN ValueOf(store[s].data.mfa)
    ELSE "absent"

\* What request r may write to its session: the copy it holds, and the mark
\* that login and verify put on it.
MayWrite(r) ==
    (IF pc[r] \in {"create", "check", "touch", "put"}
     THEN {ValueOf(req[r].copy.mfa)} ELSE {})
    \union
    (IF \/ pc[r] \in {"create", "seal"}
        \/ pc[r] \in {"check", "touch"} /\ req[r].op = "verify"
     THEN {ValueOf(req[r].mark)} ELSE {})

PendingOf(s) ==
    IF IsExpired(s) THEN {}
    ELSE UNION {MayWrite(r) : r \in {x \in Requests : req[x].sid = s}}

lifeBar == [s \in Sessions |-> LifeOf(s)]
pendingBar == [s \in Sessions |-> PendingOf(s)]

Life == INSTANCE SessionLife WITH life <- lifeBar, pending <- pendingBar

\* For whoever holds a token, sessions behave as SessionLife says: what is over
\* never returns, nothing is marked verified without a code, a closed session
\* comes back only from a handler that had read it before (get_session,
\* update_session, delete_session).
ImplementsSessionLife == Life!LifeSpec
=============================================================================
