-------------------------- MODULE SessionPromises --------------------------
(***************************************************************************)
(* Exactly when an answer may turn out untrue.  ProxySessions' runs show   *)
(* that a session revoked with a 200 can come back, and that one verified  *)
(* with a 200 can be unverified again.  Here each such session has an      *)
(* excuse: a handler held a copy of it at the very moment it was deleted   *)
(* or upgraded, or the sweep of a logout_all lost a command.  Without an   *)
(* excuse both promises are kept, however many requests run.               *)
(*                                                                         *)
(* And what authorize may rely on: it decides on a session it read some    *)
(* time ago, so all it can know is that there was a moment, since the      *)
(* request began, at which the session would have let the request pass.    *)
(*                                                                         *)
(* excused and entitled are history: they are worked out from each step of *)
(* ProxySessions and read by none.                                         *)
(***************************************************************************)
EXTENDS SessionRefinement

VARIABLES
    excused,  \* sessions whose promises may be broken
    entitled  \* requests whose session has been good enough since they began

promiseVars == <<vars, excused, entitled>>

\* Another request holds a copy of session s that it may write back.
HeldByOther(r, s) == \E x \in Requests \ {r} : Holds(x, s)

\* What r deletes in this step while somebody holds a copy of it.
RevokedUnderway(r) ==
    IF Delete(r) \/ Revoke(r)
    THEN {s \in Sessions : Present(s) /\ ~Present(s)' /\ HeldByOther(r, s)}
    ELSE {}

\* What r upgrades in this step while somebody holds an older copy of it.
VerifiedUnderway(r) ==
    IF Put(r) /\ req[r].op = "verify"
    THEN {s \in {req[r].sid} : HeldByOther(r, s)}
    ELSE {}

\* What the sweep of r loses in this step to a failed command.
LostBySweep(r) ==
    CASE ScanTruncated(r) -> req[r].unseen
      [] FetchLost(r)     -> req[r].keys \ req'[r].keys
      [] OTHER            -> {}

Excuses ==
    UNION {RevokedUnderway(r) \union VerifiedUnderway(r) \union LostBySweep(r)
             : r \in Requests}

\* The session of r, as it stands now, is one to forward requests for.
Entitles(r) ==
    /\ req[r].op = "access"
    /\ Usable(req[r].sid)
    /\ RequireMfa => store[req[r].sid].data.mfa

PromiseInit == Init /\ excused = {} /\ entitled = {}
PromiseNext ==
    /\ Next
    /\ excused' = excused \union Excuses
    /\ entitled' = {r \in Requests : pc'[r] # "idle"
                                     /\ (r \in entitled \/ Entitles(r)')}
PromiseSpec == PromiseInit /\ [][PromiseNext]_promiseVars

\* The scheduling that ProxySessions assumes.
FairPromiseSpec == PromiseSpec /\ Fairness

-----------------------------------------------------------------------------
(* Properties.                                                             *)

\* "Revokes just the session tied to the presented token", "Revokes every live
\* session for this user": a session revoked with a 200 is of no use to
\* anybody, unless a request was holding it (get_session, create_session) when
\* it was deleted or the sweep of logout_all lost a command about it.
RevokedUnlessExcused == \A s \in revoked \ excused : ~Usable(s)

\* "upgrading the live session in place": once /auth/mfa/verify has answered
\* 200 the session in Redis says so up to its last second, unless a request
\* was holding an older copy when it was upgraded (handle_mfa_verify).
VerifiedUnlessExcused ==
    \A s \in verified \ excused :
        Present(s) /\ left[s] > 0 => store[s].data.mfa

\* "valid JWT -> live (non-expired) session -> policy allow" (authorize): no
\* request is forwarded whose session was expired, revoked or, with
\* require_mfa, unverified from the request's beginning to its end, however
\* late Redis executes the write-backs of other requests.
ForwardedWasEntitled ==
    \A r \in Requests : pc[r] = "forward" => r \in entitled
=============================================================================
