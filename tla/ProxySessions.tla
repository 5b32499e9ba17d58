--------------------------- MODULE ProxySessions ---------------------------
(***************************************************************************)
(* The sessions of the proxy: the Redis keys "session:<id>", and every     *)
(* handler of src/src/proxy/mod.rs that reads or writes them through       *)
(* SessionManager (src/src/auth/session.rs).                               *)
(*                                                                         *)
(* A request is a tokio task.  It gives up control at each .await, so one  *)
(* action here is one Redis command as the server executes it, or the code *)
(* a handler runs between two commands; the steps of different requests    *)
(* interleave freely.  SessionManager keeps nothing in the process: a      *)
(* session is read from Redis, changed in the handler's own copy and       *)
(* written back whole.                                                     *)
(*                                                                         *)
(* Time.  A session's expires_at never changes after Session::new, so the  *)
(* model carries left[s], the whole seconds that remain until expires_at   *)
(* (-1 once it has passed), and Redis carries the seconds a key has left.  *)
(* Tick is one second of both clocks.  Whole seconds are all the code      *)
(* counts: num_seconds() drops the fraction, so the key of a write-back    *)
(* goes up to a second before expires_at, which is inside the tick on      *)
(* which the model ends both.                                              *)
(*                                                                         *)
(* Left to other modules or abstracted: passwords and device trust of a    *)
(* login, the rate limiter, the value of the risk score (every             *)
(* recommendation is possible here), the policy's verdict (both are), and  *)
(* the audit rows, which no handler reads and whose failure is ignored.    *)
(***************************************************************************)
EXTENDS Integers

CONSTANTS
    Users,       \* accounts
    Sessions,    \* session ids, Uuid::new_v4 in Session::new
    Requests,    \* requests that can be in flight at the same time
    Duration,    \* auth.session_duration_minutes, in ticks
    RequireMfa,  \* auth.require_mfa
    Faults,      \* may a Redis command fail, or a client hang up?
    None         \* no user, no session

ASSUME DurationAssumption == Duration \in Nat \ {0}
ASSUME FlagsAssumption == RequireMfa \in BOOLEAN /\ Faults \in BOOLEAN
ASSUME NoneAssumption == None \notin Users /\ None \notin Sessions

VARIABLES
    owner,     \* owner[s]: user_id given to Session::new, None before
    left,      \* left[s]: seconds until expires_at, -1 once it has passed
    store,     \* store[s]: the key "session:s" in Redis
    token,     \* token[s]: sub of the JWT issued for session s, or None
    enrolled,  \* users with mfa_enabled and an mfa_secret
    pc,        \* pc[r]: what request r does next
    req,       \* req[r]: the local variables of its handler
    \* History of what has been promised to clients, read by no action.
    earned,    \* sessions for which a TOTP code of the owner was accepted
    verified,  \* sessions for which /auth/mfa/verify answered 200
    revoked    \* sessions whose revocation a logout answered 200 for

shared == <<owner, left, store, token, enrolled>>
history == <<earned, verified, revoked>>
vars == <<shared, pc, req, history>>

-----------------------------------------------------------------------------
(* Data.                                                                   *)

UserOrNone == Users \union {None}
Copy == [user: UserOrNone, mfa: BOOLEAN]
NoCopy == [user |-> None, mfa |-> FALSE]

\* A key holds a session and the seconds Redis will keep it; ttl = -1: no key.
Key == [data: Copy, ttl: -1..Duration]
NoKey == [data |-> NoCopy, ttl |-> -1]
Present(s) == store[s].ttl >= 0

\* Session::is_expired: now > expires_at.
IsExpired(s) == left[s] < 0

\* What get_session would hand out now.
Usable(s) == Present(s) /\ ~IsExpired(s)

Ops == {"none", "login", "access", "verify", "logout", "logout_all"}
Request == [op: Ops, sid: Sessions \union {None}, sub: UserOrNone,
            copy: Copy, mark: BOOLEAN, ttl: 0..Duration,
            unseen: SUBSET Sessions, keys: SUBSET Sessions,
            doomed: SUBSET Sessions, goal: SUBSET Sessions]
NoRequest == [op |-> "none", sid |-> None, sub |-> None,
              copy |-> NoCopy, mark |-> FALSE, ttl |-> 0,
              unseen |-> {}, keys |-> {}, doomed |-> {}, goal |-> {}]

Pcs == {"idle", "create", "get", "check", "purge", "touch", "seal", "put",
        "decide", "forward", "del", "scan", "fetch", "revoke", "reply"}

\* Types, and the one thing Redis asks of a SETEX: a positive time to live.
\* update_session casts a signed number of seconds to u64, so a late write
\* that got past its "ttl > 0" test would ask for an error or for an eternity.
TypeOK ==
    /\ owner \in [Sessions -> UserOrNone]
    /\ left \in [Sessions -> -1..Duration]
    /\ store \in [Sessions -> Key]
    /\ token \in [Sessions -> UserOrNone]
    /\ enrolled \in SUBSET Users
    /\ pc \in [Requests -> Pcs]
    /\ req \in [Requests -> Request]
    /\ \A r \in Requests :
         /\ pc[r] # "idle" => req[r].sid \in Sessions
         /\ pc[r] \in {"touch", "put"} => req[r].ttl > 0
    /\ earned \in SUBSET Sessions
    /\ verified \in SUBSET Sessions
    /\ revoked \in SUBSET Sessions

Init ==
    /\ owner = [s \in Sessions |-> None]
    /\ left = [s \in Sessions |-> Duration]
    /\ store = [s \in Sessions |-> NoKey]
    /\ token = [s \in Sessions |-> None]
    /\ enrolled = {}
    /\ pc = [r \in Requests |-> "idle"]
    /\ req = [r \in Requests |-> NoRequest]
    /\ earned = {}
    /\ verified = {}
    /\ revoked = {}

-----------------------------------------------------------------------------
(* Steps every handler is made of.                                         *)

\* The handler's local variables become q, and it goes on at label.
Proceed(r, q, label) ==
    /\ req' = [req EXCEPT ![r] = q]
    /\ pc' = [pc EXCEPT ![r] = label]

Goto(r, label) == Proceed(r, req[r], label)

\* The handler returns.
Finish(r) == Proceed(r, NoRequest, "idle")

\* SETEX session:s.
Setex(s, c, n) == store' = [store EXCEPT ![s] = [data |-> c, ttl |-> n]]

\* DEL session:s, for the sessions in S.
Del(S) == store' = [s \in Sessions |-> IF s \in S THEN NoKey ELSE store[s]]

\* A request that presents a token naming session s.  That the token has not
\* expired is not modelled: a client may stop sending one at any time.
Begin(r, s, request, label) ==
    /\ pc[r] = "idle"
    /\ token[s] # None
    /\ Proceed(r, [request EXCEPT !.sid = s, !.sub = token[s]], label)
    /\ UNCHANGED shared

\* What follows get_session: authorize goes on to decide, verify to upgrade.
AfterGet(r) == IF req[r].op = "access" THEN "decide" ELSE "seal"

-----------------------------------------------------------------------------
(* POST /auth/login, once the password and, if the account has one, the    *)
(* TOTP code have been accepted and the risk engine has not blocked it.    *)

\* Mutated form: every login counts as MFA-verified.
LoginMark_Always(u) == u \in Users

\* mfa_verified of handle_login.
LoginMark(u) == u \in enrolled

StartLogin(r, u, s) ==
    /\ pc[r] = "idle"
    /\ owner[s] = None
    /\ owner' = [owner EXCEPT ![s] = u]
    /\ Proceed(r, [NoRequest EXCEPT
                    !.op = "login", !.sid = s, !.sub = u,
                    !.copy = [user |-> u, mfa |-> FALSE], !.mark = LoginMark(u)],
               "create")
    /\ earned' = IF u \in enrolled THEN earned \union {s} ELSE earned
    /\ UNCHANGED <<left, store, token, enrolled, verified, revoked>>

\* Mutated form: the time to live is a unit short of the session's life.
Create_Short(r) ==
    /\ pc[r] = "create"
    /\ Setex(req[r].sid, req[r].copy, Duration - 1)
    /\ Goto(r, "seal")
    /\ UNCHANGED <<owner, left, token, enrolled, history>>

\* create_session's SETEX.
Create(r) ==
    /\ pc[r] = "create"
    /\ Setex(req[r].sid, req[r].copy, Duration)
    /\ Goto(r, "seal")
    /\ UNCHANGED <<owner, left, token, enrolled, history>>

-----------------------------------------------------------------------------
(* The other requests.                                                     *)

\* authorize: any request that is not for one of the proxy's own paths.
StartAccess(r, s) ==
    /\ Begin(r, s, [NoRequest EXCEPT !.op = "access"], "get")
    /\ UNCHANGED history

\* POST /auth/mfa/verify with a code that matches the account's secret.
StartVerify(r, s) ==
    /\ token[s] \in enrolled
    /\ Begin(r, s, [NoRequest EXCEPT !.op = "verify", !.mark = TRUE], "get")
    /\ earned' = earned \union {s}
    /\ UNCHANGED <<verified, revoked>>

\* POST /auth/logout.
StartLogout(r, s) ==
    /\ Begin(r, s, [NoRequest EXCEPT !.op = "logout"], "del")
    /\ UNCHANGED history

\* The live sessions of a user, what "every live session" means at this moment.
LiveSessions(u) == {s \in Sessions : owner[s] = u /\ Usable(s)}

\* POST /auth/logout_all.  goal is history: what the request is to revoke.
StartLogoutAll(r, s) ==
    /\ Begin(r, s, [NoRequest EXCEPT !.op = "logout_all", !.unseen = Sessions,
                                     !.goal = LiveSessions(token[s])], "scan")
    /\ UNCHANGED history

\* POST /auth/mfa/enroll: the token is all it asks for.  A secret is written
\* in one UPDATE; a new one takes the place of the old.
HandleMfaEnroll(s) ==
    /\ token[s] # None
    /\ enrolled' = enrolled \union {token[s]}
    /\ UNCHANGED <<owner, left, store, token, pc, req, history>>

-----------------------------------------------------------------------------
(* SessionManager::get_session, for access and verify.                     *)

\* GET finds no key: InvalidSession.
GetMiss(r) ==
    /\ pc[r] = "get"
    /\ ~Present(req[r].sid)
    /\ Finish(r)
    /\ UNCHANGED <<shared, history>>

GetHit(r) ==
    /\ pc[r] = "get"
    /\ Present(req[r].sid)
    /\ Proceed(r, [req[r] EXCEPT !.copy = store[req[r].sid].data], "check")
    /\ UNCHANGED <<shared, history>>

\* The session read has expired: delete_session, then InvalidSession.
CheckExpired(r) ==
    /\ pc[r] = "check"
    /\ IsExpired(req[r].sid)
    /\ Goto(r, "purge")
    /\ UNCHANGED <<shared, history>>

Purge(r) ==
    /\ pc[r] = "purge"
    /\ Del({req[r].sid})
    /\ Finish(r)
    /\ UNCHANGED <<owner, left, token, enrolled, history>>

\* Mutated form: the test admits the last, partial second.
WorthWriting_LastSecond(s) == left[s] >= 0

\* Mutated form: whatever time is left, it is written.
WorthWriting_Always(s) == left[s] <= Duration

\* update_session writes only if whole seconds are left.
WorthWriting(s) == left[s] > 0

\* Mutated form of the step below: activity extends the session's life.
CheckLive_Sliding(r) ==
    /\ pc[r] = "check"
    /\ ~IsExpired(req[r].sid)
    /\ left' = [left EXCEPT ![req[r].sid] = Duration]
    /\ Proceed(r, [req[r] EXCEPT !.ttl = Duration], "touch")
    /\ UNCHANGED <<owner, store, token, enrolled, history>>

\* Mutated form: whether the session has expired is not asked.
CheckLive_Expired(r) ==
    /\ pc[r] = "check"
    /\ IF WorthWriting(req[r].sid)
       THEN Proceed(r, [req[r] EXCEPT !.ttl = left[req[r].sid]], "touch")
       ELSE Goto(r, AfterGet(r))
    /\ UNCHANGED <<shared, history>>

\* update_activity, and update_session up to its SETEX.
CheckLive(r) ==
    /\ pc[r] = "check"
    /\ ~IsExpired(req[r].sid)
    /\ IF WorthWriting(req[r].sid)
       THEN Proceed(r, [req[r] EXCEPT !.ttl = left[req[r].sid]], "touch")
       ELSE Goto(r, AfterGet(r))
    /\ UNCHANGED <<shared, history>>

\* The write-back of the copy GetHit read.
Touch(r) ==
    /\ pc[r] = "touch"
    /\ Setex(req[r].sid, req[r].copy, req[r].ttl)
    /\ Proceed(r, [req[r] EXCEPT !.ttl = 0], AfterGet(r))
    /\ UNCHANGED <<owner, left, token, enrolled, history>>

-----------------------------------------------------------------------------
(* login and verify: set mfa_verified on the copy, write it, answer.  (A    *)
(* local variable that has been used for the last time is cleared.)        *)

\* Mutated form: the handler forgets session.mfa_verified = ...
Marked_Forgotten(r) == req[r].copy

Marked(r) == [req[r].copy EXCEPT !.mfa = req[r].mark]

\* The assignment, and update_session up to its SETEX; with no whole second
\* left the handler answers without having written anything.
Seal(r) ==
    /\ pc[r] = "seal"
    /\ IF WorthWriting(req[r].sid)
       THEN Proceed(r, [req[r] EXCEPT !.copy = Marked(r),
                                      !.ttl = left[req[r].sid]], "put")
       ELSE Proceed(r, [req[r] EXCEPT !.copy = NoCopy], "reply")
    /\ UNCHANGED <<shared, history>>

Put(r) ==
    /\ pc[r] = "put"
    /\ Setex(req[r].sid, req[r].copy, req[r].ttl)
    /\ Proceed(r, [req[r] EXCEPT !.ttl = 0, !.copy = NoCopy], "reply")
    /\ UNCHANGED <<owner, left, token, enrolled, history>>

-----------------------------------------------------------------------------
(* authorize after get_session, and forward_upstream.                      *)

\* The subject, policy, MFA and risk tests.  The policy's verdict and the
\* risk engine's recommendation do not depend on the session's mfa_verified.
Clears(r, allowed, recommendation) ==
    /\ req[r].copy.user = req[r].sub
    /\ allowed
    /\ RequireMfa => req[r].copy.mfa
    /\ recommendation # "Block"
    /\ recommendation = "StepUpAuth" => req[r].copy.mfa

Decide(r) ==
    /\ pc[r] = "decide"
    /\ \E allowed \in BOOLEAN, rec \in {"Allow", "StepUpAuth", "Block"} :
         IF Clears(r, allowed, rec)
         THEN Goto(r, "forward")
         ELSE Finish(r)
    /\ UNCHANGED <<shared, history>>

\* Mutated form: last_activity is saved once more after the upstream answered.
Forward_SavesSession(r) ==
    /\ pc[r] = "forward"
    /\ Setex(req[r].sid, req[r].copy, Duration)
    /\ Finish(r)
    /\ UNCHANGED <<owner, left, token, enrolled, history>>

\* The upstream has answered, or could not be reached.
Forward(r) ==
    /\ pc[r] = "forward"
    /\ Finish(r)
    /\ UNCHANGED <<shared, history>>

-----------------------------------------------------------------------------
(* delete_session for a logout, revoke_user_sessions for a logout_all.     *)

Delete(r) ==
    /\ pc[r] = "del"
    /\ Del({req[r].sid})
    /\ Goto(r, "reply")
    /\ UNCHANGED <<owner, left, token, enrolled, history>>

\* SCAN returns what it finds of some part of the keyspace, in any order.
Scan(r) ==
    /\ pc[r] = "scan"
    /\ \E batch \in SUBSET req[r].unseen :
         /\ batch # {}
         /\ Proceed(r, [req[r] EXCEPT
                         !.unseen = @ \ batch,
                         !.keys = @ \union {s \in batch : Present(s)}],
                    IF batch = req[r].unseen THEN "fetch" ELSE "scan")
    /\ UNCHANGED <<shared, history>>

\* A later SCAN fails: the iterator ends, as if there were nothing more.
ScanTruncated(r) ==
    /\ Faults
    /\ pc[r] = "scan"
    /\ req[r].unseen # Sessions
    /\ Proceed(r, [req[r] EXCEPT !.unseen = {}], "fetch")
    /\ UNCHANGED <<shared, history>>

\* Mutated form: the sweep forgets to compare user ids.
Matches_AnyUser(r, s) == ~IsExpired(s)

Matches(r, s) == store[s].data.user = req[r].sub /\ ~IsExpired(s)

\* get_user_sessions reads one key; it may be gone by now.
Fetch(r) ==
    /\ pc[r] = "fetch"
    /\ \E s \in req[r].keys :
         Proceed(r, [req[r] EXCEPT
                      !.keys = @ \ {s},
                      !.doomed = IF Present(s) /\ Matches(r, s)
                                 THEN @ \union {s} ELSE @], "fetch")
    /\ UNCHANGED <<shared, history>>

\* `if let Ok(Some(data))`: a failed GET counts as no session.
FetchLost(r) ==
    /\ Faults
    /\ pc[r] = "fetch"
    /\ \E s \in req[r].keys :
         Proceed(r, [req[r] EXCEPT !.keys = @ \ {s}], "fetch")
    /\ UNCHANGED <<shared, history>>

\* Mutated form: the caller's own session is expected to be found.
EndFetch_Found(r) ==
    /\ pc[r] = "fetch"
    /\ req[r].keys = {}
    /\ req[r].doomed # {}
    /\ Goto(r, "revoke")
    /\ UNCHANGED <<shared, history>>

EndFetch(r) ==
    /\ pc[r] = "fetch"
    /\ req[r].keys = {}
    /\ Goto(r, "revoke")
    /\ UNCHANGED <<shared, history>>

Revoke(r) ==
    /\ pc[r] = "revoke"
    /\ \E s \in req[r].doomed :
         /\ Del({s})
         /\ Proceed(r, [req[r] EXCEPT !.doomed = @ \ {s}], "revoke")
    /\ UNCHANGED <<owner, left, token, enrolled, history>>

\* Mutated form: the first session deleted ends the loop.
EndRevoke_First(r) ==
    /\ pc[r] = "revoke"
    /\ Goto(r, "reply")
    /\ UNCHANGED <<shared, history>>

EndRevoke(r) ==
    /\ pc[r] = "revoke"
    /\ req[r].doomed = {}
    /\ Goto(r, "reply")
    /\ UNCHANGED <<shared, history>>

-----------------------------------------------------------------------------
(* The 200 answer, and what it promises.                                   *)

Reply(r) ==
    /\ pc[r] = "reply"
    /\ LET q == req[r] IN
       /\ token' = IF q.op = "login" THEN [token EXCEPT ![q.sid] = q.sub]
                                     ELSE token
       /\ verified' = IF q.op = "verify" THEN verified \union {q.sid}
                                         ELSE verified
       /\ revoked' = CASE q.op = "logout" -> revoked \union {q.sid}
                       [] q.op = "logout_all" -> revoked \union q.goal
                       [] OTHER -> revoked
    /\ Finish(r)
    /\ UNCHANGED <<owner, left, store, enrolled, earned>>

-----------------------------------------------------------------------------
(* The environment.                                                        *)

\* A command fails, or the client hangs up and hyper drops the handler.  The
\* command itself may have been executed: then its own action came first.
Abort(r) ==
    /\ Faults
    /\ pc[r] # "idle"
    /\ Finish(r)
    /\ UNCHANGED <<shared, history>>

Aged(key) == IF key.ttl > 0 THEN [key EXCEPT !.ttl = @ - 1] ELSE NoKey

\* One second, while there is something for it to change.
Tick ==
    /\ \E s \in Sessions : owner[s] # None /\ (left[s] >= 0 \/ Present(s))
    /\ left' = [s \in Sessions |-> IF owner[s] # None /\ left[s] >= 0
                                   THEN left[s] - 1 ELSE left[s]]
    /\ store' = [s \in Sessions |-> Aged(store[s])]
    /\ UNCHANGED <<owner, token, enrolled, pc, req, history>>

-----------------------------------------------------------------------------

Start(r) ==
    \E s \in Sessions :
        \/ \E u \in Users : StartLogin(r, u, s)
        \/ StartAccess(r, s)
        \/ StartVerify(r, s)
        \/ StartLogout(r, s)
        \/ StartLogoutAll(r, s)

\* What a request does on its own once it has begun.
Continue(r) ==
    \/ Create(r) \/ GetMiss(r) \/ GetHit(r)
    \/ CheckExpired(r) \/ Purge(r) \/ CheckLive(r) \/ Touch(r)
    \/ Seal(r) \/ Put(r) \/ Decide(r) \/ Forward(r)
    \/ Delete(r)
    \/ Scan(r) \/ ScanTruncated(r)
    \/ Fetch(r) \/ FetchLost(r) \/ EndFetch(r)
    \/ Revoke(r) \/ EndRevoke(r)
    \/ Reply(r)

Next ==
    \/ \E r \in Requests : Start(r) \/ Continue(r) \/ Abort(r)
    \/ \E s \in Sessions : HandleMfaEnroll(s)
    \/ Tick

Spec == Init /\ [][Next]_vars

\* A step that waits for nobody but Redis: forward_upstream sets no timeout
\* (upstream.timeout_seconds is read by nothing), so the upstream may hang.
Works(r) == pc[r] # "forward" /\ Continue(r)

\* Time passes; tokio polls every task and Redis answers every command.
\* Nothing obliges a client to send, enroll or hang up.
Fairness == WF_vars(Tick) /\ \A r \in Requests : WF_vars(Works(r))

FairSpec == Spec /\ Fairness

-----------------------------------------------------------------------------
(* Properties.                                                             *)

\* MFA cannot be inherited, guessed or left over: a session marked verified,
\* and with auth.require_mfa every session a request is forwarded for, is one
\* for which its owner gave a valid TOTP code, at login or through
\* /auth/mfa/verify; and what is forwarded is forwarded for the session's own
\* user (authorize: subject_mismatch, require_mfa && !mfa_verified).
MfaIsEarned ==
    /\ \A s \in Sessions : store[s].data.mfa => s \in earned
    /\ \A r \in Requests : pc[r] = "forward" =>
         /\ req[r].sub = owner[req[r].sid]
         /\ RequireMfa => req[r].sid \in earned

\* A request that holds a copy of session s it may still write to Redis.
Holds(r, s) ==
    req[r].sid = s /\ pc[r] \in {"create", "check", "touch", "seal", "put"}

\* A session that is out of Redis, and that no handler has in its hands, never
\* comes back: no handler writes a session it did not read (get_session,
\* update_session), or writes it after it has decided.
DeadStaysDead ==
    [][\A s \in Sessions :
         ~Present(s) /\ (\A r \in Requests : ~Holds(r, s)) => ~Present(s)']_vars

\* Requests with a write of session s in their hands that nothing can stop.
LateWriters(s) ==
    {r \in Requests : req[r].sid = s /\ pc[r] \in {"create", "touch", "put"}}

\* After expires_at a session is over for good, and what can still bring its
\* key back runs out: no handler starts to write it any more (get_session and
\* update_session ask first), and one that had already decided to does so once.
LateWritesRunOut ==
    [][\A s \in Sessions : IsExpired(s) =>
         /\ IsExpired(s)'
         /\ LateWriters(s)' \subseteq LateWriters(s)
         /\ store'[s].ttl > store[s].ttl => LateWriters(s)' # LateWriters(s)]_vars

\* A session leaves Redis when its key or the session itself has expired, when
\* its own token is logged out, or in its owner's logout_all; nobody's request
\* removes the live session of somebody else (get_user_sessions' filter).
RemovalIsAuthorised ==
    [][\A s \in Sessions : Present(s) /\ ~Present(s)' =>
         \/ store[s].ttl = 0
         \/ IsExpired(s)
         \/ \E r \in Requests : /\ pc[r] \in {"del", "revoke"}
                                /\ req[r].sub = owner[s]
                                /\ pc[r] = "del" => req[r].sid = s]_vars

\* "Revokes just the session tied to the presented token" and "Revokes every
\* live session for this user": what a logout answered 200 for is of no use to
\* anybody.
RevokedHolds(s) == s \in revoked => ~Usable(s)

\* /auth/mfa/verify upgrades "the live session in place": once it has answered
\* 200, the session in Redis says so, up to its last second.
VerifiedHolds(s) ==
    s \in verified /\ Usable(s) /\ left[s] > 0 => store[s].data.mfa

\* Of the promises a session's clients got a 200 for, logout's and mfa/verify's,
\* at least one is kept.  Each comment above claims that its own always is: a
\* session that breaks both refutes them with one write-back (get_session).
SomePromiseHolds == \A s \in Sessions : RevokedHolds(s) \/ VerifiedHolds(s)

\* Sessions end, however busy they are kept: last_activity does not prolong
\* one, and a write-back that comes too late does not keep its key alive.
SessionsEnd ==
    \A s \in Sessions : owner[s] # None ~> [](~Present(s))

\* Every request is answered, or is in the hands of the upstream: the two loops
\* of logout_all come to an end too, whatever other requests do meanwhile.  (That
\* a SCAN comes round to each session once is an assumption about Redis, and of
\* what happens after the hand-over to the upstream nothing is said.)
EveryRequestDecided ==
    \A r \in Requests : pc[r] # "idle" ~> pc[r] \in {"idle", "forward"}
=============================================================================
