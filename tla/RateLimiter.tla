---------------------------- MODULE RateLimiter ----------------------------
(***************************************************************************)
(* ProxyServer::check_rate_limit (src/src/proxy/mod.rs): the fixed-window  *)
(* counter that throttles /auth/login, /auth/register and                  *)
(* /auth/mfa/verify.  Its three buckets and the source addresses have a    *)
(* Redis key each and never meet, so one key stands for all of them.       *)
(*                                                                         *)
(* INCR and EXPIRE are two commands.  Between them other requests of the   *)
(* same source run, time passes, and the second may never be sent.         *)
(***************************************************************************)
EXTENDS Integers

CONSTANTS
    Requests,  \* requests of one source that can be in flight together
    Limit,     \* requests a window admits
    Window     \* its length, in ticks

ASSUME LimitAssumption == Limit \in Nat \ {0}
ASSUME WindowAssumption == Window \in Nat \ {0}

VARIABLES
    count,   \* the counter in Redis, 0 when there is no key
    ttl,     \* ticks until the key expires, NoExpiry when it has no expiry
    pc,      \* pc[r]: what request r does next
    got,     \* got[r]: what INCR returned to r
    granted  \* history: granted[a] requests were admitted in this tick and the
             \* a ticks before it, each at the INCR that decided so

redis == <<count, ttl>>
vars == <<redis, pc, got, granted>>

NoExpiry == -1

\* Any count above the limit is like any other: the counter saturates there.
MaxCount == Limit + 1

TypeOK ==
    /\ count \in 0..MaxCount
    /\ ttl \in {NoExpiry} \union 1..Window
    /\ count = 0 => ttl = NoExpiry
    /\ pc \in [Requests -> {"idle", "expire", "decide"}]
    /\ got \in [Requests -> 0..MaxCount]
    /\ granted \in [0..(Window - 1) -> Nat]

Init ==
    /\ count = 0
    /\ ttl = NoExpiry
    /\ pc = [r \in Requests |-> "idle"]
    /\ got = [r \in Requests |-> 0]
    /\ granted = [a \in 0..(Window - 1) |-> 0]

-----------------------------------------------------------------------------

\* Mutated form: the limit itself is exceeded one request late.
Exceeds_Late(n) == n > Limit + 1

Exceeds(n) == n > Limit

\* Mutated form: every request sends EXPIRE, a sliding window.
SetsExpiry_Always(n) == n >= 1

SetsExpiry(n) == n = 1

\* INCR creates the key without an expiry, or counts one more.
Incr(r) ==
    /\ pc[r] = "idle"
    /\ LET n == IF count < MaxCount THEN count + 1 ELSE MaxCount IN
       /\ count' = n
       /\ got' = [got EXCEPT ![r] = n]
       /\ pc' = [pc EXCEPT ![r] = IF SetsExpiry(n) THEN "expire" ELSE "decide"]
       /\ granted' = IF Exceeds(n) THEN granted
                                   ELSE [a \in 0..(Window - 1) |-> granted[a] + 1]
    /\ UNCHANGED ttl

\* Mutated form: a second more, to be safe.
Expire_Padded(r) ==
    /\ pc[r] = "expire"
    /\ ttl' = Window + 1
    /\ pc' = [pc EXCEPT ![r] = "decide"]
    /\ UNCHANGED <<count, got, granted>>

\* EXPIRE, which does nothing if the key is gone.
Expire(r) ==
    /\ pc[r] = "expire"
    /\ ttl' = IF count > 0 THEN Window ELSE ttl
    /\ pc' = [pc EXCEPT ![r] = "decide"]
    /\ UNCHANGED <<count, got, granted>>

\* RateLimitExceeded, or on with the request.
Decide(r) ==
    /\ pc[r] = "decide"
    /\ pc' = [pc EXCEPT ![r] = "idle"]
    /\ got' = [got EXCEPT ![r] = 0]
    /\ UNCHANGED <<redis, granted>>

\* EXPIRE fails, or the client hangs up first: the handler ends here.
Abort(r) ==
    /\ pc[r] = "expire"
    /\ pc' = [pc EXCEPT ![r] = "idle"]
    /\ got' = [got EXCEPT ![r] = 0]
    /\ UNCHANGED <<redis, granted>>

\* One tick; the key goes when its last one has passed.
Tick ==
    /\ ttl' = IF ttl > 1 THEN ttl - 1 ELSE NoExpiry
    /\ count' = IF ttl = 1 THEN 0 ELSE count
    /\ granted' = [a \in 0..(Window - 1) |-> IF a = 0 THEN 0 ELSE granted[a - 1]]
    /\ UNCHANGED <<pc, got>>

Next ==
    \/ \E r \in Requests : Incr(r) \/ Expire(r) \/ Decide(r) \/ Abort(r)
    \/ Tick

Spec == Init /\ [][Next]_vars

\* Time passes, and a handler that waits for Redis is resumed.
Fairness ==
    WF_vars(Tick) /\ \A r \in Requests : WF_vars(Expire(r)) /\ WF_vars(Decide(r))

FairSpec == Spec /\ Fairness

-----------------------------------------------------------------------------
(* Properties.                                                             *)

\* What a fixed window is good for: a burst can straddle two windows, never
\* three, so the INCRs of no Window ticks in a row admit more than twice the
\* limit, however INCR, EXPIRE and the clock interleave.  (Handlers go on when
\* Redis's replies reach them; if some are held up for windows, more of them may
\* go on at one moment than were admitted in any one stretch.)
BurstIsBounded == granted[Window - 1] <= 2 * Limit

\* A window once begun is not extended: the requests of a source that keeps
\* trying while it is throttled do not put off the moment it is let in again.
WindowNotExtended == [][ttl # NoExpiry => ttl' <= ttl]_vars

\* A counter nobody is going to give an expiry.
Orphaned ==
    count > 0 /\ ttl = NoExpiry /\ \A r \in Requests : pc[r] # "expire"

\* As long as the EXPIRE of each window's first request gets through, a source
\* that was throttled is let in again, even if it never stops trying.
ThrottlingEnds == count > Limit ~> count = 0 \/ Orphaned

\* "Fixed-window counter": every window ends.
EveryWindowEnds == count > 0 ~> count = 0
=============================================================================
