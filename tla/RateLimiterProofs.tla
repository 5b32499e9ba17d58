------------------------- MODULE RateLimiterProofs -------------------------
(***************************************************************************)
(* Proofs about RateLimiter, for every limit, window and number of         *)
(* requests in flight.                                                     *)
(***************************************************************************)
EXTENDS RateLimiter, TLAPS

-----------------------------------------------------------------------------

\* One request at a time has an EXPIRE to send, and until it has, the key it
\* created is there without an expiry: nothing can remove it, so nobody else
\* sees a count of 1.
OneOwner ==
    /\ \A r \in Requests : pc[r] = "expire" => count >= 1 /\ ttl = NoExpiry
    /\ \A r, s \in Requests : pc[r] = "expire" /\ pc[s] = "expire" => r = s

IInv == TypeOK /\ OneOwner

\* The invariant holds before the first request.
LEMMA InitIInv == Init => IInv
BY LimitAssumption, WindowAssumption
   DEF Init, IInv, TypeOK, OneOwner, MaxCount, NoExpiry

\* A request that gets on keeps the requests' local state well typed.
LEMMA LocalType ==
    ASSUME TypeOK, NEW r \in Requests,
           NEW label \in {"idle", "expire", "decide"}, NEW n \in 0..MaxCount,
           pc' = [pc EXCEPT ![r] = label],
           got' = [got EXCEPT ![r] = n] \/ got' = got
    PROVE  /\ pc' \in [Requests -> {"idle", "expire", "decide"}]
           /\ got' \in [Requests -> 0..MaxCount]
BY DEF TypeOK

\* INCR makes its sender the owner of the expiry if, and only if, there was no
\* key, and then nobody owned it.
LEMMA IncrIInv ==
    ASSUME IInv, NEW r \in Requests, Incr(r)
    PROVE  IInv'
<1> DEFINE n == IF count < MaxCount THEN count + 1 ELSE MaxCount
<1>1. /\ n \in 1..MaxCount /\ n \in 0..MaxCount
      /\ n = 1 <=> count = 0
      /\ count' = n /\ ttl' = ttl
  BY LimitAssumption DEF IInv, TypeOK, Incr, MaxCount
<1>2. pc' = [pc EXCEPT ![r] = IF SetsExpiry(n) THEN "expire" ELSE "decide"]
  BY DEF Incr
<1>3. /\ pc' \in [Requests -> {"idle", "expire", "decide"}]
      /\ got' \in [Requests -> 0..MaxCount]
  <2>1. got' = [got EXCEPT ![r] = n]
    BY DEF Incr
  <2> HIDE DEF n
  <2> QED
    BY <1>1, <1>2, <2>1, LocalType DEF IInv
<1>4. granted' \in [0..(Window - 1) -> Nat]
  <2>1. \/ granted' = granted
        \/ granted' = [a \in 0..(Window - 1) |-> granted[a] + 1]
    BY DEF Incr
  <2> QED
    BY <2>1 DEF IInv, TypeOK
<1>5. TypeOK'
  <2> HIDE DEF n
  <2> QED
    BY <1>1, <1>3, <1>4 DEF IInv, TypeOK
<1>6. CASE n = 1
  <2>1. \A s \in Requests : pc[s] # "expire"
    BY <1>1, <1>6 DEF IInv, OneOwner
  <2>2. \A s \in Requests : pc'[s] = "expire" => s = r
    BY <1>2, <2>1 DEF IInv, TypeOK
  <2>3. ttl' = NoExpiry
    BY <1>1, <1>6 DEF IInv, TypeOK
  <2> QED
    BY <1>1, <1>5, <2>2, <2>3 DEF IInv, OneOwner
<1>7. CASE n # 1
  <2>1. \A s \in Requests : pc'[s] = "expire" => pc[s] = "expire"
    BY <1>2, <1>7 DEF IInv, TypeOK, SetsExpiry
  <2> QED
    BY <1>1, <1>5, <2>1 DEF IInv, OneOwner
<1> QED
  BY <1>6, <1>7

\* EXPIRE, and any other way for a request to get on, leaves at most one owner.
LEMMA LocalIInv ==
    ASSUME IInv, NEW r \in Requests, Expire(r) \/ Decide(r) \/ Abort(r)
    PROVE  IInv'
<1>1. /\ pc' \in [Requests -> {"idle", "expire", "decide"}]
      /\ got' \in [Requests -> 0..MaxCount]
  <2>1. 0 \in 0..MaxCount
    BY LimitAssumption DEF MaxCount
  <2> QED
    BY <2>1, LocalType DEF IInv, Expire, Decide, Abort
<1>2. \A s \in Requests : pc'[s] = "expire" => pc[s] = "expire" /\ s # r
  BY DEF IInv, TypeOK, Expire, Decide, Abort
<1>3. CASE Expire(r)
  <2>1. /\ count >= 1 /\ count # 0 /\ count' = count /\ ttl' = Window /\ granted' = granted
        /\ \A s \in Requests : pc[s] = "expire" => s = r
    BY <1>3, LimitAssumption DEF IInv, OneOwner, TypeOK, Expire, MaxCount
  <2>2. TypeOK'
    BY <1>1, <2>1, WindowAssumption DEF IInv, TypeOK
  <2> QED
    BY <1>2, <2>1, <2>2 DEF IInv, OneOwner
<1>4. CASE Decide(r) \/ Abort(r)
  <2>1. count' = count /\ ttl' = ttl /\ granted' = granted
    BY <1>4 DEF Decide, Abort, redis
  <2>2. TypeOK'
    BY <1>1, <2>1 DEF IInv, TypeOK
  <2> QED
    BY <1>2, <2>1, <2>2 DEF IInv, OneOwner
<1> QED
  BY <1>3, <1>4

\* The clock removes a key only once it has an expiry, so no key that somebody
\* is about to give one.
LEMMA TickIInv ==
    ASSUME IInv, Tick
    PROVE  IInv'
<1>1. granted' \in [0..(Window - 1) -> Nat]
  <2>1. \A a \in 0..(Window - 1) : a # 0 => a - 1 \in 0..(Window - 1)
    BY WindowAssumption
  <2> QED
    BY <2>1 DEF IInv, TypeOK, Tick
<1>2. /\ count' \in 0..MaxCount
      /\ ttl' \in {NoExpiry} \union 1..Window
      /\ count' = 0 => ttl' = NoExpiry
      /\ ttl = NoExpiry => count' = count /\ ttl' = NoExpiry
  BY LimitAssumption, WindowAssumption
     DEF IInv, TypeOK, Tick, NoExpiry, MaxCount
<1>3. TypeOK'
  BY <1>1, <1>2 DEF IInv, TypeOK, Tick
<1> QED
  BY <1>2, <1>3 DEF IInv, OneOwner, Tick

\* The invariant is inductive.
LEMMA NextIInv == IInv /\ [Next]_vars => IInv'
<1> SUFFICES ASSUME IInv, [Next]_vars
             PROVE  IInv'
  OBVIOUS
<1>1. CASE UNCHANGED vars
  BY <1>1 DEF vars, redis, IInv, TypeOK, OneOwner
<1> QED
  BY <1>1, IncrIInv, LocalIInv, TickIInv DEF Next

-----------------------------------------------------------------------------
(* Theorems.                                                               *)

\* The invariant holds in every reachable state.
THEOREM IInvAlways == Spec => []IInv
BY InitIInv, NextIInv, PTL DEF Spec

\* Counter and expiry stay in range, and a key that is gone has no expiry.
THEOREM TypeCorrect == Spec => []TypeOK
<1>1. IInv => TypeOK
  BY DEF IInv
<1> QED
  BY <1>1, IInvAlways, PTL

\* A window that has begun is never extended, by however many requests.
THEOREM WindowsNotExtended == Spec => WindowNotExtended
<1>1. ASSUME IInv, [Next]_vars, ttl # NoExpiry
      PROVE  ttl' <= ttl
  <2>1. ttl \in 1..Window
    BY <1>1 DEF IInv, TypeOK
  <2>2. ASSUME NEW r \in Requests
        PROVE  ~Expire(r)
    BY <1>1 DEF IInv, OneOwner, Expire
  <2>3. CASE Tick
    BY <2>1, <2>3, WindowAssumption DEF Tick, NoExpiry
  <2>4. CASE ttl' = ttl
    BY <2>1, <2>4, WindowAssumption
  <2> QED
    BY <1>1, <2>2, <2>3, <2>4 DEF Next, Incr, Decide, Abort, redis, vars
<1>2. IInv /\ [Next]_vars => [ttl # NoExpiry => ttl' <= ttl]_vars
  BY <1>1
<1> QED
  BY <1>2, IInvAlways, PTL DEF Spec, WindowNotExtended

-----------------------------------------------------------------------------
(* Bursts.                                                                 *)

\* The requests that the key there is now has admitted.
Counted == IF Exceeds(count) THEN Limit ELSE count

\* The last key that expired did so d ticks ago (or longer, if d = Window).
\* Since then only Counted requests were admitted; the key before admitted
\* at most Limit, and whatever was before that is more than Window ticks ago,
\* because an expiry that has yet ttl ticks to go was set after that key.
Straddles(d) ==
    /\ \A a \in 0..(Window - 1) : /\ a < d => granted[a] <= Counted
                                  /\ granted[a] <= Counted + Limit
    /\ ttl # NoExpiry => d + ttl >= Window

BurstInv == \E d \in 0..Window : Straddles(d)

\* Nothing was admitted before the first request.
LEMMA InitBurst == Init => BurstInv
<1> SUFFICES ASSUME Init
             PROVE  Straddles(Window)
  BY WindowAssumption DEF BurstInv
<1>1. Counted = 0
  BY LimitAssumption DEF Init, Counted, Exceeds
<1> QED
  BY <1>1, LimitAssumption, WindowAssumption DEF Init, Straddles

\* A request that is admitted is counted by the key.
LEMMA IncrBurst ==
    ASSUME IInv, NEW d \in 0..Window, Straddles(d), NEW r \in Requests, Incr(r)
    PROVE  Straddles(d)'
<1> DEFINE n == IF count < MaxCount THEN count + 1 ELSE MaxCount
<1>1. /\ count \in 0..MaxCount /\ granted \in [0..(Window - 1) -> Nat]
      /\ count' = n /\ ttl' = ttl
      /\ granted' = IF Exceeds(n) THEN granted
                    ELSE [a \in 0..(Window - 1) |-> granted[a] + 1]
  BY DEF IInv, TypeOK, Incr
<1>2. CASE Exceeds(n)
  <2>1. Counted' = Limit /\ Counted <= Limit /\ Counted \in Nat
    BY <1>1, <1>2, LimitAssumption DEF Counted, Exceeds, MaxCount
  <2>2. granted' = granted
    BY <1>1, <1>2
  <2> HIDE DEF n
  <2> QED
    BY <1>1, <2>1, <2>2, LimitAssumption, WindowAssumption DEF Straddles
<1>3. CASE ~Exceeds(n)
  <2>1. Counted' = Counted + 1 /\ Counted \in Nat
    BY <1>1, <1>3, LimitAssumption DEF Counted, Exceeds, MaxCount
  <2>2. \A a \in 0..(Window - 1) : granted'[a] = granted[a] + 1
    BY <1>1, <1>3
  <2> HIDE DEF n
  <2>3. ASSUME NEW a \in 0..(Window - 1)
        PROVE  /\ a < d => granted'[a] <= Counted'
               /\ granted'[a] <= Counted' + Limit
    <3>1. granted[a] \in Nat
      BY <1>1
    <3>2. PICK g \in Nat, c \in Nat : g = granted[a] /\ c = Counted
      BY <2>1, <3>1, Zenon
    <3>3. granted'[a] = g + 1 /\ Counted' = c + 1
      BY <2>1, <2>2, <3>2, Zenon
    <3>4. (a < d => g <= c) /\ g <= c + Limit
      BY <3>2, Zenon DEF Straddles
    <3>5. (a < d => g + 1 <= c + 1) /\ g + 1 <= (c + 1) + Limit
      BY <3>4, LimitAssumption
    <3> QED
      BY <3>3, <3>5, Zenon
  <2>4. (ttl # NoExpiry => d + ttl >= Window)'
    BY <1>1 DEF Straddles
  <2> QED
    BY <2>3, <2>4, Zenon DEF Straddles
<1> QED
  BY <1>2, <1>3

\* EXPIRE starts the countdown of a key that is there; nothing else moves.
LEMMA LocalBurst ==
    ASSUME IInv, NEW d \in 0..Window, Straddles(d), NEW r \in Requests,
           Expire(r) \/ Decide(r) \/ Abort(r)
    PROVE  Straddles(d)'
<1>1. /\ count' = count /\ granted' = granted
      /\ ttl' = ttl \/ ttl' = Window
  BY DEF Expire, Decide, Abort, redis
<1>2. Counted' = Counted
  BY <1>1 DEF Counted
<1> QED
  BY <1>1, <1>2, WindowAssumption DEF Straddles

\* When the clock ticks everything is a tick older, and a key that goes was
\* given its expiry at least Window - 1 ticks ago: all that was admitted
\* since is its own.
LEMMA TickBurst ==
    ASSUME IInv, NEW d \in 0..Window, Straddles(d), Tick
    PROVE  BurstInv'
<1>1. /\ count \in 0..MaxCount /\ granted \in [0..(Window - 1) -> Nat]
      /\ ttl \in {NoExpiry} \union 1..Window
      /\ Counted \in 0..Limit
  BY LimitAssumption DEF IInv, TypeOK, Counted, Exceeds, MaxCount
<1>2. \A a \in 0..(Window - 1) :
        /\ a = 0 => granted'[a] = 0
        /\ a # 0 => /\ a - 1 \in 0..(Window - 1)
                    /\ granted'[a] = granted[a - 1]
  BY WindowAssumption DEF Tick
<1>3. CASE ttl = 1
  <2>1. count' = 0 /\ ttl' = NoExpiry /\ Counted' = 0
    BY <1>3, LimitAssumption DEF Tick, Counted, Exceeds
  <2>2. d >= Window - 1
    BY <1>3, WindowAssumption DEF Straddles, NoExpiry
  <2>3. \A a \in 0..(Window - 1) : granted'[a] <= Limit
    <3> SUFFICES ASSUME NEW a \in 0..(Window - 1)
                 PROVE  granted'[a] <= Limit
      OBVIOUS
    <3>1. CASE a = 0
      BY <1>2, <3>1, LimitAssumption
    <3>2. CASE a # 0
      <4>1. a - 1 \in 0..(Window - 1) /\ a - 1 < d
        BY <2>2, <3>2, WindowAssumption
      <4>2. granted'[a] = granted[a - 1] /\ granted[a - 1] <= Counted
        BY <1>2, <3>2, <4>1 DEF Straddles
      <4>3. granted[a - 1] \in Nat
        BY <1>1, <4>1
      <4>4. PICK g \in Nat, c \in 0..Limit : g = granted[a - 1] /\ c = Counted
        BY <1>1, <4>3, Zenon
      <4>5. g <= c
        BY <4>2, <4>4, Zenon
      <4>6. g <= Limit
        BY <4>5, LimitAssumption
      <4> QED
        BY <4>2, <4>4, <4>6, Zenon
    <3> QED
      BY <3>1, <3>2
  <2>4. Straddles(0)'
    BY <2>1, <2>3, LimitAssumption, WindowAssumption DEF Straddles
  <2> QED
    BY <2>4, WindowAssumption DEF BurstInv
<1>4. CASE ttl # 1
  <2>1. PICK e \in 0..Window : e = IF d < Window THEN d + 1 ELSE Window
    BY WindowAssumption
  <2>2. /\ count' = count /\ Counted' = Counted
        /\ ttl' # NoExpiry => ttl # NoExpiry /\ ttl' = ttl - 1
    BY <1>1, <1>4 DEF Tick, Counted, NoExpiry
  <2>3. ttl' # NoExpiry => e + ttl' >= Window
    BY <1>1, <1>4, <2>1, <2>2, WindowAssumption DEF Straddles, Tick, NoExpiry
  <2>4. ASSUME NEW a \in 0..(Window - 1)
        PROVE  /\ a < e => granted'[a] <= Counted'
               /\ granted'[a] <= Counted' + Limit
    <3>1. CASE a = 0
      BY <1>1, <1>2, <2>2, <3>1, LimitAssumption
    <3>2. CASE a # 0
      BY <1>1, <1>2, <2>1, <2>2, <3>2, LimitAssumption, WindowAssumption
         DEF Straddles
    <3> QED
      BY <3>1, <3>2
  <2>5. Straddles(e)'
    BY <2>3, <2>4 DEF Straddles
  <2> QED
    BY <2>5 DEF BurstInv
<1> QED
  BY <1>3, <1>4

\* Every step keeps it.
LEMMA NextBurst == IInv /\ BurstInv /\ [Next]_vars => BurstInv'
<1> SUFFICES ASSUME IInv, [Next]_vars, NEW d \in 0..Window, Straddles(d)
             PROVE  BurstInv'
  BY DEF BurstInv
<1>1. CASE UNCHANGED vars
  <2>1. Straddles(d)'
    BY <1>1 DEF vars, redis, Straddles, Counted
  <2> QED
    BY <2>1, WindowAssumption DEF BurstInv
<1>2. ASSUME NEW r \in Requests, Incr(r) \/ Expire(r) \/ Decide(r) \/ Abort(r)
      PROVE  BurstInv'
  <2>1. Straddles(d)'
    BY <1>2, IncrBurst, LocalBurst
  <2> QED
    BY <2>1, WindowAssumption DEF BurstInv
<1> QED
  BY <1>1, <1>2, TickBurst DEF Next

\* However INCR, EXPIRE and the clock interleave, and even when an EXPIRE is
\* lost, the INCRs of no Window ticks in a row admit more than twice the limit.
THEOREM BurstBounded == Spec => []BurstIsBounded
<1>1. IInv /\ BurstInv => BurstIsBounded
  <2> SUFFICES ASSUME IInv, NEW d \in 0..Window, Straddles(d)
               PROVE  BurstIsBounded
    BY DEF BurstInv
  <2>1. Counted \in 0..Limit
    BY LimitAssumption DEF IInv, TypeOK, Counted, Exceeds, MaxCount
  <2>2. Window - 1 \in 0..(Window - 1) /\ granted[Window - 1] \in Nat
    BY WindowAssumption DEF IInv, TypeOK
  <2>3. granted[Window - 1] <= Counted + Limit
    BY <2>2 DEF Straddles
  <2> QED
    BY <2>1, <2>2, <2>3, LimitAssumption DEF BurstIsBounded
<1> QED
  BY <1>1, InitBurst, NextBurst, IInvAlways, PTL DEF Spec

-----------------------------------------------------------------------------
(* Counters nobody is going to give an expiry.                             *)

\* A counter loses its expiry in one way only: the request that created the key
\* ends before its EXPIRE, because the command fails or its client hangs up.
\* No interleaving of requests that get through does it.
THEOREM OrphansByAbortOnly ==
    Spec => [][Orphaned' => Orphaned \/ \E r \in Requests : Abort(r)]_vars
<1>1. ASSUME IInv, Next, Orphaned', ~Orphaned, ~\E r \in Requests : Abort(r)
      PROVE  FALSE
  <2>1. /\ count' > 0 /\ ttl' = NoExpiry
        /\ \A s \in Requests : pc'[s] # "expire"
        /\ count \in 0..MaxCount /\ ttl \in {NoExpiry} \union 1..Window
    BY <1>1 DEF Orphaned, IInv, TypeOK
  <2>2. ASSUME NEW r \in Requests, Incr(r)
        PROVE  FALSE
    <3>1. /\ pc[r] = "idle" /\ ttl = NoExpiry
          /\ \A s \in Requests \ {r} : pc'[s] = pc[s]
      BY <1>1, <2>1, <2>2 DEF Incr, IInv, TypeOK
    <3>2. \A s \in Requests : pc[s] # "expire"
      BY <2>1, <3>1
    <3>3. count = 0
      BY <1>1, <2>1, <3>1, <3>2, LimitAssumption DEF Orphaned, MaxCount
    <3>4. pc'[r] = "expire"
      BY <1>1, <2>2, <3>3, LimitAssumption
         DEF Incr, SetsExpiry, MaxCount, IInv, TypeOK
    <3> QED
      BY <2>1, <3>4
  <2>3. ASSUME NEW r \in Requests, Expire(r)
        PROVE  FALSE
    BY <1>1, <2>1, <2>3, WindowAssumption
       DEF Expire, IInv, OneOwner, NoExpiry
  <2>4. ASSUME NEW r \in Requests, Decide(r)
        PROVE  FALSE
    BY <1>1, <2>1, <2>4 DEF Decide, redis, Orphaned, IInv, TypeOK
  <2>5. CASE Tick
    <3>1. count > 0 /\ ttl = NoExpiry /\ pc' = pc
      BY <2>1, <2>5, WindowAssumption, LimitAssumption DEF Tick, NoExpiry, MaxCount
    <3> QED
      BY <1>1, <2>1, <3>1 DEF Orphaned
  <2> QED
    BY <1>1, <2>2, <2>3, <2>4, <2>5 DEF Next
<1>2. IInv /\ [Next]_vars =>
        [Orphaned' => Orphaned \/ \E r \in Requests : Abort(r)]_vars
  BY <1>1
<1> QED
  BY <1>2, IInvAlways, PTL DEF Spec

\* And then it never gets one: the source is throttled for ever once the count
\* is above the limit, whatever later requests do.
THEOREM OrphansStay == Spec => [](Orphaned => []Orphaned)
<1>1. IInv /\ Orphaned /\ [Next]_vars => Orphaned'
  <2> SUFFICES ASSUME IInv, Orphaned, [Next]_vars
               PROVE  Orphaned'
    OBVIOUS
  <2>1. /\ count \in 1..MaxCount /\ ttl = NoExpiry
        /\ \A s \in Requests : pc[s] # "expire"
    BY LimitAssumption DEF Orphaned, IInv, TypeOK, MaxCount
  <2>2. CASE UNCHANGED vars
    BY <2>2 DEF vars, redis, Orphaned
  <2>3. ASSUME NEW r \in Requests, Incr(r)
        PROVE  Orphaned'
    <3>1. count' \in 1..MaxCount /\ count' # 1 /\ ttl' = NoExpiry
      BY <2>1, <2>3, LimitAssumption DEF Incr, MaxCount
    <3>2. pc' = [pc EXCEPT ![r] = IF SetsExpiry(count') THEN "expire"
                                                        ELSE "decide"]
      BY <2>3 DEF Incr
    <3>3. \A s \in Requests : pc'[s] # "expire"
      BY <2>1, <3>1, <3>2 DEF SetsExpiry, IInv, TypeOK
    <3> QED
      BY <3>1, <3>3, LimitAssumption DEF Orphaned, MaxCount
  <2>4. ASSUME NEW r \in Requests, Expire(r) \/ Decide(r) \/ Abort(r)
        PROVE  Orphaned'
    BY <2>1, <2>4, LimitAssumption
       DEF Expire, Decide, Abort, redis, Orphaned, IInv, TypeOK, MaxCount
  <2>5. CASE Tick
    BY <2>1, <2>5, LimitAssumption DEF Tick, Orphaned, NoExpiry, MaxCount
  <2> QED
    BY <2>2, <2>3, <2>4, <2>5 DEF Next
<1> QED
  BY <1>1, IInvAlways, PTL DEF Spec
=============================================================================
