------------------------ MODULE ProxySessionsProofs ------------------------
(***************************************************************************)
(* Proofs about ProxySessions, for every number of users, sessions and     *)
(* concurrent requests, every session duration, with or without faults.    *)
(***************************************************************************)
EXTENDS ProxySessions, TLAPS

-----------------------------------------------------------------------------
(* Type correctness.                                                       *)

\* The part of TypeOK that the requests' control and local variables make up.
LocalsOK ==
    /\ pc \in [Requests -> Pcs]
    /\ req \in [Requests -> Request]
    /\ \A r \in Requests :
         /\ pc[r] # "idle" => req[r].sid \in Sessions
         /\ pc[r] \in {"touch", "put"} => req[r].ttl > 0

SharedOK ==
    /\ owner \in [Sessions -> UserOrNone]
    /\ left \in [Sessions -> -1..Duration]
    /\ store \in [Sessions -> Key]
    /\ token \in [Sessions -> UserOrNone]
    /\ enrolled \in SUBSET Users

HistoryOK ==
    /\ earned \in SUBSET Sessions
    /\ verified \in SUBSET Sessions
    /\ revoked \in SUBSET Sessions

\* TypeOK is the conjunction of its three parts.
LEMMA TypeParts == TypeOK <=> LocalsOK /\ SharedOK /\ HistoryOK
BY DEF TypeOK, LocalsOK, SharedOK, HistoryOK

\* The same of the next state, so that a step can be checked part by part.
LEMMA TypePartsNext == TypeOK' <=> LocalsOK' /\ SharedOK' /\ HistoryOK'
BY DEF TypeOK, LocalsOK, SharedOK, HistoryOK

\* The cleared copy of a session (handlers drop theirs when done) is a copy.
LEMMA NoCopyType == NoCopy \in Copy
BY DEF NoCopy, Copy, UserOrNone

\* An absent key is a value of the store.
LEMMA NoKeyType == NoKey \in Key
BY NoCopyType, DurationAssumption DEF NoKey, Key

\* The locals of an idle slot are those of a request.
LEMMA NoRequestType == NoRequest \in Request
BY NoCopyType, DurationAssumption DEF NoRequest, Request, Ops, UserOrNone

\* The state the proxy starts in, with nothing in Redis, is well typed.
LEMMA InitType == Init => TypeOK
BY NoKeyType, NoRequestType, DurationAssumption
   DEF Init, TypeOK, UserOrNone, Pcs

\* A step of a handler keeps the local variables well typed if it leaves it
\* with a request record, a session in hand and, before a SETEX, a time to live.
LEMMA ProceedType ==
    ASSUME LocalsOK, NEW r \in Requests, NEW q \in Request, NEW label \in Pcs,
           Proceed(r, q, label),
           label # "idle" => q.sid \in Sessions,
           label \in {"touch", "put"} => q.ttl > 0
    PROVE  LocalsOK'
BY DEF LocalsOK, Proceed

\* A handler that returns leaves the local variables well typed.
LEMMA FinishType ==
    ASSUME LocalsOK, NEW r \in Requests, Finish(r)
    PROVE  LocalsOK'
BY NoRequestType, ProceedType DEF Finish, Pcs

\* So does one that goes on with the locals it has.
LEMMA GotoType ==
    ASSUME LocalsOK, NEW r \in Requests, NEW label \in Pcs \ {"touch", "put"},
           pc[r] # "idle", Goto(r, label)
    PROVE  LocalsOK'
BY ProceedType DEF Goto, LocalsOK

\* A request that presents a token starts with well typed locals: the session
\* the token names and the subject it was issued to.
LEMMA BeginType ==
    ASSUME TypeOK, NEW r \in Requests, NEW s \in Sessions,
           NEW request \in Request, NEW label \in Pcs \ {"touch", "put"},
           Begin(r, s, request, label)
    PROVE  LocalsOK' /\ SharedOK'
<1>1. [request EXCEPT !.sid = s, !.sub = token[s]] \in Request
  BY DEF TypeOK, Request
<1>2. [request EXCEPT !.sid = s, !.sub = token[s]].sid = s
  BY DEF Request
<1>3. LocalsOK'
  BY <1>1, <1>2, TypeParts, ProceedType DEF Begin
<1>4. SharedOK'
  BY TypeParts DEF Begin, shared, SharedOK
<1> QED
  BY <1>3, <1>4

\* SETEX of a copy with a time to live within Duration keeps the store typed.
LEMMA SetexType ==
    ASSUME SharedOK, NEW s \in Sessions, NEW c \in Copy, NEW n \in 0..Duration,
           Setex(s, c, n)
    PROVE  store' \in [Sessions -> Key]
BY DEF SharedOK, Setex, Key

\* DEL keeps the store typed.
LEMMA DelType ==
    ASSUME SharedOK, NEW S, Del(S)
    PROVE  store' \in [Sessions -> Key]
BY NoKeyType DEF SharedOK, Del

\* The first step of every handler preserves TypeOK.
LEMMA StartType ==
    ASSUME TypeOK, NEW r \in Requests, Start(r)
    PROVE  TypeOK'
<1> PICK s \in Sessions : \/ \E u \in Users : StartLogin(r, u, s)
                          \/ StartAccess(r, s)
                          \/ StartVerify(r, s)
                          \/ StartLogout(r, s)
                          \/ StartLogoutAll(r, s)
  BY DEF Start
<1> USE TypeParts, TypePartsNext, NoRequestType, BeginType
<1>1. ASSUME NEW u \in Users, StartLogin(r, u, s)
      PROVE  TypeOK'
  <2> DEFINE q == [NoRequest EXCEPT
                !.op = "login", !.sid = s, !.sub = u,
                !.copy = [user |-> u, mfa |-> FALSE], !.mark = LoginMark(u)]
  <2>1. q \in Request
    <3>1. [user |-> u, mfa |-> FALSE] \in Copy /\ LoginMark(u) \in BOOLEAN
      BY DEF Copy, UserOrNone, LoginMark
    <3> QED
      BY <3>1 DEF Request, Ops, UserOrNone
  <2>2. q.sid = s
    BY DEF NoRequest
  <2>3. Proceed(r, q, "create")
    BY <1>1 DEF StartLogin
  <2> HIDE DEF q
  <2>4. LocalsOK'
    BY <2>1, <2>2, <2>3, ProceedType DEF Pcs
  <2>5. SharedOK' /\ HistoryOK'
    BY <1>1 DEF StartLogin, SharedOK, HistoryOK, UserOrNone
  <2> QED
    BY <2>4, <2>5
<1>2. CASE StartAccess(r, s)
  <2>1. [NoRequest EXCEPT !.op = "access"] \in Request
    BY DEF Request, Ops
  <2> QED
    BY <1>2, <2>1 DEF StartAccess, history, HistoryOK, Pcs
<1>3. CASE StartVerify(r, s)
  <2>1. [NoRequest EXCEPT !.op = "verify", !.mark = TRUE] \in Request
    BY DEF Request, Ops
  <2> QED
    BY <1>3, <2>1 DEF StartVerify, HistoryOK, Pcs
<1>4. CASE StartLogout(r, s)
  <2>1. [NoRequest EXCEPT !.op = "logout"] \in Request
    BY DEF Request, Ops
  <2> QED
    BY <1>4, <2>1 DEF StartLogout, history, HistoryOK, Pcs
<1>5. CASE StartLogoutAll(r, s)
  <2>1. [NoRequest EXCEPT !.op = "logout_all", !.unseen = Sessions,
                          !.goal = LiveSessions(token[s])] \in Request
    BY DEF Request, Ops, LiveSessions
  <2> QED
    BY <1>5, <2>1 DEF StartLogoutAll, history, HistoryOK, Pcs
<1> QED
  BY <1>1, <1>2, <1>3, <1>4, <1>5

\* Every later step of a handler preserves TypeOK.
LEMMA ContinueType ==
    ASSUME TypeOK, NEW r \in Requests, Continue(r)
    PROVE  TypeOK'
<1> USE TypeParts, TypePartsNext
<1>0. req[r] \in Request /\ (pc[r] # "idle" => req[r].sid \in Sessions)
  BY DEF LocalsOK
<1>1. CASE Create(r)
  <2>1. req[r].copy \in Copy /\ req[r].sid \in Sessions /\ Duration \in 0..Duration
    BY <1>0, <1>1, DurationAssumption DEF Create, Request
  <2>2. store' \in [Sessions -> Key]
    BY <1>1, <2>1, SetexType DEF Create
  <2> QED
    BY <1>1, <2>2, GotoType DEF Create, history, SharedOK, HistoryOK, Pcs
<1>2. CASE GetHit(r)
  <2> DEFINE q == [req[r] EXCEPT !.copy = store[req[r].sid].data]
  <2>1. q \in Request /\ q.sid \in Sessions
    BY <1>0, <1>2 DEF SharedOK, GetHit, Key, Request
  <2>2. Proceed(r, q, "check")
    BY <1>2 DEF GetHit
  <2> HIDE DEF q
  <2>3. LocalsOK'
    BY <2>1, <2>2, ProceedType DEF Pcs
  <2> QED
    BY <1>2, <2>3 DEF GetHit, shared, history, SharedOK, HistoryOK
<1>3. CASE CheckExpired(r)
  BY <1>3, GotoType DEF CheckExpired, shared, history, SharedOK, HistoryOK, Pcs
<1>4. CASE Purge(r)
  BY <1>4, FinishType, DelType DEF Purge, history, SharedOK, HistoryOK
<1>5. CASE CheckLive(r)
  <2>1. CASE WorthWriting(req[r].sid)
    <3> DEFINE q == [req[r] EXCEPT !.ttl = left[req[r].sid]]
    <3>1. left[req[r].sid] \in 0..Duration /\ left[req[r].sid] > 0
      BY <1>0, <1>5, <2>1 DEF SharedOK, CheckLive, WorthWriting
    <3>2. q \in Request /\ q.sid \in Sessions /\ q.ttl > 0
      BY <1>0, <1>5, <3>1 DEF CheckLive, Request
    <3>3. Proceed(r, q, "touch")
      BY <1>5, <2>1 DEF CheckLive
    <3> HIDE DEF q
    <3>4. LocalsOK'
      BY <3>2, <3>3, ProceedType DEF Pcs
    <3> QED
      BY <1>5, <3>4 DEF CheckLive, shared, history, SharedOK, HistoryOK
  <2>2. CASE ~WorthWriting(req[r].sid)
    BY <1>5, <2>2, GotoType
       DEF CheckLive, AfterGet, shared, history, SharedOK, HistoryOK, Pcs
  <2> QED
    BY <2>1, <2>2
<1>6. CASE Touch(r)
  <2> DEFINE q == [req[r] EXCEPT !.ttl = 0]
  <2>1. q \in Request /\ q.sid \in Sessions
    BY <1>0, <1>6, DurationAssumption DEF Touch, Request
  <2>2. Proceed(r, q, AfterGet(r)) /\ AfterGet(r) \in Pcs \ {"touch", "put"}
    BY <1>6 DEF Touch, AfterGet, Pcs
  <2> HIDE DEF q
  <2>3. LocalsOK'
    BY <2>1, <2>2, ProceedType
  <2>4. store' \in [Sessions -> Key]
    BY <1>0, <1>6, SetexType DEF Touch, Request
  <2> QED
    BY <1>6, <2>3, <2>4 DEF Touch, history, SharedOK, HistoryOK
<1>7. CASE Seal(r)
  <2>0. Marked(r) \in Copy
    BY <1>0 DEF Marked, Request, Copy
  <2>1. CASE WorthWriting(req[r].sid)
    <3> DEFINE q == [req[r] EXCEPT !.copy = Marked(r), !.ttl = left[req[r].sid]]
    <3>1. left[req[r].sid] \in 0..Duration /\ left[req[r].sid] > 0
      BY <1>0, <1>7, <2>1 DEF SharedOK, Seal, WorthWriting
    <3>2. q \in Request /\ q.sid \in Sessions /\ q.ttl > 0
      BY <1>0, <1>7, <2>0, <3>1 DEF Seal, Request
    <3>3. Proceed(r, q, "put")
      BY <1>7, <2>1 DEF Seal
    <3> HIDE DEF q
    <3>4. LocalsOK'
      BY <3>2, <3>3, ProceedType DEF Pcs
    <3> QED
      BY <1>7, <3>4 DEF Seal, shared, history, SharedOK, HistoryOK
  <2>2. CASE ~WorthWriting(req[r].sid)
    <3> DEFINE q == [req[r] EXCEPT !.copy = NoCopy]
    <3>1. q \in Request /\ q.sid \in Sessions
      BY <1>0, <1>7, NoCopyType DEF Seal, Request
    <3>2. Proceed(r, q, "reply")
      BY <1>7, <2>2 DEF Seal
    <3> HIDE DEF q
    <3>3. LocalsOK'
      BY <3>1, <3>2, ProceedType DEF Pcs
    <3> QED
      BY <1>7, <3>3 DEF Seal, shared, history, SharedOK, HistoryOK
  <2> QED
    BY <2>1, <2>2
<1>8. CASE Put(r)
  <2> DEFINE q == [req[r] EXCEPT !.ttl = 0, !.copy = NoCopy]
  <2>0. 0 \in 0..Duration /\ req[r].sid \in Sessions
    BY <1>0, <1>8, DurationAssumption DEF Put
  <2>1. q \in Request /\ q.sid \in Sessions
    BY <1>0, <2>0, NoCopyType DEF Request
  <2>2. Proceed(r, q, "reply")
    BY <1>8 DEF Put
  <2> HIDE DEF q
  <2>3. LocalsOK'
    BY <2>1, <2>2, ProceedType DEF Pcs
  <2>4. store' \in [Sessions -> Key]
    BY <1>0, <1>8, SetexType DEF Put, Request
  <2> QED
    BY <1>8, <2>3, <2>4 DEF Put, history, SharedOK, HistoryOK
<1>9. CASE Decide(r)
  <2>0. Finish(r) \/ (pc[r] # "idle" /\ Goto(r, "forward"))
    BY <1>9 DEF Decide
  <2>1. LocalsOK'
    BY <2>0, FinishType, GotoType DEF Pcs
  <2> QED
    BY <1>9, <2>1 DEF Decide, shared, history, SharedOK, HistoryOK
<1>10. CASE Delete(r)
  BY <1>10, GotoType, DelType DEF Delete, history, SharedOK, HistoryOK, Pcs
<1>11. CASE Scan(r)
  <2>1. PICK batch \in SUBSET req[r].unseen :
          Proceed(r, [req[r] EXCEPT
                       !.unseen = @ \ batch,
                       !.keys = @ \union {s \in batch : Present(s)}],
                  IF batch = req[r].unseen THEN "fetch" ELSE "scan")
    BY <1>11 DEF Scan
  <2> DEFINE q == [req[r] EXCEPT
                    !.unseen = @ \ batch,
                    !.keys = @ \union {s \in batch : Present(s)}]
             l == IF batch = req[r].unseen THEN "fetch" ELSE "scan"
  <2>2. q \in Request /\ q.sid \in Sessions
    BY <1>0, <1>11 DEF Request, Scan
  <2>3. Proceed(r, q, l) /\ l \in Pcs \ {"touch", "put"}
    BY <2>1 DEF Pcs
  <2> HIDE DEF q, l
  <2>4. LocalsOK'
    BY <2>2, <2>3, ProceedType
  <2> QED
    BY <1>11, <2>4 DEF Scan, shared, history, SharedOK, HistoryOK
<1>12. CASE ScanTruncated(r)
  <2> DEFINE q == [req[r] EXCEPT !.unseen = {}]
  <2>1. q \in Request /\ q.sid \in Sessions
    BY <1>0, <1>12 DEF ScanTruncated, Request
  <2>2. Proceed(r, q, "fetch")
    BY <1>12 DEF ScanTruncated
  <2> HIDE DEF q
  <2>3. LocalsOK'
    BY <2>1, <2>2, ProceedType DEF Pcs
  <2> QED
    BY <1>12, <2>3 DEF ScanTruncated, shared, history, SharedOK, HistoryOK
<1>13. CASE Fetch(r)
  <2>1. PICK s \in req[r].keys :
          Proceed(r, [req[r] EXCEPT
                       !.keys = @ \ {s},
                       !.doomed = IF Present(s) /\ Matches(r, s)
                                  THEN @ \union {s} ELSE @], "fetch")
    BY <1>13 DEF Fetch
  <2> DEFINE q == [req[r] EXCEPT
                    !.keys = @ \ {s},
                    !.doomed = IF Present(s) /\ Matches(r, s)
                               THEN @ \union {s} ELSE @]
  <2>2. q \in Request /\ q.sid \in Sessions
    BY <1>0, <1>13 DEF Request, Fetch
  <2>3. Proceed(r, q, "fetch")
    BY <2>1
  <2> HIDE DEF q
  <2>4. LocalsOK'
    BY <2>2, <2>3, ProceedType DEF Pcs
  <2> QED
    BY <1>13, <2>4 DEF Fetch, shared, history, SharedOK, HistoryOK
<1>14. CASE FetchLost(r)
  <2>1. PICK s \in req[r].keys :
          Proceed(r, [req[r] EXCEPT !.keys = @ \ {s}], "fetch")
    BY <1>14 DEF FetchLost
  <2> DEFINE q == [req[r] EXCEPT !.keys = @ \ {s}]
  <2>2. q \in Request /\ q.sid \in Sessions
    BY <1>0, <1>14 DEF Request, FetchLost
  <2>3. Proceed(r, q, "fetch")
    BY <2>1
  <2> HIDE DEF q
  <2>4. LocalsOK'
    BY <2>2, <2>3, ProceedType DEF Pcs
  <2> QED
    BY <1>14, <2>4 DEF FetchLost, shared, history, SharedOK, HistoryOK
<1>15. CASE EndFetch(r) \/ EndRevoke(r)
  BY <1>15, GotoType
     DEF EndFetch, EndRevoke, shared, history, SharedOK, HistoryOK, Pcs
<1>16. CASE Revoke(r)
  <2>1. PICK s \in req[r].doomed :
          Del({s}) /\ Proceed(r, [req[r] EXCEPT !.doomed = @ \ {s}], "revoke")
    BY <1>16 DEF Revoke
  <2> DEFINE q == [req[r] EXCEPT !.doomed = @ \ {s}]
  <2>2. q \in Request /\ q.sid \in Sessions
    BY <1>0, <1>16 DEF Request, Revoke
  <2>3. Proceed(r, q, "revoke")
    BY <2>1
  <2> HIDE DEF q
  <2>4. LocalsOK'
    BY <2>2, <2>3, ProceedType DEF Pcs
  <2> QED
    BY <1>16, <2>1, <2>4, DelType DEF Revoke, history, SharedOK, HistoryOK
<1>17. CASE Reply(r)
  <2>1. token' \in [Sessions -> UserOrNone]
    BY <1>0, <1>17 DEF SharedOK, Reply, Request
  <2>2. HistoryOK'
    BY <1>0, <1>17 DEF HistoryOK, Reply, Request
  <2>3. LocalsOK'
    BY <1>17, FinishType DEF Reply
  <2> QED
    BY <1>17, <2>1, <2>2, <2>3 DEF SharedOK, Reply
<1>18. CASE GetMiss(r) \/ Forward(r)
  BY <1>18, FinishType
     DEF GetMiss, Forward, shared, history, SharedOK, HistoryOK
<1> QED
  BY <1>1, <1>2, <1>3, <1>4, <1>5, <1>6, <1>7, <1>8, <1>9, <1>10, <1>11,
     <1>12, <1>13, <1>14, <1>15, <1>16, <1>17, <1>18 DEF Continue

\* A key that has lost a second of its time to live is still a key.
LEMMA AgedType == ASSUME NEW key \in Key PROVE Aged(key) \in Key
<1>1. CASE key.ttl > 0
  <2>1. key.ttl - 1 \in -1..Duration
    BY <1>1, DurationAssumption DEF Key
  <2> QED
    BY <1>1, <2>1 DEF Aged, Key
<1>2. CASE ~(key.ttl > 0)
  BY <1>2, NoKeyType DEF Aged
<1> QED
  BY <1>1, <1>2

\* The clock preserves TypeOK: no expires_at is passed twice.
LEMMA TickType == ASSUME TypeOK, Tick PROVE TypeOK'
<1>1. store' \in [Sessions -> Key]
  BY AgedType DEF TypeOK, Tick
<1>2. left' \in [Sessions -> -1..Duration]
  <2>1. \A n \in -1..Duration : n >= 0 => n - 1 \in -1..Duration
    BY DurationAssumption
  <2> QED
    BY <2>1 DEF TypeOK, Tick
<1> QED
  BY <1>1, <1>2 DEF TypeOK, Tick, history

\* Every step preserves TypeOK.
LEMMA NextType == TypeOK /\ [Next]_vars => TypeOK'
<1> SUFFICES ASSUME TypeOK, [Next]_vars
             PROVE  TypeOK'
  OBVIOUS
<1>1. ASSUME NEW r \in Requests, Abort(r)
      PROVE  TypeOK'
  BY <1>1, FinishType, TypeParts, TypePartsNext
     DEF Abort, shared, history, SharedOK, HistoryOK
<1>2. ASSUME NEW s \in Sessions, HandleMfaEnroll(s)
      PROVE  TypeOK'
  <2>1. token[s] \in Users
    BY <1>2 DEF TypeOK, HandleMfaEnroll, UserOrNone
  <2> QED
    BY <1>2, <2>1 DEF TypeOK, HandleMfaEnroll, history
<1>3. CASE UNCHANGED vars
  BY <1>3, TypeParts, TypePartsNext
     DEF vars, shared, history, LocalsOK, SharedOK, HistoryOK
<1> QED
  BY <1>1, <1>2, <1>3, StartType, ContinueType, TickType DEF Next

\* Every variable keeps its type, every request in flight names a session, and
\* no SETEX is sent with a time to live of 0 or less (update_session).
THEOREM TypeCorrect == Spec => []TypeOK
BY InitType, NextType, PTL DEF Spec

-----------------------------------------------------------------------------
(* The inductive invariant: whose session every part of the state is about, *)
(* and that every mark of MFA on its way to Redis has been earned.          *)

\* The program points at which the handler holds a copy of its session.
CopyPcs == {"create", "check", "touch", "seal", "put", "decide"}

InFlight(r) ==
    pc[r] # "idle" =>
      /\ req[r].sub # None
      /\ req[r].sub = owner[req[r].sid]
      /\ req[r].mark => req[r].sid \in earned
      /\ pc[r] \in CopyPcs => /\ req[r].copy.user = req[r].sub
                              /\ req[r].copy.mfa => req[r].sid \in earned
      /\ pc[r] = "purge" => IsExpired(req[r].sid)
      /\ pc[r] = "forward" /\ RequireMfa => req[r].sid \in earned
      /\ \A s \in req[r].doomed : owner[s] = req[r].sub

AtRest(s) ==
    /\ token[s] # None => token[s] = owner[s]
    /\ Present(s) => owner[s] # None /\ store[s].data.user = owner[s]
    /\ store[s].data.mfa => s \in earned

IInv ==
    /\ TypeOK
    /\ \A r \in Requests : InFlight(r)
    /\ \A s \in Sessions : AtRest(s)

\* The inductive invariant holds when the proxy starts.
LEMMA InitIInv == Init => IInv
BY InitType
   DEF Init, IInv, InFlight, AtRest, Present, NoKey, NoCopy

\* What never goes back, and what another request's invariant rests on.
Growth ==
    /\ \A s \in Sessions : owner[s] # None => owner'[s] = owner[s]
    /\ \A s \in Sessions : IsExpired(s) => IsExpired(s)'
    /\ earned \subseteq earned'

\* A request that does not move stays in order while others do, because owners,
\* tokens, expiry and earned codes only grow.
LEMMA InFlightFrame ==
    ASSUME TypeOK, Growth, NEW r \in Requests, InFlight(r),
           pc'[r] = pc[r], req'[r] = req[r]
    PROVE  InFlight(r)'
<1>1. pc[r] # "idle" => req[r].sid \in Sessions
  BY DEF TypeOK
<1>2. req[r].doomed \subseteq Sessions
  BY DEF TypeOK, Request
<1> QED
  BY <1>1, <1>2 DEF Growth, InFlight, IsExpired

\* A handler's step keeps every request in order if it leaves its own so.
LEMMA InFlightStep ==
    ASSUME IInv, Growth, NEW r \in Requests, NEW q, NEW label,
           Proceed(r, q, label), InFlight(r)'
    PROVE  \A x \in Requests : InFlight(x)'
<1> SUFFICES ASSUME NEW x \in Requests, x # r
             PROVE  InFlight(x)'
  OBVIOUS
<1>1. pc'[x] = pc[x] /\ req'[x] = req[x]
  BY DEF IInv, TypeOK, Proceed
<1> QED
  BY <1>1, InFlightFrame DEF IInv

\* A session whose key and token a step leaves alone stays in order.
LEMMA AtRestFrame ==
    ASSUME IInv, Growth, NEW s \in Sessions,
           token'[s] = token[s], store'[s] = store[s]
    PROVE  AtRest(s)'
BY DEF IInv, AtRest, Growth, Present

\* DEL, of whichever sessions, leaves every session in order.
LEMMA AtRestDel ==
    ASSUME IInv, Growth, NEW S, Del(S), token' = token
    PROVE  \A s \in Sessions : AtRest(s)'
BY DEF IInv, AtRest, Growth, Present, Del, NoKey, NoCopy

\* A handler that writes the session it was called with, marked or not as it
\* may be, leaves every session in order.
LEMMA AtRestSetex ==
    ASSUME IInv, Growth, NEW r \in Requests, NEW n,
           pc[r] \in CopyPcs, Setex(req[r].sid, req[r].copy, n),
           token' = token
    PROVE  \A s \in Sessions : AtRest(s)'
<1>1. req[r].sid \in Sessions
  BY DEF IInv, TypeOK, CopyPcs
<1> SUFFICES ASSUME NEW s \in Sessions
             PROVE  AtRest(s)'
  OBVIOUS
<1>2. CASE s # req[r].sid
  BY <1>2, AtRestFrame DEF Setex, IInv, TypeOK
<1>3. CASE s = req[r].sid
  <2>1. store'[s] = [data |-> req[r].copy, ttl |-> n]
    BY <1>3 DEF Setex, IInv, TypeOK
  <2>2. /\ req[r].sub # None /\ req[r].sub = owner[s]
        /\ req[r].copy.user = req[r].sub
        /\ req[r].copy.mfa => s \in earned
    BY <1>3 DEF IInv, InFlight, CopyPcs
  <2> QED
    BY <2>1, <2>2 DEF IInv, AtRest, Growth, Present
<1> QED
  BY <1>2, <1>3

\* A handler that returns leaves every request in order.
LEMMA FinishInFlight ==
    ASSUME IInv, Growth, NEW r \in Requests, Finish(r)
    PROVE  \A x \in Requests : InFlight(x)'
<1>1. InFlight(r)'
  BY DEF Finish, Proceed, InFlight, IInv, TypeOK
<1> QED
  BY <1>1, InFlightStep DEF Finish

\* The first step of every handler preserves the inductive invariant.
LEMMA StartIInv ==
    ASSUME IInv, NEW r \in Requests, Start(r)
    PROVE  (\A x \in Requests : InFlight(x)') /\ (\A s \in Sessions : AtRest(s)')
<1> PICK s \in Sessions : \/ \E u \in Users : StartLogin(r, u, s)
                          \/ StartAccess(r, s)
                          \/ StartVerify(r, s)
                          \/ StartLogout(r, s)
                          \/ StartLogoutAll(r, s)
  BY DEF Start
<1>0. TypeOK
  BY DEF IInv
<1>1. ASSUME NEW u \in Users, StartLogin(r, u, s)
      PROVE  (\A x \in Requests : InFlight(x)') /\ (\A x \in Sessions : AtRest(x)')
  <2> DEFINE q == [NoRequest EXCEPT
                !.op = "login", !.sid = s, !.sub = u,
                !.copy = [user |-> u, mfa |-> FALSE], !.mark = LoginMark(u)]
  <2>1. Growth
    BY <1>0, <1>1 DEF StartLogin, Growth, IsExpired, TypeOK
  <2>2. Proceed(r, q, "create")
    BY <1>1 DEF StartLogin
  <2>3. /\ q.sid = s /\ q.sub = u /\ q.mark = LoginMark(u)
        /\ q.copy = [user |-> u, mfa |-> FALSE] /\ q.doomed = {}
    BY DEF NoRequest
  <2> HIDE DEF q
  <2>4. req'[r] = q /\ pc'[r] = "create"
    BY <1>0, <2>2 DEF Proceed, TypeOK
  <2>5. owner'[s] = u /\ u # None /\ (LoginMark(u) => s \in earned')
    BY <1>0, <1>1, NoneAssumption DEF StartLogin, TypeOK, LoginMark
  <2>6. InFlight(r)'
    BY <2>3, <2>4, <2>5 DEF InFlight, CopyPcs
  <2>7. ASSUME NEW x \in Sessions
        PROVE  AtRest(x)'
    BY <1>1, <2>1, AtRestFrame DEF StartLogin
  <2> QED
    BY <2>1, <2>2, <2>6, <2>7, InFlightStep
<1>2. ASSUME NEW request, NEW label,
             Begin(r, s, request, label),
             label \in {"get", "del", "scan"}, request \in Request,
             request.doomed = {},
             request.mark => s \in earned',
             earned' \in SUBSET Sessions, earned \subseteq earned'
      PROVE  (\A x \in Requests : InFlight(x)') /\ (\A x \in Sessions : AtRest(x)')
  <2> DEFINE q == [request EXCEPT !.sid = s, !.sub = token[s]]
  <2>1. Growth
    BY <1>2 DEF Begin, shared, Growth, IsExpired
  <2>2. Proceed(r, q, label)
    BY <1>2 DEF Begin
  <2>3. /\ q.sid = s /\ q.sub = token[s] /\ q.mark = request.mark
        /\ q.doomed = {}
    BY <1>2 DEF Request
  <2> HIDE DEF q
  <2>4. req'[r] = q /\ pc'[r] = label
    BY <1>0, <2>2 DEF Proceed, TypeOK
  <2>5. token[s] # None /\ token[s] = owner[s] /\ owner' = owner
    BY <1>2 DEF Begin, shared, IInv, AtRest
  <2>6. InFlight(r)'
    BY <1>2, <2>3, <2>4, <2>5 DEF InFlight, CopyPcs
  <2>7. ASSUME NEW x \in Sessions
        PROVE  AtRest(x)'
    BY <1>2, <2>1, AtRestFrame DEF Begin, shared
  <2> QED
    BY <2>1, <2>2, <2>6, <2>7, InFlightStep
<1>3. CASE StartAccess(r, s)
  <2> DEFINE n == [NoRequest EXCEPT !.op = "access"]
  <2>1. n \in Request /\ n.doomed = {} /\ n.mark = FALSE
    BY NoRequestType DEF Request, Ops, NoRequest
  <2>2. Begin(r, s, n, "get") /\ earned' = earned
    BY <1>3 DEF StartAccess, history
  <2> HIDE DEF n
  <2> QED
    BY <1>0, <1>2, <2>1, <2>2 DEF TypeOK
<1>4. CASE StartVerify(r, s)
  <2> DEFINE n == [NoRequest EXCEPT !.op = "verify", !.mark = TRUE]
  <2>1. n \in Request /\ n.doomed = {}
    BY NoRequestType DEF Request, Ops, NoRequest
  <2>2. Begin(r, s, n, "get") /\ earned' = earned \union {s}
    BY <1>4 DEF StartVerify
  <2> HIDE DEF n
  <2> QED
    BY <1>0, <1>2, <2>1, <2>2 DEF TypeOK
<1>5. CASE StartLogout(r, s)
  <2> DEFINE n == [NoRequest EXCEPT !.op = "logout"]
  <2>1. n \in Request /\ n.doomed = {} /\ n.mark = FALSE
    BY NoRequestType DEF Request, Ops, NoRequest
  <2>2. Begin(r, s, n, "del") /\ earned' = earned
    BY <1>5 DEF StartLogout, history
  <2> HIDE DEF n
  <2> QED
    BY <1>0, <1>2, <2>1, <2>2 DEF TypeOK
<1>6. CASE StartLogoutAll(r, s)
  <2> DEFINE n == [NoRequest EXCEPT !.op = "logout_all", !.unseen = Sessions,
                                    !.goal = LiveSessions(token[s])]
  <2>1. n \in Request /\ n.doomed = {} /\ n.mark = FALSE
    BY NoRequestType DEF Request, Ops, NoRequest, LiveSessions
  <2>2. Begin(r, s, n, "scan") /\ earned' = earned
    BY <1>6 DEF StartLogoutAll, history
  <2> HIDE DEF n
  <2> QED
    BY <1>0, <1>2, <2>1, <2>2 DEF TypeOK
<1> QED
  BY <1>1, <1>3, <1>4, <1>5, <1>6

\* A step that changes nothing but its own request's local variables.
LEMMA LocalStep ==
    ASSUME IInv, NEW r \in Requests, NEW q, NEW label, Proceed(r, q, label),
           UNCHANGED shared, UNCHANGED history,
           InFlight(r)'
    PROVE  (\A x \in Requests : InFlight(x)') /\ (\A s \in Sessions : AtRest(s)')
<1>1. Growth
  BY DEF shared, history, Growth, IsExpired
<1>2. \A s \in Sessions : AtRest(s)'
  BY <1>1, AtRestFrame DEF shared
<1> QED
  BY <1>1, <1>2, InFlightStep

\* Every later step of a handler preserves the inductive invariant.
LEMMA ContinueIInv ==
    ASSUME IInv, NEW r \in Requests, Continue(r)
    PROVE  (\A x \in Requests : InFlight(x)') /\ (\A s \in Sessions : AtRest(s)')
<1> DEFINE Goal == /\ \A x \in Requests : InFlight(x)'
                   /\ \A s \in Sessions : AtRest(s)'
<1>0. TypeOK /\ InFlight(r) /\ req[r] \in Request
  BY DEF IInv, TypeOK
\* Where the control of r goes, its local variables being q.
<1>a. ASSUME NEW q, NEW label, Proceed(r, q, label)
      PROVE  req'[r] = q /\ pc'[r] = label
  BY <1>0, <1>a DEF Proceed, TypeOK
\* Whatever changes neither owner nor left and forgets no earned code.
<1>b. ASSUME owner' = owner, left' = left, earned' = earned
      PROVE  Growth
  BY <1>b DEF Growth, IsExpired
<1>1. CASE Create(r)
  <2>1. Growth
    BY <1>1, <1>b DEF Create, history
  <2>2. InFlight(r)'
    BY <1>0, <1>1, <1>a DEF Create, Goto, InFlight, CopyPcs, history
  <2> QED
    BY <1>1, <2>1, <2>2, InFlightStep, AtRestSetex DEF Create, Goto, CopyPcs
<1>2. CASE GetHit(r)
  <2> DEFINE q == [req[r] EXCEPT !.copy = store[req[r].sid].data]
  <2>1. Proceed(r, q, "check")
    BY <1>2 DEF GetHit
  <2>2. /\ q.sid = req[r].sid /\ q.sub = req[r].sub /\ q.mark = req[r].mark
        /\ q.copy = store[req[r].sid].data /\ q.doomed = req[r].doomed
    BY <1>0 DEF Request
  <2> HIDE DEF q
  <2>3. AtRest(req[r].sid) /\ Present(req[r].sid)
    BY <1>0, <1>2 DEF GetHit, IInv, TypeOK
  <2>4. InFlight(r)'
    BY <1>0, <1>2, <1>a, <2>1, <2>2, <2>3
       DEF GetHit, InFlight, AtRest, CopyPcs, shared, history
  <2> QED
    BY <1>2, <2>1, <2>4, LocalStep DEF GetHit
<1>3. CASE CheckExpired(r)
  <2>1. InFlight(r)'
    BY <1>0, <1>3, <1>a
       DEF CheckExpired, Goto, InFlight, CopyPcs, IsExpired, shared, history
  <2> QED
    BY <1>3, <2>1, LocalStep DEF CheckExpired, Goto
<1>4. CASE Purge(r)
  BY <1>4, <1>b, FinishInFlight, AtRestDel DEF Purge, history
<1>5. CASE CheckLive(r)
  <2>1. ASSUME NEW q, NEW label, Proceed(r, q, label),
               label \in {"touch", "decide", "seal"},
               q.sid = req[r].sid, q.sub = req[r].sub, q.mark = req[r].mark,
               q.copy = req[r].copy, q.doomed = req[r].doomed
        PROVE  Goal
    <3>1. InFlight(r)'
      BY <1>0, <1>5, <1>a, <2>1
         DEF CheckLive, InFlight, CopyPcs, shared, history
    <3> QED
      BY <1>5, <2>1, <3>1, LocalStep DEF CheckLive
  <2>2. CASE WorthWriting(req[r].sid)
    <3> DEFINE q == [req[r] EXCEPT !.ttl = left[req[r].sid]]
    <3>1. /\ q.sid = req[r].sid /\ q.sub = req[r].sub /\ q.mark = req[r].mark
          /\ q.copy = req[r].copy /\ q.doomed = req[r].doomed
      BY <1>0 DEF Request
    <3>2. Proceed(r, q, "touch")
      BY <1>5, <2>2 DEF CheckLive
    <3> HIDE DEF q
    <3> QED
      BY <2>1, <3>1, <3>2
  <2>3. CASE ~WorthWriting(req[r].sid)
    BY <1>5, <2>1, <2>3 DEF CheckLive, Goto, AfterGet
  <2> QED
    BY <2>2, <2>3
<1>6. CASE Touch(r)
  <2> DEFINE q == [req[r] EXCEPT !.ttl = 0]
  <2>1. Proceed(r, q, AfterGet(r))
    BY <1>6 DEF Touch
  <2>2. /\ q.sid = req[r].sid /\ q.sub = req[r].sub /\ q.mark = req[r].mark
        /\ q.copy = req[r].copy /\ q.doomed = req[r].doomed
    BY <1>0 DEF Request
  <2> HIDE DEF q
  <2>3. InFlight(r)'
    BY <1>0, <1>6, <1>a, <2>1, <2>2
       DEF Touch, AfterGet, InFlight, CopyPcs, history
  <2>4. Growth
    BY <1>6, <1>b DEF Touch, history
  <2> QED
    BY <1>6, <2>1, <2>3, <2>4, InFlightStep, AtRestSetex DEF Touch, CopyPcs
<1>7. CASE Seal(r)
  <2>1. CASE WorthWriting(req[r].sid)
    <3> DEFINE q == [req[r] EXCEPT !.copy = Marked(r), !.ttl = left[req[r].sid]]
    <3>1. /\ q.sid = req[r].sid /\ q.sub = req[r].sub /\ q.mark = req[r].mark
          /\ q.copy = Marked(r) /\ q.doomed = req[r].doomed
      BY <1>0 DEF Request
    <3>2. Marked(r).user = req[r].copy.user /\ Marked(r).mfa = req[r].mark
      BY <1>0 DEF Marked, Request, Copy
    <3>3. Proceed(r, q, "put")
      BY <1>7, <2>1 DEF Seal
    <3> HIDE DEF q
    <3>4. InFlight(r)'
      BY <1>0, <1>7, <1>a, <3>1, <3>2, <3>3
         DEF Seal, InFlight, CopyPcs, shared, history
    <3> QED
      BY <1>7, <3>3, <3>4, LocalStep DEF Seal
  <2>2. CASE ~WorthWriting(req[r].sid)
    <3> DEFINE q == [req[r] EXCEPT !.copy = NoCopy]
    <3>1. /\ q.sid = req[r].sid /\ q.sub = req[r].sub /\ q.mark = req[r].mark
          /\ q.doomed = req[r].doomed
      BY <1>0 DEF Request
    <3>2. Proceed(r, q, "reply")
      BY <1>7, <2>2 DEF Seal
    <3> HIDE DEF q
    <3>3. InFlight(r)'
      BY <1>0, <1>7, <1>a, <3>1, <3>2
         DEF Seal, InFlight, CopyPcs, shared, history
    <3> QED
      BY <1>7, <3>2, <3>3, LocalStep DEF Seal
  <2> QED
    BY <2>1, <2>2
<1>8. CASE Put(r)
  <2> DEFINE q == [req[r] EXCEPT !.ttl = 0, !.copy = NoCopy]
  <2>1. Proceed(r, q, "reply")
    BY <1>8 DEF Put
  <2>2. /\ q.sid = req[r].sid /\ q.sub = req[r].sub /\ q.mark = req[r].mark
        /\ q.doomed = req[r].doomed
    BY <1>0 DEF Request
  <2> HIDE DEF q
  <2>3. InFlight(r)'
    BY <1>0, <1>8, <1>a, <2>1, <2>2 DEF Put, InFlight, CopyPcs, history
  <2>4. Growth
    BY <1>8, <1>b DEF Put, history
  <2> QED
    BY <1>8, <2>1, <2>3, <2>4, InFlightStep, AtRestSetex DEF Put, CopyPcs
<1>9. CASE Decide(r)
  <2>1. CASE Finish(r)
    <3>1. Growth
      BY <1>9, <1>b DEF Decide, shared, history
    <3>2. \A s \in Sessions : AtRest(s)'
      BY <1>9, <3>1, AtRestFrame DEF Decide, shared
    <3> QED
      BY <2>1, <3>1, <3>2, FinishInFlight
  <2>2. CASE Goto(r, "forward") /\ (RequireMfa => req[r].copy.mfa)
    <3>1. InFlight(r)'
      BY <1>0, <1>9, <1>a, <2>2
         DEF Decide, Goto, InFlight, CopyPcs, shared, history
    <3> QED
      BY <1>9, <2>2, <3>1, LocalStep DEF Decide, Goto
  <2> QED
    BY <1>9, <2>1, <2>2 DEF Decide, Clears
<1>10. CASE Delete(r)
  <2>1. Growth
    BY <1>10, <1>b DEF Delete, history
  <2>2. InFlight(r)'
    BY <1>0, <1>10, <1>a DEF Delete, Goto, InFlight, CopyPcs, history
  <2> QED
    BY <1>10, <2>1, <2>2, InFlightStep, AtRestDel DEF Delete, Goto
\* The sweep of a logout_all keeps its request's subject and session.
<1>11. ASSUME NEW q, NEW label, Proceed(r, q, label),
              pc[r] # "idle", label \in {"scan", "fetch", "revoke", "reply"},
              q.sid = req[r].sid, q.sub = req[r].sub, q.mark = req[r].mark,
              \A s \in q.doomed : owner[s] = req[r].sub,
              owner' = owner, earned' = earned
       PROVE  InFlight(r)'
  BY <1>0, <1>a, <1>11 DEF InFlight, CopyPcs
<1>12. CASE Scan(r)
  <2>1. PICK batch \in SUBSET req[r].unseen :
          Proceed(r, [req[r] EXCEPT
                       !.unseen = @ \ batch,
                       !.keys = @ \union {s \in batch : Present(s)}],
                  IF batch = req[r].unseen THEN "fetch" ELSE "scan")
    BY <1>12 DEF Scan
  <2> DEFINE q == [req[r] EXCEPT
                    !.unseen = @ \ batch,
                    !.keys = @ \union {s \in batch : Present(s)}]
             l == IF batch = req[r].unseen THEN "fetch" ELSE "scan"
  <2>2. /\ q.sid = req[r].sid /\ q.sub = req[r].sub /\ q.mark = req[r].mark
        /\ q.doomed = req[r].doomed
    BY <1>0 DEF Request
  <2>3. Proceed(r, q, l) /\ l \in {"scan", "fetch", "revoke", "reply"}
    BY <2>1
  <2> HIDE DEF q, l
  <2>4. InFlight(r)'
    BY <1>0, <1>11, <1>12, <2>2, <2>3 DEF Scan, InFlight, shared, history
  <2> QED
    BY <1>12, <2>3, <2>4, LocalStep DEF Scan
<1>13. CASE ScanTruncated(r)
  <2> DEFINE q == [req[r] EXCEPT !.unseen = {}]
  <2>1. /\ q.sid = req[r].sid /\ q.sub = req[r].sub /\ q.mark = req[r].mark
        /\ q.doomed = req[r].doomed
    BY <1>0 DEF Request
  <2>2. Proceed(r, q, "fetch")
    BY <1>13 DEF ScanTruncated
  <2> HIDE DEF q
  <2>3. InFlight(r)'
    BY <1>0, <1>11, <1>13, <2>1, <2>2
       DEF ScanTruncated, InFlight, shared, history
  <2> QED
    BY <1>13, <2>2, <2>3, LocalStep DEF ScanTruncated
<1>14. CASE Fetch(r)
  <2>1. PICK s \in req[r].keys :
          Proceed(r, [req[r] EXCEPT
                       !.keys = @ \ {s},
                       !.doomed = IF Present(s) /\ Matches(r, s)
                                  THEN @ \union {s} ELSE @], "fetch")
    BY <1>14 DEF Fetch
  <2> DEFINE D == IF Present(s) /\ Matches(r, s)
                  THEN req[r].doomed \union {s} ELSE req[r].doomed
             q == [req[r] EXCEPT !.keys = @ \ {s}, !.doomed = D]
  <2>2. \A x \in D : owner[x] = req[r].sub
    <3>1. AtRest(s)
      BY <1>0 DEF IInv, Request
    <3> QED
      BY <1>0, <1>14, <3>1 DEF Fetch, InFlight, AtRest, Matches
  <2> HIDE DEF D
  <2>3. /\ q.sid = req[r].sid /\ q.sub = req[r].sub /\ q.mark = req[r].mark
        /\ q.doomed = D
    BY <1>0 DEF Request
  <2>4. Proceed(r, q, "fetch")
    BY <2>1 DEF D
  <2> HIDE DEF q
  <2>5. InFlight(r)'
    BY <1>11, <1>14, <2>2, <2>3, <2>4 DEF Fetch, shared, history
  <2> QED
    BY <1>14, <2>4, <2>5, LocalStep DEF Fetch
<1>15. CASE FetchLost(r)
  <2>1. PICK s \in req[r].keys :
          Proceed(r, [req[r] EXCEPT !.keys = @ \ {s}], "fetch")
    BY <1>15 DEF FetchLost
  <2> DEFINE q == [req[r] EXCEPT !.keys = @ \ {s}]
  <2>2. /\ q.sid = req[r].sid /\ q.sub = req[r].sub /\ q.mark = req[r].mark
        /\ q.doomed = req[r].doomed
    BY <1>0 DEF Request
  <2>3. Proceed(r, q, "fetch")
    BY <2>1
  <2> HIDE DEF q
  <2>4. InFlight(r)'
    BY <1>0, <1>11, <1>15, <2>2, <2>3 DEF FetchLost, InFlight, shared, history
  <2> QED
    BY <1>15, <2>3, <2>4, LocalStep DEF FetchLost
<1>16. CASE EndFetch(r) \/ EndRevoke(r)
  <2>1. PICK label \in {"revoke", "reply"} : Proceed(r, req[r], label)
    BY <1>16 DEF EndFetch, EndRevoke, Goto
  <2>2. InFlight(r)'
    BY <1>0, <1>11, <1>16, <2>1
       DEF EndFetch, EndRevoke, InFlight, shared, history
  <2> QED
    BY <1>16, <2>1, <2>2, LocalStep DEF EndFetch, EndRevoke
<1>17. CASE Revoke(r)
  <2>1. PICK s \in req[r].doomed :
          Del({s}) /\ Proceed(r, [req[r] EXCEPT !.doomed = @ \ {s}], "revoke")
    BY <1>17 DEF Revoke
  <2> DEFINE q == [req[r] EXCEPT !.doomed = @ \ {s}]
  <2>2. /\ q.sid = req[r].sid /\ q.sub = req[r].sub /\ q.mark = req[r].mark
        /\ q.doomed \subseteq req[r].doomed
    BY <1>0 DEF Request
  <2>3. Proceed(r, q, "revoke")
    BY <2>1
  <2> HIDE DEF q
  <2>4. Growth
    BY <1>17, <1>b DEF Revoke, history
  <2>5. InFlight(r)'
    BY <1>0, <1>11, <1>17, <2>2, <2>3 DEF Revoke, InFlight, history
  <2> QED
    BY <1>17, <2>1, <2>3, <2>4, <2>5, InFlightStep, AtRestDel DEF Revoke
<1>18. CASE Reply(r)
  <2>1. Growth
    BY <1>18, <1>b DEF Reply
  <2>2. ASSUME NEW s \in Sessions
        PROVE  AtRest(s)'
    <3>1. CASE token'[s] = token[s]
      BY <1>18, <2>1, <3>1, AtRestFrame DEF Reply
    <3>2. CASE token'[s] # token[s]
      <4>1. s = req[r].sid /\ token'[s] = req[r].sub
        BY <1>0, <1>18, <3>2 DEF Reply, TypeOK
      <4>2. req[r].sub = owner[s]
        BY <1>0, <1>18, <4>1 DEF Reply, InFlight
      <4> QED
        BY <1>18, <4>1, <4>2 DEF Reply, IInv, AtRest, Present
    <3> QED
      BY <3>1, <3>2
  <2> QED
    BY <1>18, <2>1, <2>2, FinishInFlight DEF Reply
<1>19. CASE GetMiss(r) \/ Forward(r)
  <2>1. Growth
    BY <1>19, <1>b DEF GetMiss, Forward, shared, history
  <2>2. \A s \in Sessions : AtRest(s)'
    BY <1>19, <2>1, AtRestFrame DEF GetMiss, Forward, shared
  <2> QED
    BY <1>19, <2>1, <2>2, FinishInFlight DEF GetMiss, Forward
<1> QED
  BY <1>1, <1>2, <1>3, <1>4, <1>5, <1>6, <1>7, <1>8, <1>9, <1>10, <1>12,
     <1>13, <1>14, <1>15, <1>16, <1>17, <1>18, <1>19 DEF Continue

\* The invariant is inductive: every step of the system preserves it.
LEMMA NextIInv == IInv /\ [Next]_vars => IInv'
<1> SUFFICES ASSUME IInv, [Next]_vars
             PROVE  IInv'
  OBVIOUS
<1>0. TypeOK /\ TypeOK'
  BY NextType DEF IInv
<1> DEFINE Goal == /\ \A r \in Requests : InFlight(r)'
                   /\ \A s \in Sessions : AtRest(s)'
<1>1. ASSUME NEW r \in Requests, Start(r) \/ Continue(r)
      PROVE  Goal
  BY <1>1, StartIInv, ContinueIInv
<1>2. ASSUME NEW r \in Requests, Abort(r)
      PROVE  Goal
  <2>1. Growth
    BY <1>2 DEF Abort, shared, history, Growth, IsExpired
  <2> QED
    BY <1>2, <2>1, FinishInFlight, AtRestFrame DEF Abort, shared
<1>3. ASSUME UNCHANGED <<owner, left, store, token, pc, req, history>>
      PROVE  Goal
  <2>1. Growth
    BY <1>3 DEF history, Growth, IsExpired
  <2> QED
    BY <1>3, <2>1, InFlightFrame, AtRestFrame DEF IInv
<1>4. ASSUME Tick
      PROVE  Goal
  <2>1. Growth
    BY <1>0, <1>4 DEF Tick, history, Growth, IsExpired, TypeOK
  <2>2. \A r \in Requests : InFlight(r)'
    BY <1>4, <2>1, InFlightFrame DEF Tick, IInv
  <2>3. ASSUME NEW s \in Sessions
        PROVE  AtRest(s)'
    <3>1. CASE store[s].ttl > 0
      <4>1. Present(s) /\ store'[s].data = store[s].data
        BY <1>0, <1>4, <3>1 DEF Tick, TypeOK, Key, Aged, Present
      <4> QED
        BY <1>4, <4>1 DEF Tick, history, IInv, AtRest
    <3>2. CASE ~(store[s].ttl > 0)
      <4>1. store'[s] = NoKey
        BY <1>4, <3>2 DEF Tick, Aged
      <4> QED
        BY <1>4, <4>1 DEF Tick, IInv, AtRest, Present, NoKey, NoCopy
    <3> QED
      BY <3>1, <3>2
  <2>4. \A s \in Sessions : AtRest(s)'
    BY <2>3
  <2> QED
    BY <2>2, <2>4
<1>5. ASSUME UNCHANGED vars
      PROVE  Goal
  BY <1>3, <1>5 DEF vars, shared, history
<1>6. ASSUME NEW s \in Sessions, HandleMfaEnroll(s)
      PROVE  Goal
  BY <1>3, <1>6 DEF HandleMfaEnroll
<1>7. Goal
  BY <1>1, <1>2, <1>4, <1>5, <1>6 DEF Next
<1> QED
  BY <1>0, <1>7 DEF IInv

\* The inductive invariant itself: every key, token and request in flight
\* belongs to the user its session was created for.
THEOREM IInvAlways == Spec => []IInv
BY InitIInv, NextIInv, PTL DEF Spec

-----------------------------------------------------------------------------
(* What follows from it.                                                   *)

\* No session is marked MFA-verified, and with auth.require_mfa no request is
\* forwarded, unless the owner's TOTP code was accepted for that very session.
THEOREM MfaEarned == Spec => []MfaIsEarned
<1>1. IInv => MfaIsEarned
  BY DEF IInv, InFlight, AtRest, MfaIsEarned
<1> QED
  BY <1>1, IInvAlways, PTL

\* authorize's comparison of the token's subject with the session's user
\* ("subject_mismatch") never fails: no token names another user's session.
\* authorize never answers "subject mismatch" to a token the proxy issued: the
\* session it names is its subject's own.
SubjectsMatch ==
    \A r \in Requests : pc[r] = "decide" => req[r].copy.user = req[r].sub

\* The token's subject and the stored session's user agree in every request
\* that reaches the tests of authorize: its subject_mismatch branch is a second
\* line of defence, not one that a genuine token ever meets.
THEOREM SubjectsAlwaysMatch == Spec => []SubjectsMatch
<1>1. IInv => SubjectsMatch
  BY DEF IInv, InFlight, SubjectsMatch, CopyPcs
<1> QED
  BY <1>1, IInvAlways, PTL

\* Which steps may write or remove the key of a session.
LEMMA Writers ==
    ASSUME IInv, [Next]_vars, NEW s \in Sessions, store'[s] # store[s]
    PROVE  \/ \E r \in Requests :
                /\ pc[r] \in {"create", "touch", "put"} /\ req[r].sid = s
                /\ Present(s)'
           \/ \E r \in Requests :
                /\ pc[r] = "purge" /\ req[r].sid = s
                /\ ~Present(s)'
           \/ \E r \in Requests :
                /\ pc[r] = "del" /\ req[r].sid = s
                /\ ~Present(s)'
           \/ \E r \in Requests :
                /\ pc[r] = "revoke" /\ s \in req[r].doomed
                /\ ~Present(s)'
           \/ Tick
<1> USE DEF IInv
<1>1. ASSUME NEW r \in Requests, NEW n \in 0..Duration, NEW c,
             Setex(req[r].sid, c, n)
      PROVE  req[r].sid = s /\ Present(s)'
  BY <1>1 DEF Setex, TypeOK, Present
<1>2. ASSUME NEW S, Del(S)
      PROVE  s \in S /\ ~Present(s)'
  BY <1>2 DEF Del, Present, NoKey
<1>3. ASSUME NEW r \in Requests
      PROVE  req[r].ttl \in 0..Duration /\ Duration \in 0..Duration
  BY DurationAssumption DEF TypeOK, Request
<1>4. ASSUME NEW r \in Requests, Continue(r)
      PROVE  \/ Create(r) \/ Touch(r) \/ Put(r)
             \/ Purge(r) \/ Delete(r) \/ Revoke(r)
  BY <1>4 DEF Continue, GetMiss, GetHit, CheckExpired, CheckLive, Seal, Decide,
       Forward, Scan, ScanTruncated, Fetch, FetchLost, EndFetch, EndRevoke,
       Reply, shared
<1>5. ASSUME NEW r \in Requests, Create(r) \/ Touch(r) \/ Put(r)
      PROVE  /\ pc[r] \in {"create", "touch", "put"} /\ req[r].sid = s
             /\ Present(s)'
  BY <1>1, <1>3, <1>5 DEF Create, Touch, Put
<1>6. ASSUME NEW r \in Requests, Purge(r)
      PROVE  pc[r] = "purge" /\ req[r].sid = s /\ ~Present(s)'
  BY <1>2, <1>6 DEF Purge
<1>7. ASSUME NEW r \in Requests, Delete(r)
      PROVE  pc[r] = "del" /\ req[r].sid = s /\ ~Present(s)'
  BY <1>2, <1>7 DEF Delete
<1>8. ASSUME NEW r \in Requests, Revoke(r)
      PROVE  pc[r] = "revoke" /\ s \in req[r].doomed /\ ~Present(s)'
  BY <1>2, <1>8 DEF Revoke
<1>9. ASSUME NEW r \in Requests, Start(r) \/ Abort(r)
      PROVE  FALSE
  BY <1>9 DEF Start, StartLogin, StartAccess, StartVerify, StartLogout,
       StartLogoutAll, Begin, Abort, shared
<1> QED
  BY <1>4, <1>5, <1>6, <1>7, <1>8, <1>9
     DEF Next, HandleMfaEnroll, vars, shared

\* A dead session can only come back through a handler that already held it.
THEOREM DeadSessionsStayDead == Spec => DeadStaysDead
<1>1. ASSUME IInv, [Next]_vars, NEW s \in Sessions,
             ~Present(s), \A r \in Requests : ~Holds(r, s)
      PROVE  ~Present(s)'
  <2>1. CASE store'[s] = store[s]
    BY <1>1, <2>1 DEF Present
  <2>2. CASE Tick
    BY <1>1, <2>2, DurationAssumption
       DEF Tick, Aged, Present, NoKey, IInv, TypeOK, Key
  <2> QED
    BY <1>1, <2>1, <2>2, Writers DEF Holds
<1>2. IInv /\ [Next]_vars =>
        [\A s \in Sessions :
           ~Present(s) /\ (\A r \in Requests : ~Holds(r, s)) => ~Present(s)']_vars
  BY <1>1
<1> QED
  BY <1>2, IInvAlways, PTL DEF Spec, DeadStaysDead

\* A live session is only removed by its own logout or its user's logout_all.
THEOREM RemovalAuthorised == Spec => RemovalIsAuthorised
<1>1. ASSUME IInv, [Next]_vars, NEW s \in Sessions, Present(s), ~Present(s)'
      PROVE  \/ store[s].ttl = 0
             \/ IsExpired(s)
             \/ \E r \in Requests : /\ pc[r] \in {"del", "revoke"}
                                    /\ req[r].sub = owner[s]
                                    /\ pc[r] = "del" => req[r].sid = s
  <2>1. store'[s] # store[s]
    BY <1>1 DEF Present
  <2>2. CASE Tick
    BY <1>1, <2>2, DurationAssumption
       DEF Tick, Aged, Present, NoKey, IInv, TypeOK, Key
  <2>3. ASSUME NEW r \in Requests, pc[r] = "purge", req[r].sid = s
        PROVE  IsExpired(s)
    BY <1>1, <2>3 DEF IInv, InFlight
  <2>4. ASSUME NEW r \in Requests,
               \/ pc[r] = "del" /\ req[r].sid = s
               \/ pc[r] = "revoke" /\ s \in req[r].doomed
        PROVE  req[r].sub = owner[s]
    BY <1>1, <2>4 DEF IInv, InFlight
  <2> QED
    BY <1>1, <2>1, <2>2, <2>3, <2>4, Writers
<1>2. IInv /\ [Next]_vars =>
        [\A s \in Sessions : Present(s) /\ ~Present(s)' =>
           \/ store[s].ttl = 0
           \/ IsExpired(s)
           \/ \E r \in Requests : /\ pc[r] \in {"del", "revoke"}
                                  /\ req[r].sub = owner[s]
                                  /\ pc[r] = "del" => req[r].sid = s]_vars
  BY <1>1
<1> QED
  BY <1>2, IInvAlways, PTL DEF Spec, RemovalIsAuthorised
=============================================================================
