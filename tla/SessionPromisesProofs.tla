----------------------- MODULE SessionPromisesProofs -----------------------
(***************************************************************************)
(* Proofs about SessionRefinement and SessionPromises, for every number of *)
(* users, sessions and concurrent requests, every session duration, with   *)
(* or without faults: the session handlers implement SessionLife, and the  *)
(* promises they make are kept.                                            *)
(*                                                                         *)
(* Part 1 says in terms of single variables what each step does.  Part 2   *)
(* adds to IInv of ProxySessionsProofs what the refinement needs: a key    *)
(* outlives its session.  Part 3 is the refinement.  Parts 4 to 7 are the  *)
(* promises, one inductive invariant each.  Parts 8 and 9 are about ends:  *)
(* of sessions, whose late writers run out, and of handlers, whose work    *)
(* does.                                                                   *)
(***************************************************************************)
EXTENDS SessionPromises, ProxySessionsProofs, FiniteSetTheorems

-----------------------------------------------------------------------------
(* The invariants.                                                         *)

\* A key, and a SETEX under way, last at least as long as the session does:
\* what is live leaves Redis only by being deleted.  (In whole seconds: a key
\* that a write-back has set goes in the last, partial one before expires_at.)
Outlives ==
    /\ \A s \in Sessions : Present(s) => store[s].ttl >= left[s]
    /\ \A r \in Requests :
         pc[r] \in {"touch", "put"} => req[r].ttl >= left[req[r].sid]

\* What a request may be doing at each label.
OpAt(label) ==
    CASE label = "create"                       -> {"login"}
      [] label \in {"get", "check", "purge", "touch"} -> {"access", "verify"}
      [] label \in {"decide", "forward"}        -> {"access"}
      [] label \in {"seal", "put"}              -> {"login", "verify"}
      [] label = "del"                          -> {"logout"}
      [] label \in {"scan", "fetch", "revoke"}  -> {"logout_all"}
      [] OTHER -> {"login", "verify", "logout", "logout_all"}

\* A login has its session to itself until it is answered: only then is there
\* a token that names it.
Purpose(r) ==
    pc[r] # "idle" =>
      /\ req[r].op \in OpAt(pc[r])
      /\ req[r].op = "verify" => req[r].mark
      /\ req[r].op # "login" => token[req[r].sid] # None
      /\ req[r].op = "login" =>
           /\ token[req[r].sid] = None
           /\ pc[r] = "create" => ~Present(req[r].sid)
           /\ \A x \in Requests \ {r} : pc[x] # "idle" => req[x].sid # req[r].sid

Purposes == \A r \in Requests : Purpose(r)

\* The session's login has got as far as create_session.
Created(s) ==
    /\ owner[s] # None
    /\ \A r \in Requests : pc[r] = "create" => req[r].sid # s

\* A session without an excuse is not in anybody's hands once it is gone.
HeldIsLive ==
    \A s \in Sessions \ excused, r \in Requests :
        Holds(r, s) /\ pc[r] # "create" => Present(s) \/ IsExpired(s)

\* What the sweep of r has yet to visit or to delete.
Remaining(r) == req[r].unseen \union req[r].keys \union req[r].doomed

\* A sweep misses no session it is to revoke, unless that one has an excuse.
Sweeps(r) ==
    pc[r] # "idle" =>
      /\ pc[r] # "scan" => req[r].unseen = {}
      /\ pc[r] \notin {"scan", "fetch"} => req[r].keys = {}
      /\ pc[r] \notin {"scan", "fetch", "revoke"} => req[r].doomed = {}
      /\ \A g \in req[r].goal : Created(g) /\ owner[g] = req[r].sub
      /\ \A g \in req[r].goal \ excused : Usable(g) => g \in Remaining(r)
      /\ pc[r] = "reply" /\ req[r].op = "logout" /\ req[r].sid \notin excused
           => ~Usable(req[r].sid)

RevocationInv ==
    /\ \A r \in Requests : Sweeps(r)
    /\ \A s \in revoked : Created(s)
    /\ \A s \in revoked \ excused : ~Usable(s)

\* Nobody holds a copy of s that lacks the mark, and nor does Redis.
Sealed(s) ==
    left[s] > 0 =>
      /\ Present(s) => store[s].data.mfa
      /\ \A r \in Requests : Holds(r, s) => req[r].copy.mfa

VerificationInv ==
    /\ \A s \in verified : token[s] # None
    /\ \A s \in verified \ excused : Sealed(s)
    /\ \A r \in Requests :
         /\ pc[r] = "put" => req[r].copy.mfa = req[r].mark
         /\ pc[r] = "reply" /\ req[r].op = "verify" /\ req[r].sid \notin excused
              => Sealed(req[r].sid)

\* A copy that would let its request pass was the session's at some moment of
\* the request, and the session was live then if it has not expired by now.
Deciding(r) ==
    \/ pc[r] = "check" /\ req[r].op = "access" /\ ~IsExpired(req[r].sid)
    \/ pc[r] = "touch" /\ req[r].op = "access"
    \/ pc[r] = "decide"

EntitledOK(r) ==
    /\ Deciding(r) /\ (RequireMfa => req[r].copy.mfa) => r \in entitled
    /\ pc[r] = "forward" => r \in entitled

EntitlementInv == \A r \in Requests : EntitledOK(r)

PromiseInv ==
    Outlives /\ Purposes /\ HeldIsLive /\ RevocationInv /\ VerificationInv
      /\ EntitlementInv

-----------------------------------------------------------------------------
(* Part 1.  What each step does, variable by variable.                     *)

\* Request r goes from one label to another, and no other request moves.
Moves(r, from, to) ==
    /\ pc[r] = from /\ pc'[r] = to
    /\ \A x \in Requests \ {r} : pc'[x] = pc[x] /\ req'[x] = req[x]

KeepsPurpose(r) ==
    /\ req'[r].op = req[r].op /\ req'[r].sid = req[r].sid
    /\ req'[r].sub = req[r].sub /\ req'[r].mark = req[r].mark
    /\ req'[r].goal = req[r].goal

KeepsSweep(r) ==
    /\ req'[r].unseen = req[r].unseen /\ req'[r].keys = req[r].keys
    /\ req'[r].doomed = req[r].doomed

SameSessions == UNCHANGED <<owner, left, store, token>>
SameAnswers == UNCHANGED <<verified, revoked>>

\* A login has been admitted, for a new session s.
Admits(r, s) ==
    /\ Moves(r, "idle", "create")
    /\ owner[s] = None /\ owner'[s] \in Users
    /\ \A t \in Sessions \ {s} : owner'[t] = owner[t]
    /\ req'[r].op = "login" /\ req'[r].sid = s
    /\ ~req'[r].copy.mfa
    /\ req'[r].mark => s \in earned'
    /\ req'[r].goal = {} /\ req'[r].unseen = {}
    /\ req'[r].keys = {} /\ req'[r].doomed = {}
    /\ UNCHANGED <<left, store, token>> /\ SameAnswers
    /\ earned' \in {earned, earned \union {s}}

\* A request that presents the token of s has been received.
Receives(r, s) ==
    /\ token[s] # None
    /\ req'[r].sid = s /\ req'[r].sub = token[s]
    /\ req'[r].keys = {} /\ req'[r].doomed = {}
    /\ SameSessions /\ SameAnswers
    /\ \/ /\ Moves(r, "idle", "get")
          /\ req'[r].op \in {"access", "verify"}
          /\ req'[r].op = "access" => earned' = earned
          /\ req'[r].op = "verify" =>
               req'[r].mark /\ earned' = earned \union {s}
          /\ req'[r].goal = {} /\ req'[r].unseen = {}
       \/ /\ Moves(r, "idle", "del")
          /\ req'[r].op = "logout" /\ earned' = earned
          /\ req'[r].goal = {} /\ req'[r].unseen = {}
       \/ /\ Moves(r, "idle", "scan")
          /\ req'[r].op = "logout_all" /\ earned' = earned
          /\ req'[r].goal = LiveSessions(token[s]) /\ req'[r].unseen = Sessions

Begins(r) == \E s \in Sessions : Admits(r, s) \/ Receives(r, s)

\* Request r writes what it holds to the session it is about.
Writes(r, n) ==
    /\ store' = [store EXCEPT ![req[r].sid] = [data |-> req[r].copy, ttl |-> n]]
    /\ n \in 0..Duration
    /\ KeepsPurpose(r) /\ KeepsSweep(r)
    /\ \/ Moves(r, "create", "seal") /\ n = Duration /\ req'[r].copy = req[r].copy
       \/ Moves(r, "touch", AfterGet(r)) /\ n = req[r].ttl /\ req'[r].copy = req[r].copy
       \/ Put(r) /\ Moves(r, "put", "reply") /\ n = req[r].ttl
    /\ UNCHANGED <<owner, left, token, earned>> /\ SameAnswers

\* Request r deletes session s.
Deletes(r, s) ==
    /\ store'[s] = NoKey
    /\ \A t \in Sessions \ {s} : store'[t] = store[t]
    /\ \/ Moves(r, "purge", "idle") /\ s = req[r].sid
       \/ /\ Delete(r) /\ Moves(r, "del", "reply") /\ s = req[r].sid
          /\ KeepsPurpose(r) /\ KeepsSweep(r)
       \/ /\ Revoke(r) /\ Moves(r, "revoke", "revoke") /\ KeepsPurpose(r)
          /\ s \in req[r].doomed
          /\ req'[r].unseen = req[r].unseen /\ req'[r].keys = req[r].keys
          /\ req'[r].doomed = req[r].doomed \ {s}
    /\ UNCHANGED <<owner, left, token, earned>> /\ SameAnswers

\* Request r goes on without having written or answered anything.
GoesOn(r) ==
    /\ KeepsPurpose(r) /\ SameSessions /\ UNCHANGED earned /\ SameAnswers
    /\ \/ /\ Moves(r, "get", "check") /\ KeepsSweep(r)
          /\ Present(req[r].sid) /\ req'[r].copy = store[req[r].sid].data
       \/ /\ Moves(r, "check", "purge") /\ KeepsSweep(r) /\ IsExpired(req[r].sid)
       \/ /\ Moves(r, "check", "touch") /\ KeepsSweep(r) /\ left[req[r].sid] > 0
          /\ req'[r].copy = req[r].copy /\ req'[r].ttl = left[req[r].sid]
       \/ /\ Moves(r, "check", AfterGet(r)) /\ KeepsSweep(r)
          /\ left[req[r].sid] = 0 /\ req'[r].copy = req[r].copy
       \/ /\ Moves(r, "seal", "put") /\ KeepsSweep(r) /\ left[req[r].sid] > 0
          /\ req'[r].copy.mfa = req[r].mark /\ req'[r].ttl = left[req[r].sid]
       \/ /\ Moves(r, "seal", "reply") /\ KeepsSweep(r) /\ ~(left[req[r].sid] > 0)
       \/ /\ Moves(r, "decide", "forward") /\ KeepsSweep(r)
          /\ RequireMfa => req[r].copy.mfa

\* One set is the other with something taken out of it.
Fewer(S, T) == S \subseteq T /\ S # T

\* The sweep of request r goes on: it keeps in sight what it must, and gets on.
Surveys(r) ==
    /\ KeepsPurpose(r) /\ SameSessions /\ UNCHANGED earned /\ SameAnswers
    /\ \/ /\ pc'[r] \in {"scan", "fetch"} /\ Moves(r, "scan", pc'[r])
          /\ pc'[r] = "fetch" => req'[r].unseen = {}
          /\ pc'[r] = "scan" => /\ req'[r].unseen # {}
                                /\ Fewer(req'[r].unseen, req[r].unseen)
          /\ req'[r].doomed = req[r].doomed
          /\ \A s \in Remaining(r) : Present(s) =>
               s \in Remaining(r)' \/ (ScanTruncated(r) /\ s \in req[r].unseen)
       \/ /\ Moves(r, "fetch", "fetch")
          /\ req'[r].unseen = req[r].unseen
          /\ Fewer(req'[r].keys, req[r].keys)
          /\ \A s \in Remaining(r) :
               Present(s) /\ Matches(r, s) =>
               s \in Remaining(r)'
                 \/ (FetchLost(r) /\ s \in req[r].keys \ req'[r].keys)
       \/ /\ Moves(r, "fetch", "revoke") /\ KeepsSweep(r) /\ req[r].keys = {}
       \/ /\ Moves(r, "revoke", "reply") /\ KeepsSweep(r) /\ req[r].doomed = {}

\* Request r answers with a 200.
Answers(r) ==
    /\ Moves(r, "reply", "idle")
    /\ UNCHANGED <<owner, left, store, earned>>
    /\ \A s \in Sessions : token'[s] =
         IF req[r].op = "login" /\ s = req[r].sid THEN req[r].sub ELSE token[s]
    /\ verified' = IF req[r].op = "verify" THEN verified \union {req[r].sid}
                                           ELSE verified
    /\ revoked' = CASE req[r].op = "logout" -> revoked \union {req[r].sid}
                    [] req[r].op = "logout_all" -> revoked \union req[r].goal
                    [] OTHER -> revoked

\* Request r ends with a refusal, or in the middle.
GivesUp(r) ==
    /\ Moves(r, pc[r], "idle")
    /\ SameSessions /\ UNCHANGED earned /\ SameAnswers

\* Time passes.
Ages ==
    /\ \A s \in Sessions :
         /\ left'[s] = IF owner[s] # None /\ left[s] >= 0 THEN left[s] - 1
                                                          ELSE left[s]
         /\ store[s].ttl > 0 => /\ store'[s].ttl = store[s].ttl - 1
                                /\ store'[s].data = store[s].data
         /\ ~(store[s].ttl > 0) => store'[s] = NoKey
    /\ UNCHANGED <<owner, token, earned, pc, req>> /\ SameAnswers

\* Nothing of what is proved about here changes.
Rests == UNCHANGED <<owner, left, store, token, earned, pc, req>> /\ SameAnswers

Effect(r) ==
    \/ Begins(r) \/ GoesOn(r) \/ Surveys(r) \/ Answers(r) \/ GivesUp(r)
    \/ \E n \in 0..Duration : Writes(r, n)
    \/ \E s \in Sessions : Deletes(r, s)

\* A request that proceeds moves alone, to the locals and the label given.
LEMMA ProceedMoves ==
    ASSUME TypeOK, NEW r \in Requests, NEW q, NEW label, Proceed(r, q, label)
    PROVE  Moves(r, pc[r], label) /\ req'[r] = q
BY DEF TypeOK, Proceed, Moves

\* The first step of a request.
LEMMA StartEffect ==
    ASSUME IInv, NEW r \in Requests, Start(r)
    PROVE  Begins(r)
<1>0. TypeOK
  BY DEF IInv
<1>s. PICK s \in Sessions : \/ \E u \in Users : StartLogin(r, u, s)
                          \/ StartAccess(r, s)
                          \/ StartVerify(r, s)
                          \/ StartLogout(r, s)
                          \/ StartLogoutAll(r, s)
  BY DEF Start
<1>1. ASSUME NEW u \in Users, StartLogin(r, u, s)
      PROVE  Admits(r, s)
  <2> DEFINE q == [NoRequest EXCEPT
                !.op = "login", !.sid = s, !.sub = u,
                !.copy = [user |-> u, mfa |-> FALSE], !.mark = LoginMark(u)]
  <2>1. Moves(r, "idle", "create") /\ req'[r] = q
    BY <1>0, <1>1, ProceedMoves DEF StartLogin
  <2>2. /\ q.op = "login" /\ q.sid = s /\ q.mark = LoginMark(u)
        /\ q.copy.mfa = FALSE
        /\ q.goal = {} /\ q.unseen = {} /\ q.keys = {} /\ q.doomed = {}
    BY DEF NoRequest
  <2> HIDE DEF q
  <2>3. /\ owner[s] = None /\ owner'[s] \in Users
        /\ \A t \in Sessions \ {s} : owner'[t] = owner[t]
    BY <1>0, <1>1 DEF StartLogin, TypeOK
  <2>4. /\ LoginMark(u) => s \in earned'
        /\ earned' \in {earned, earned \union {s}}
    BY <1>1 DEF StartLogin, LoginMark
  <2> QED
    BY <1>1, <2>1, <2>2, <2>3, <2>4 DEF StartLogin, Admits, SameAnswers
<1>2. ASSUME NEW n, NEW label, Begin(r, s, n, label)
      PROVE  /\ token[s] # None /\ SameSessions
             /\ Moves(r, "idle", label)
             /\ req'[r] = [n EXCEPT !.sid = s, !.sub = token[s]]
  BY <1>0, <1>2, ProceedMoves DEF Begin, shared, SameSessions
<1>3. CASE StartAccess(r, s)
  <2> DEFINE n == [NoRequest EXCEPT !.op = "access"]
             q == [n EXCEPT !.sid = s, !.sub = token[s]]
  <2>1. /\ q.op = "access" /\ q.sid = s /\ q.sub = token[s]
        /\ q.goal = {} /\ q.unseen = {} /\ q.keys = {} /\ q.doomed = {}
    BY DEF NoRequest
  <2>2. Begin(r, s, n, "get") /\ UNCHANGED history
    BY <1>3 DEF StartAccess
  <2>3. /\ token[s] # None /\ SameSessions
        /\ Moves(r, "idle", "get") /\ req'[r] = q
    BY <1>2, <2>2, Zenon
  <2> HIDE DEF n, q
  <2> QED
    BY <2>1, <2>2, <2>3 DEF history, Receives, SameAnswers, Begins
<1>4. CASE StartVerify(r, s)
  <2> DEFINE n == [NoRequest EXCEPT !.op = "verify", !.mark = TRUE]
             q == [n EXCEPT !.sid = s, !.sub = token[s]]
  <2>1. /\ q.op = "verify" /\ q.mark = TRUE /\ q.sid = s /\ q.sub = token[s]
        /\ q.goal = {} /\ q.unseen = {} /\ q.keys = {} /\ q.doomed = {}
    BY DEF NoRequest
  <2>2. /\ Begin(r, s, n, "get") /\ earned' = earned \union {s}
        /\ UNCHANGED <<verified, revoked>>
    BY <1>4 DEF StartVerify
  <2>3. /\ token[s] # None /\ SameSessions
        /\ Moves(r, "idle", "get") /\ req'[r] = q
    BY <1>2, <2>2, Zenon
  <2> HIDE DEF n, q
  <2> QED
    BY <2>1, <2>2, <2>3 DEF Receives, SameAnswers, Begins
<1>5. CASE StartLogout(r, s)
  <2> DEFINE n == [NoRequest EXCEPT !.op = "logout"]
             q == [n EXCEPT !.sid = s, !.sub = token[s]]
  <2>1. /\ q.op = "logout" /\ q.sid = s /\ q.sub = token[s]
        /\ q.goal = {} /\ q.unseen = {} /\ q.keys = {} /\ q.doomed = {}
    BY DEF NoRequest
  <2>2. Begin(r, s, n, "del") /\ UNCHANGED history
    BY <1>5 DEF StartLogout
  <2>3. /\ token[s] # None /\ SameSessions
        /\ Moves(r, "idle", "del") /\ req'[r] = q
    BY <1>2, <2>2, Zenon
  <2> HIDE DEF n, q
  <2> QED
    BY <2>1, <2>2, <2>3 DEF history, Receives, SameAnswers, Begins
<1>6. CASE StartLogoutAll(r, s)
  <2> DEFINE L == LiveSessions(token[s])
             n == [NoRequest EXCEPT !.op = "logout_all", !.unseen = Sessions,
                                    !.goal = L]
             q == [n EXCEPT !.sid = s, !.sub = token[s]]
  <2> HIDE DEF L
  <2>1. /\ q.op = "logout_all" /\ q.sid = s /\ q.sub = token[s]
        /\ q.goal = L /\ q.unseen = Sessions /\ q.keys = {} /\ q.doomed = {}
    BY DEF NoRequest
  <2>2. Begin(r, s, n, "scan") /\ UNCHANGED history
    BY <1>6 DEF StartLogoutAll, L
  <2>3. /\ token[s] # None /\ SameSessions
        /\ Moves(r, "idle", "scan") /\ req'[r] = q
    BY <1>2, <2>2, Zenon
  <2> HIDE DEF n, q
  <2> QED
    BY <2>1, <2>2, <2>3 DEF history, Receives, SameAnswers, Begins, L
<1> QED
  BY <1>s, <1>1, <1>3, <1>4, <1>5, <1>6 DEF Begins

\* Each later step of a request.
LEMMA ContinueEffect ==
    ASSUME IInv, NEW r \in Requests, Continue(r)
    PROVE  Effect(r)
<1>0. /\ TypeOK /\ req[r] \in Request
      /\ pc[r] # "idle" => req[r].sid \in Sessions
  BY DEF IInv, TypeOK
<1>a. ASSUME NEW s \in Sessions, Del({s})
      PROVE  /\ store'[s] = NoKey
             /\ \A t \in Sessions \ {s} : store'[t] = store[t]
  BY <1>a DEF Del
<1> USE DEF KeepsPurpose, KeepsSweep, SameSessions, SameAnswers, history, shared
<1>1. CASE Create(r)
  <2>1. Moves(r, "create", "seal") /\ req'[r] = req[r]
    BY <1>0, <1>1, ProceedMoves DEF Create, Goto
  <2>2. Duration \in 0..Duration
    BY DurationAssumption
  <2>3. Writes(r, Duration)
    BY <1>1, <2>1, <2>2 DEF Create, Setex, Writes
  <2> QED
    BY <2>2, <2>3 DEF Effect
<1>2. CASE GetHit(r)
  <2> DEFINE q == [req[r] EXCEPT !.copy = store[req[r].sid].data]
  <2>1. Moves(r, "get", "check") /\ req'[r] = q
    BY <1>0, <1>2, ProceedMoves DEF GetHit
  <2>2. /\ q.op = req[r].op /\ q.sid = req[r].sid /\ q.sub = req[r].sub
        /\ q.mark = req[r].mark /\ q.goal = req[r].goal
        /\ q.unseen = req[r].unseen /\ q.keys = req[r].keys
        /\ q.doomed = req[r].doomed /\ q.copy = store[req[r].sid].data
    BY <1>0 DEF Request
  <2> HIDE DEF q
  <2> QED
    BY <1>2, <2>1, <2>2 DEF GetHit, GoesOn, Effect
<1>3. CASE CheckExpired(r)
  <2>1. Moves(r, "check", "purge") /\ req'[r] = req[r]
    BY <1>0, <1>3, ProceedMoves DEF CheckExpired, Goto
  <2> QED
    BY <1>3, <2>1 DEF CheckExpired, GoesOn, Effect
<1>4. CASE Purge(r)
  <2>1. Moves(r, "purge", "idle") /\ req[r].sid \in Sessions
    BY <1>0, <1>4, ProceedMoves DEF Purge, Finish
  <2> QED
    BY <1>4, <1>a, <2>1 DEF Purge, Deletes, Effect
<1>5. CASE CheckLive(r)
  <2>1. CASE WorthWriting(req[r].sid)
    <3> DEFINE q == [req[r] EXCEPT !.ttl = left[req[r].sid]]
    <3>1. Moves(r, "check", "touch") /\ req'[r] = q
      BY <1>0, <1>5, <2>1, ProceedMoves DEF CheckLive
    <3>2. /\ q.op = req[r].op /\ q.sid = req[r].sid /\ q.sub = req[r].sub
          /\ q.mark = req[r].mark /\ q.goal = req[r].goal
          /\ q.unseen = req[r].unseen /\ q.keys = req[r].keys
          /\ q.doomed = req[r].doomed /\ q.copy = req[r].copy
          /\ q.ttl = left[req[r].sid]
      BY <1>0 DEF Request
    <3> HIDE DEF q
    <3> QED
      BY <1>5, <2>1, <3>1, <3>2 DEF CheckLive, WorthWriting, GoesOn, Effect
  <2>2. CASE ~WorthWriting(req[r].sid)
    <3>1. Moves(r, "check", AfterGet(r)) /\ req'[r] = req[r]
      BY <1>0, <1>5, <2>2, ProceedMoves DEF CheckLive, Goto
    <3>2. left[req[r].sid] = 0
      BY <1>0, <1>5, <2>2 DEF CheckLive, WorthWriting, IsExpired, TypeOK
    <3> QED
      BY <1>5, <3>1, <3>2 DEF CheckLive, GoesOn, Effect
  <2> QED
    BY <2>1, <2>2
<1>6. CASE Touch(r)
  <2> DEFINE q == [req[r] EXCEPT !.ttl = 0]
  <2>1. Moves(r, "touch", AfterGet(r)) /\ req'[r] = q
    BY <1>0, <1>6, ProceedMoves DEF Touch
  <2>2. /\ q.op = req[r].op /\ q.sid = req[r].sid /\ q.sub = req[r].sub
        /\ q.mark = req[r].mark /\ q.goal = req[r].goal
        /\ q.unseen = req[r].unseen /\ q.keys = req[r].keys
        /\ q.doomed = req[r].doomed /\ q.copy = req[r].copy
    BY <1>0 DEF Request
  <2> HIDE DEF q
  <2>3. req[r].ttl \in 0..Duration
    BY <1>0 DEF Request
  <2>4. Writes(r, req[r].ttl)
    BY <1>6, <2>1, <2>2, <2>3 DEF Touch, Setex, Writes
  <2> QED
    BY <2>3, <2>4 DEF Effect
<1>7. CASE Seal(r)
  <2>1. CASE WorthWriting(req[r].sid)
    <3> DEFINE q == [req[r] EXCEPT !.copy = Marked(r), !.ttl = left[req[r].sid]]
    <3>1. Moves(r, "seal", "put") /\ req'[r] = q
      BY <1>0, <1>7, <2>1, ProceedMoves DEF Seal
    <3>2. /\ q.op = req[r].op /\ q.sid = req[r].sid /\ q.sub = req[r].sub
          /\ q.mark = req[r].mark /\ q.goal = req[r].goal
          /\ q.unseen = req[r].unseen /\ q.keys = req[r].keys
          /\ q.doomed = req[r].doomed /\ q.copy = Marked(r)
          /\ q.ttl = left[req[r].sid]
      BY <1>0 DEF Request
    <3>3. Marked(r).mfa = req[r].mark
      BY <1>0 DEF Request, Copy, Marked
    <3> HIDE DEF q
    <3> QED
      BY <1>7, <2>1, <3>1, <3>2, <3>3 DEF Seal, WorthWriting, GoesOn, Effect
  <2>2. CASE ~WorthWriting(req[r].sid)
    <3> DEFINE q == [req[r] EXCEPT !.copy = NoCopy]
    <3>1. Moves(r, "seal", "reply") /\ req'[r] = q
      BY <1>0, <1>7, <2>2, ProceedMoves DEF Seal
    <3>2. /\ q.op = req[r].op /\ q.sid = req[r].sid /\ q.sub = req[r].sub
          /\ q.mark = req[r].mark /\ q.goal = req[r].goal
          /\ q.unseen = req[r].unseen /\ q.keys = req[r].keys
          /\ q.doomed = req[r].doomed
      BY <1>0 DEF Request
    <3> HIDE DEF q
    <3> QED
      BY <1>7, <2>2, <3>1, <3>2 DEF Seal, WorthWriting, GoesOn, Effect
  <2> QED
    BY <2>1, <2>2
<1>8. CASE Put(r)
  <2> DEFINE q == [req[r] EXCEPT !.ttl = 0, !.copy = NoCopy]
  <2>1. Moves(r, "put", "reply") /\ req'[r] = q
    BY <1>0, <1>8, ProceedMoves DEF Put
  <2>2. /\ q.op = req[r].op /\ q.sid = req[r].sid /\ q.sub = req[r].sub
        /\ q.mark = req[r].mark /\ q.goal = req[r].goal
        /\ q.unseen = req[r].unseen /\ q.keys = req[r].keys
        /\ q.doomed = req[r].doomed
    BY <1>0 DEF Request
  <2> HIDE DEF q
  <2>3. req[r].ttl \in 0..Duration
    BY <1>0 DEF Request
  <2>4. Writes(r, req[r].ttl)
    BY <1>8, <2>1, <2>2, <2>3 DEF Put, Setex, Writes
  <2> QED
    BY <2>3, <2>4 DEF Effect
<1>9. CASE Decide(r)
  <2>1. CASE Finish(r)
    BY <1>0, <1>9, <2>1, ProceedMoves DEF Decide, Finish, GivesUp, Effect
  <2>2. CASE Goto(r, "forward") /\ (RequireMfa => req[r].copy.mfa)
    <3>1. Moves(r, "decide", "forward") /\ req'[r] = req[r]
      BY <1>0, <1>9, <2>2, ProceedMoves DEF Decide, Goto
    <3> QED
      BY <1>9, <2>2, <3>1 DEF Decide, GoesOn, Effect
  <2> QED
    BY <1>9, <2>1, <2>2 DEF Decide, Clears
<1>10. CASE Delete(r)
  <2>1. /\ Moves(r, "del", "reply") /\ req'[r] = req[r]
        /\ req[r].sid \in Sessions
    BY <1>0, <1>10, ProceedMoves DEF Delete, Goto
  <2> QED
    BY <1>10, <1>a, <2>1 DEF Delete, Deletes, Effect
<1>11. CASE Scan(r)
  <2>1. PICK batch \in SUBSET req[r].unseen :
          /\ batch # {}
          /\ Proceed(r, [req[r] EXCEPT
                          !.unseen = @ \ batch,
                          !.keys = @ \union {s \in batch : Present(s)}],
                     IF batch = req[r].unseen THEN "fetch" ELSE "scan")
    BY <1>11, Zenon DEF Scan
  <2> DEFINE K == req[r].keys \union {s \in batch : Present(s)}
             q == [req[r] EXCEPT !.unseen = @ \ batch, !.keys = K]
             l == IF batch = req[r].unseen THEN "fetch" ELSE "scan"
  <2>2. Proceed(r, q, l)
    BY <2>1
  <2>3. Moves(r, "scan", l) /\ req'[r] = q /\ pc'[r] = l
    BY <1>0, <1>11, <2>2, ProceedMoves DEF Scan, Moves
  <2>4. \A s \in batch : Present(s) => s \in K
    OBVIOUS
  <2>5. req[r].keys \subseteq K
    OBVIOUS
  <2> HIDE DEF K
  <2>6. /\ q.op = req[r].op /\ q.sid = req[r].sid /\ q.sub = req[r].sub
        /\ q.mark = req[r].mark /\ q.goal = req[r].goal
        /\ q.unseen = req[r].unseen \ batch /\ q.keys = K
        /\ q.doomed = req[r].doomed
    BY <1>0 DEF Request
  <2> HIDE DEF q
  <2>7. /\ l \in {"scan", "fetch"}
        /\ l = "fetch" => req[r].unseen \ batch = {}
        /\ l = "scan" => req[r].unseen \ batch # {}
    OBVIOUS
  <2> HIDE DEF l
  <2>9. Fewer(req[r].unseen \ batch, req[r].unseen)
    BY <2>1 DEF Fewer
  <2>8. \A s \in Remaining(r) : Present(s) => s \in Remaining(r)'
    BY <2>3, <2>4, <2>5, <2>6 DEF Remaining
  <2> QED
    BY <1>11, <2>3, <2>6, <2>7, <2>8, <2>9 DEF Scan, Surveys, Effect
<1>12. CASE ScanTruncated(r)
  <2> DEFINE q == [req[r] EXCEPT !.unseen = {}]
  <2>1. Moves(r, "scan", "fetch") /\ req'[r] = q /\ pc'[r] = "fetch"
    BY <1>0, <1>12, ProceedMoves DEF ScanTruncated, Moves
  <2>2. /\ q.op = req[r].op /\ q.sid = req[r].sid /\ q.sub = req[r].sub
        /\ q.mark = req[r].mark /\ q.goal = req[r].goal
        /\ q.unseen = {} /\ q.keys = req[r].keys
        /\ q.doomed = req[r].doomed
    BY <1>0 DEF Request
  <2> HIDE DEF q
  <2>3. \A s \in Remaining(r) : s \in Remaining(r)' \/ s \in req[r].unseen
    BY <2>1, <2>2 DEF Remaining
  <2>4. /\ SameSessions /\ UNCHANGED earned /\ SameAnswers
    BY <1>12 DEF ScanTruncated
  <2> QED
    BY <1>12, <2>1, <2>2, <2>3, <2>4 DEF Surveys, Effect
<1>13. CASE Fetch(r)
  <2>1. PICK s \in req[r].keys :
          Proceed(r, [req[r] EXCEPT
                       !.keys = @ \ {s},
                       !.doomed = IF Present(s) /\ Matches(r, s)
                                  THEN @ \union {s} ELSE @], "fetch")
    BY <1>13, Zenon DEF Fetch
  <2> DEFINE D == IF Present(s) /\ Matches(r, s)
                  THEN req[r].doomed \union {s} ELSE req[r].doomed
             q == [req[r] EXCEPT !.keys = @ \ {s}, !.doomed = D]
  <2>2. Proceed(r, q, "fetch")
    BY <2>1
  <2>3. Moves(r, "fetch", "fetch") /\ req'[r] = q
    BY <1>0, <1>13, <2>2, ProceedMoves DEF Fetch
  <2>4. req[r].doomed \subseteq D /\ (Present(s) /\ Matches(r, s) => s \in D)
    OBVIOUS
  <2> HIDE DEF D
  <2>5. /\ q.op = req[r].op /\ q.sid = req[r].sid /\ q.sub = req[r].sub
        /\ q.mark = req[r].mark /\ q.goal = req[r].goal
        /\ q.unseen = req[r].unseen /\ q.keys = req[r].keys \ {s}
        /\ q.doomed = D
    BY <1>0 DEF Request
  <2> HIDE DEF q
  <2>6. \A t \in Remaining(r) :
          Present(t) /\ Matches(r, t) => t \in Remaining(r)'
    BY <2>3, <2>4, <2>5 DEF Remaining
  <2>7. Fewer(req[r].keys \ {s}, req[r].keys)
    BY <2>1 DEF Fewer
  <2> QED
    BY <1>13, <2>3, <2>5, <2>6, <2>7 DEF Fetch, Surveys, Effect
<1>14. CASE FetchLost(r)
  <2>1. PICK s \in req[r].keys :
          Proceed(r, [req[r] EXCEPT !.keys = @ \ {s}], "fetch")
    BY <1>14 DEF FetchLost
  <2> DEFINE q == [req[r] EXCEPT !.keys = @ \ {s}]
  <2>2. Moves(r, "fetch", "fetch") /\ req'[r] = q
    BY <1>0, <1>14, <2>1, ProceedMoves DEF FetchLost
  <2>3. /\ q.op = req[r].op /\ q.sid = req[r].sid /\ q.sub = req[r].sub
        /\ q.mark = req[r].mark /\ q.goal = req[r].goal
        /\ q.unseen = req[r].unseen /\ q.keys = req[r].keys \ {s}
        /\ q.doomed = req[r].doomed
    BY <1>0 DEF Request
  <2> HIDE DEF q
  <2>4. \A t \in Remaining(r) :
          t \in Remaining(r)' \/ t \in req[r].keys \ req'[r].keys
    BY <2>2, <2>3 DEF Remaining
  <2>5. /\ SameSessions /\ UNCHANGED earned /\ SameAnswers
    BY <1>14 DEF FetchLost
  <2>6. Fewer(req[r].keys \ {s}, req[r].keys)
    BY <2>1 DEF Fewer
  <2> QED
    BY <1>14, <2>2, <2>3, <2>4, <2>5, <2>6 DEF Surveys, Effect
<1>15. CASE EndFetch(r)
  <2>1. Moves(r, "fetch", "revoke") /\ req'[r] = req[r]
    BY <1>0, <1>15, ProceedMoves DEF EndFetch, Goto
  <2> QED
    BY <1>15, <2>1 DEF EndFetch, Surveys, Effect
<1>16. CASE Revoke(r)
  <2>1. PICK s \in req[r].doomed :
          Del({s}) /\ Proceed(r, [req[r] EXCEPT !.doomed = @ \ {s}], "revoke")
    BY <1>16 DEF Revoke
  <2> DEFINE q == [req[r] EXCEPT !.doomed = @ \ {s}]
  <2>2. Moves(r, "revoke", "revoke") /\ req'[r] = q
    BY <1>0, <1>16, <2>1, ProceedMoves DEF Revoke
  <2>3. /\ q.op = req[r].op /\ q.sid = req[r].sid /\ q.sub = req[r].sub
        /\ q.mark = req[r].mark /\ q.goal = req[r].goal
        /\ q.unseen = req[r].unseen /\ q.keys = req[r].keys
        /\ q.doomed = req[r].doomed \ {s}
    BY <1>0 DEF Request
  <2> HIDE DEF q
  <2>4. s \in Sessions
    BY <1>0 DEF Request
  <2>5. Deletes(r, s)
    BY <1>16, <1>a, <2>1, <2>2, <2>3, <2>4 DEF Revoke, Deletes
  <2> QED
    BY <2>4, <2>5 DEF Effect
<1>17. CASE EndRevoke(r)
  <2>1. Moves(r, "revoke", "reply") /\ req'[r] = req[r]
    BY <1>0, <1>17, ProceedMoves DEF EndRevoke, Goto
  <2> QED
    BY <1>17, <2>1 DEF EndRevoke, Surveys, Effect
<1>18. CASE Reply(r)
  <2>1. Moves(r, "reply", "idle")
    BY <1>0, <1>18, ProceedMoves DEF Reply, Finish
  <2>2. \A s \in Sessions : token'[s] =
          IF req[r].op = "login" /\ s = req[r].sid THEN req[r].sub ELSE token[s]
    BY <1>0, <1>18 DEF Reply, TypeOK
  <2> QED
    BY <1>18, <2>1, <2>2 DEF Reply, Answers, Effect
<1>19. CASE GetMiss(r) \/ Forward(r)
  BY <1>0, <1>19, ProceedMoves DEF GetMiss, Forward, Finish, GivesUp, Effect
<1> QED
  BY <1>1, <1>2, <1>3, <1>4, <1>5, <1>6, <1>7, <1>8, <1>9, <1>10, <1>11,
     <1>12, <1>13, <1>14, <1>15, <1>16, <1>17, <1>18, <1>19 DEF Continue

\* Every step of the system is one of those above.
LEMMA Effects ==
    ASSUME IInv, [Next]_vars
    PROVE  Rests \/ Ages \/ \E r \in Requests : Effect(r)
<1>1. ASSUME NEW r \in Requests, Start(r) \/ Continue(r)
      PROVE  Effect(r)
  BY <1>1, StartEffect, ContinueEffect DEF Effect
<1>2. ASSUME NEW r \in Requests, Abort(r)
      PROVE  Effect(r)
  BY <1>2, ProceedMoves
     DEF IInv, Abort, Finish, GivesUp, Effect, shared, history, SameSessions,
         SameAnswers
<1>3. ASSUME NEW s \in Sessions, HandleMfaEnroll(s)
      PROVE  Rests
  BY <1>3 DEF HandleMfaEnroll, history, Rests, SameAnswers
<1>4. CASE Tick
  BY <1>4 DEF IInv, TypeOK, Key, Tick, Aged, Ages, history, SameAnswers
<1>5. CASE UNCHANGED vars
  BY <1>5 DEF vars, shared, history, Rests, SameAnswers
<1> QED
  BY <1>1, <1>2, <1>3, <1>4, <1>5 DEF Next

-----------------------------------------------------------------------------
(* Part 2.  Keys outlive their sessions, and requests keep to their purpose. *)

\* A request that stays where it was had its session before, too.
LEMMA Stays ==
    ASSUME IInv, IInv', NEW r \in Requests, NEW x \in Requests, x # r,
           NEW from, NEW to, Moves(r, from, to)
    PROVE  /\ pc'[x] = pc[x] /\ req'[x] = req[x]
           /\ pc[x] # "idle" => req[x].sid \in Sessions
BY DEF Moves, IInv, TypeOK

\* Every request of a step is the one that moves, or stays where it was.
LEMMA EffectMoves ==
    ASSUME NEW r \in Requests, Effect(r)
    PROVE  Moves(r, pc[r], pc'[r])
<1>1. CASE Begins(r)
  BY <1>1 DEF Begins, Admits, Receives, Moves
<1>2. CASE GoesOn(r)
  BY <1>2 DEF GoesOn, Moves
<1>3. CASE Surveys(r)
  BY <1>3 DEF Surveys, Moves
<1>4. CASE Answers(r) \/ GivesUp(r)
  BY <1>4 DEF Answers, GivesUp, Moves
<1>5. ASSUME NEW n, Writes(r, n)
      PROVE  Moves(r, pc[r], pc'[r])
  BY <1>5 DEF Writes, Moves
<1>6. ASSUME NEW s, Deletes(r, s)
      PROVE  Moves(r, pc[r], pc'[r])
  BY <1>6 DEF Deletes, Moves
<1> QED
  BY <1>1, <1>2, <1>3, <1>4, <1>5, <1>6, Zenon DEF Effect

\* expires_at is set once: no step of a request moves it, or an owner.
LEMMA EffectKeepsTime ==
    ASSUME NEW r \in Requests, Effect(r)
    PROVE  /\ left' = left
           /\ \A s \in Sessions : owner[s] # None => owner'[s] = owner[s]
<1> DEFINE Kept == left' = left
                   /\ \A s \in Sessions : owner[s] # None => owner'[s] = owner[s]
<1>1. CASE Begins(r)
  BY <1>1 DEF Begins, Admits, Receives, SameSessions
<1>2. CASE GoesOn(r) \/ Surveys(r) \/ Answers(r) \/ GivesUp(r)
  BY <1>2 DEF GoesOn, Surveys, Answers, GivesUp, SameSessions
<1>3. ASSUME NEW n, Writes(r, n)
      PROVE  Kept
  BY <1>3 DEF Writes
<1>4. ASSUME NEW s, Deletes(r, s)
      PROVE  Kept
  BY <1>4 DEF Deletes
<1> QED
  BY <1>1, <1>2, <1>3, <1>4, Zenon DEF Effect

\* Only the answers of verify, logout and logout_all add to what the histories
\* promise, and only an answer hands out a token: every other effect leaves the
\* three alone.
LEMMA EffectKeepsAnswers ==
    ASSUME NEW r \in Requests, Effect(r), ~Answers(r)
    PROVE  SameAnswers /\ token' = token
<1>1. CASE Begins(r)
  BY <1>1 DEF Begins, Admits, Receives, SameSessions, SameAnswers
<1>2. CASE GoesOn(r) \/ Surveys(r) \/ GivesUp(r)
  BY <1>2 DEF GoesOn, Surveys, GivesUp, SameSessions
<1>3. ASSUME NEW n, Writes(r, n)
      PROVE  SameAnswers /\ token' = token
  BY <1>3 DEF Writes
<1>4. ASSUME NEW s, Deletes(r, s)
      PROVE  SameAnswers /\ token' = token
  BY <1>4 DEF Deletes
<1> QED
  BY <1>1, <1>2, <1>3, <1>4, Zenon DEF Effect

\* Only the admission of a login brings a request to its SETEX of a new session.
LEMMA ComesFromIdle ==
    ASSUME NEW r \in Requests, Effect(r), pc'[r] = "create"
    PROVE  \E s \in Sessions : Admits(r, s)
<1>1. ASSUME NEW s \in Sessions, Receives(r, s)
      PROVE  FALSE
  BY <1>1 DEF Receives, Moves
<1>2. ASSUME GoesOn(r) PROVE FALSE
  BY <1>2 DEF GoesOn, Moves, AfterGet
<1>3. ASSUME Surveys(r) PROVE FALSE
  BY <1>3 DEF Surveys, Moves
<1>4. ASSUME Answers(r) \/ GivesUp(r) PROVE FALSE
  BY <1>4 DEF Answers, GivesUp, Moves
<1>5. ASSUME NEW n, Writes(r, n) PROVE FALSE
  BY <1>5 DEF Writes, Moves, AfterGet
<1>6. ASSUME NEW s, Deletes(r, s) PROVE FALSE
  BY <1>6 DEF Deletes, Moves
<1> QED
  BY <1>1, <1>2, <1>3, <1>4, <1>5, <1>6 DEF Effect, Begins

\* SETEX writes one key and leaves the others alone.
LEMMA WritesKeys ==
    ASSUME IInv, NEW r \in Requests, NEW n, Writes(r, n)
    PROVE  /\ req[r].sid \in Sessions
           /\ store'[req[r].sid] = [data |-> req[r].copy, ttl |-> n]
           /\ store'[req[r].sid].ttl >= 0
           /\ \A s \in Sessions \ {req[r].sid} : store'[s] = store[s]
<1>1. req[r].sid \in Sessions
  BY DEF IInv, TypeOK, Writes, Moves
<1>2. /\ store' = [store EXCEPT ![req[r].sid] = [data |-> req[r].copy, ttl |-> n]]
      /\ n \in 0..Duration /\ store \in [Sessions -> Key]
  BY DEF IInv, TypeOK, Writes
<1>3. store'[req[r].sid] = [data |-> req[r].copy, ttl |-> n]
  BY <1>1, <1>2
<1>4. \A s \in Sessions \ {req[r].sid} : store'[s] = store[s]
  BY <1>2
<1> QED
  BY <1>1, <1>2, <1>3, <1>4, DurationAssumption

\* No key lives shorter than its session when the proxy starts.
LEMMA InitOutlives == Init => Outlives
BY DEF Init, Outlives, Present, NoKey

\* create_session and update_session give a key the time its session has.
LEMMA NextOutlives ==
    ASSUME IInv, IInv', Outlives, [Next]_vars
    PROVE  Outlives'
<1>0. TypeOK /\ TypeOK'
  BY DEF IInv
<1>1. CASE Rests
  BY <1>1 DEF Rests, Outlives, Present
<1>2. CASE Ages
  <2>1. ASSUME NEW s \in Sessions, Present(s)'
        PROVE  store'[s].ttl >= left'[s]
    <3>1. owner[s] # None /\ Present(s)
      BY <1>0, <1>2, <2>1 DEF Ages, IInv, AtRest, Present, NoKey, TypeOK, Key
    <3>2. store[s].ttl >= left[s] /\ store[s].ttl > 0
      BY <1>2, <2>1, <3>1 DEF Outlives, Ages, Present, NoKey
    <3> QED
      BY <1>0, <1>2, <3>1, <3>2 DEF Ages, TypeOK, Key
  <2>2. ASSUME NEW r \in Requests, pc'[r] \in {"touch", "put"}
        PROVE  req'[r].ttl >= left'[req'[r].sid]
    BY <1>0, <1>2, <2>2 DEF Ages, Outlives, TypeOK, Request
  <2> QED
    BY <2>1, <2>2 DEF Outlives
<1>3. ASSUME NEW r \in Requests, Effect(r)
      PROVE  Outlives'
  <2>1. left' = left
    BY <1>3, EffectKeepsTime
  <2>2. ASSUME NEW s \in Sessions, Present(s)'
        PROVE  store'[s].ttl >= left'[s]
    <3>1. CASE store'[s] = store[s]
      BY <2>1, <2>2, <3>1 DEF Outlives, Present
    <3>2. ASSUME NEW n \in 0..Duration, Writes(r, n), s = req[r].sid
          PROVE  store'[s].ttl >= left'[s]
      <4>1. n >= left[s]
        <5>1. left[s] \in -1..Duration
          BY <1>0 DEF TypeOK
        <5>2. n = Duration \/ (pc[r] \in {"touch", "put"} /\ n = req[r].ttl)
          BY <3>2 DEF Writes, Moves
        <5> QED
          BY <3>2, <5>1, <5>2, DurationAssumption DEF Outlives
      <4>2. store'[s] = [data |-> req[r].copy, ttl |-> n]
        BY <3>2, WritesKeys, Zenon
      <4> QED
        BY <2>1, <4>1, <4>2
    <3>3. ASSUME NEW t \in Sessions, Deletes(r, t)
          PROVE  store'[s] = store[s]
      BY <2>2, <3>3 DEF Deletes, Present, NoKey
    <3>4. CASE \/ Begins(r) \/ GoesOn(r) \/ Surveys(r) \/ Answers(r)
               \/ GivesUp(r)
      BY <3>1, <3>4
         DEF Begins, Admits, Receives, GoesOn, Surveys, Answers, GivesUp,
             SameSessions
    <3>5. ASSUME NEW n \in 0..Duration, Writes(r, n), s # req[r].sid
          PROVE  store'[s] = store[s]
      BY <3>5, WritesKeys
    <3> QED
      BY <1>3, <3>1, <3>2, <3>3, <3>4, <3>5 DEF Effect
  <2>3. ASSUME NEW x \in Requests, pc'[x] \in {"touch", "put"}
        PROVE  req'[x].ttl >= left'[req'[x].sid]
    <3>1. CASE x # r
      BY <1>3, <2>1, <2>3, <3>1, EffectMoves, Stays DEF Outlives
    <3>2. CASE x = r
      <4>1. GoesOn(r)
        BY <1>3, <2>3, <3>2
           DEF Effect, Begins, Admits, Receives, Writes, Deletes, Surveys,
               Answers, GivesUp, Moves, AfterGet
      <4>2. req'[r].ttl = left[req[r].sid] /\ req'[r].sid = req[r].sid
        BY <2>3, <3>2, <4>1 DEF GoesOn, Moves, AfterGet, KeepsPurpose
      <4>3. left[req[r].sid] \in -1..Duration
        BY <1>0, <2>3, <3>2, <4>2 DEF TypeOK
      <4> QED
        BY <2>1, <3>2, <4>2, <4>3
    <3> QED
      BY <3>1, <3>2
  <2> QED
    BY <2>2, <2>3 DEF Outlives
<1> QED
  BY <1>1, <1>2, <1>3, Effects

\* No request has a purpose when the proxy starts.
LEMMA InitPurposes == Init => Purposes
BY DEF Init, Purposes, Purpose

\* The step of a request keeps its purpose.
LEMMA OwnPurpose ==
    ASSUME IInv, IInv', Purposes, NEW r \in Requests, Effect(r)
    PROVE  Purpose(r)'
<1> SUFFICES ASSUME pc'[r] # "idle"
             PROVE  Purpose(r)'
  BY DEF Purpose
<1>0. \A x \in Requests \ {r} : pc'[x] = pc[x] /\ req'[x] = req[x]
  BY EffectMoves DEF Moves
<1>1. ASSUME NEW s \in Sessions, Admits(r, s)
      PROVE  Purpose(r)'
  <2>1. token[s] = None /\ ~Present(s)
    BY <1>1 DEF IInv, AtRest, Admits
  <2>2. \A x \in Requests \ {r} : pc[x] # "idle" => req[x].sid # s
    BY <1>1 DEF Admits, IInv, InFlight
  <2> QED
    BY <1>0, <1>1, <2>1, <2>2 DEF Admits, Moves, Purpose, OpAt, Present
<1>2. ASSUME NEW s \in Sessions, Receives(r, s)
      PROVE  Purpose(r)'
  BY <1>2 DEF Receives, Moves, Purpose, OpAt, SameSessions
<1>3. CASE pc[r] # "idle" /\ KeepsPurpose(r) /\ token' = token
           /\ pc'[r] # "create" /\ req[r].op \in OpAt(pc'[r])
  BY <1>0, <1>3 DEF Purposes, Purpose, KeepsPurpose
<1>4. ASSUME pc[r] # "idle"
      PROVE  req[r].op \in OpAt(pc[r])
  BY <1>4 DEF Purposes, Purpose
<1>5. ASSUME NEW n \in 0..Duration, Writes(r, n)
      PROVE  Purpose(r)'
  BY <1>3, <1>4, <1>5 DEF Writes, Moves, OpAt, AfterGet
<1>6. ASSUME NEW s \in Sessions, Deletes(r, s)
      PROVE  Purpose(r)'
  BY <1>3, <1>4, <1>6 DEF Deletes, Moves, OpAt
<1>7. CASE GoesOn(r)
  BY <1>3, <1>4, <1>7 DEF GoesOn, Moves, OpAt, AfterGet, SameSessions
<1>8. CASE Surveys(r)
  BY <1>3, <1>4, <1>8 DEF Surveys, Moves, OpAt, SameSessions
<1>9. CASE Answers(r) \/ GivesUp(r)
  BY <1>9 DEF Answers, GivesUp, Moves
<1> QED
  BY <1>1, <1>2, <1>5, <1>6, <1>7, <1>8, <1>9 DEF Effect, Begins

\* It keeps that of every other request: nobody touches a session whose login
\* has not been answered, and no token is ever taken back.
LEMMA OthersPurpose ==
    ASSUME IInv, IInv', Purposes, NEW r \in Requests, Effect(r),
           NEW x \in Requests, x # r
    PROVE  Purpose(x)'
<1>0. /\ pc'[x] = pc[x] /\ req'[x] = req[x]
      /\ pc[x] # "idle" => req[x].sid \in Sessions
      /\ \A y \in Requests \ {r} : pc'[y] = pc[y] /\ req'[y] = req[y]
  BY EffectMoves, Stays DEF Moves
<1> SUFFICES ASSUME pc[x] # "idle"
             PROVE  Purpose(x)'
  BY <1>0 DEF Purpose
<1> DEFINE s == req[x].sid
<1>1. s \in Sessions /\ Purpose(x) /\ owner[s] # None
  BY <1>0 DEF Purposes, IInv, InFlight
<1>2. CASE req[x].op # "login"
  <2>1. token'[s] # None
    <3>1. CASE token' = token
      BY <1>1, <1>2, <3>1 DEF Purpose
    <3>2. CASE Answers(r)
      <4>1. req[r].sub # None
        BY <3>2 DEF Answers, Moves, IInv, InFlight
      <4> QED
        BY <1>1, <1>2, <3>2, <4>1 DEF Answers, Purpose
    <3> QED
      BY <3>1, <3>2
         DEF Effect, Begins, Admits, Receives, Writes, Deletes, GoesOn, Surveys,
             GivesUp, SameSessions
  <2> QED
    BY <1>0, <1>1, <1>2, <2>1 DEF Purpose
<1>3. CASE req[x].op = "login"
  <2>1. pc[r] # "idle" => req[r].sid # s
    BY <1>1, <1>3 DEF Purpose
  <2>2. token[s] = None
    BY <1>1, <1>3 DEF Purpose
  <2>3. /\ token'[s] = None
        /\ pc'[r] # "idle" => req'[r].sid # s
    <3>1. ASSUME NEW t \in Sessions, Admits(r, t) \/ Receives(r, t)
          PROVE  t # s /\ req'[r].sid = t /\ token' = token
      BY <1>1, <2>2, <3>1 DEF Admits, Receives, SameSessions
    <3>2. CASE Begins(r)
      BY <2>2, <3>1, <3>2 DEF Begins
    <3>3. CASE Answers(r)
      BY <1>1, <2>1, <2>2, <3>3 DEF Answers, Moves
    <3>4. CASE GivesUp(r)
      BY <2>2, <3>4 DEF GivesUp, Moves, SameSessions
    <3>5. CASE KeepsPurpose(r) /\ token' = token /\ pc[r] # "idle"
      BY <2>1, <2>2, <3>5 DEF KeepsPurpose
    <3>6. ASSUME NEW t \in Sessions, Deletes(r, t)
          PROVE  token' = token /\ (pc'[r] # "idle" => KeepsPurpose(r)) /\ pc[r] # "idle"
      BY <3>6 DEF Deletes, Moves
    <3>7. ASSUME NEW n \in 0..Duration, Writes(r, n)
          PROVE  KeepsPurpose(r) /\ token' = token /\ pc[r] # "idle"
      BY <3>7 DEF Writes, Moves
    <3>8. CASE GoesOn(r) \/ Surveys(r)
      BY <3>5, <3>8 DEF GoesOn, Surveys, Moves, SameSessions
    <3> QED
      BY <2>2, <3>2, <3>3, <3>4, <3>5, <3>6, <3>7, <3>8 DEF Effect
  <2>4. ~Present(s) => ~Present(s)'
    <3>1. ASSUME NEW n \in 0..Duration, Writes(r, n)
          PROVE  store'[s] = store[s]
      <4>1. req[r].sid # s
        BY <2>1, <3>1 DEF Writes, Moves
      <4> QED
        BY <1>1, <3>1, <4>1, WritesKeys
    <3>2. ASSUME NEW t \in Sessions, Deletes(r, t)
          PROVE  store'[s] = store[s] \/ store'[s] = NoKey
      BY <1>1, <3>2 DEF Deletes
    <3>3. store'[s] = store[s] \/ store'[s] = NoKey
      BY <3>1, <3>2
         DEF Effect, Begins, Admits, Receives, GoesOn, Surveys, Answers,
             GivesUp, SameSessions
    <3> QED
      BY <1>0, <3>3 DEF Present, NoKey
  <2> QED
    BY <1>0, <1>1, <1>3, <2>3, <2>4 DEF Purpose, Present
<1> QED
  BY <1>2, <1>3

\* Requests keep to their purpose.
LEMMA NextPurposes ==
    ASSUME IInv, IInv', Purposes, [Next]_vars
    PROVE  Purposes'
<1>1. CASE Rests
  BY <1>1 DEF Rests, Purposes, Purpose, Present
<1>2. CASE Ages
  <2>1. \A s \in Sessions : ~Present(s) => ~Present(s)'
    BY <1>2 DEF Ages, Present, NoKey, IInv, TypeOK, Key
  <2>2. \A r \in Requests : pc[r] # "idle" => req[r].sid \in Sessions
    BY DEF IInv, TypeOK
  <2> QED
    BY <1>2, <2>1, <2>2 DEF Ages, Purposes, Purpose, Present
<1>3. ASSUME NEW r \in Requests, Effect(r)
      PROVE  Purposes'
  BY <1>3, OwnPurpose, OthersPurpose DEF Purposes
<1> QED
  BY <1>1, <1>2, <1>3, Effects

\* What the refinement needs, and what the promises are built on.
BaseInv == IInv /\ Outlives /\ Purposes

\* The invariant of parts 2 and 3 is inductive.
LEMMA NextBase == BaseInv /\ [Next]_vars => BaseInv'
BY NextIInv, NextOutlives, NextPurposes DEF BaseInv

\* What is live leaves Redis only by being deleted, and requests keep to the
\* purpose they came with.
THEOREM BaseAlways == Spec => []BaseInv
<1>1. Init => BaseInv
  BY InitIInv, InitOutlives, InitPurposes DEF BaseInv
<1> QED
  BY <1>1, NextBase, PTL DEF Spec

-----------------------------------------------------------------------------
(* Part 3.  The refinement.                                                *)

\* What may be written to s is what some request about s may write.
LEMMA PendingMembers ==
    ASSUME NEW s \in Sessions, NEW v
    PROVE  v \in PendingOf(s) <=>
             /\ ~IsExpired(s)
             /\ \E x \in Requests : req[x].sid = s /\ v \in MayWrite(x)
BY DEF PendingOf

\* The same of the next state.
LEMMA PendingMembersNext ==
    ASSUME NEW s \in Sessions, NEW v
    PROVE  v \in PendingOf(s)' <=>
             /\ ~IsExpired(s)'
             /\ \E x \in Requests : req'[x].sid = s /\ v \in MayWrite(x)'
BY DEF PendingOf

\* A request that is not about a session has nothing to write.
LEMMA IdleWritesNothing ==
    ASSUME NEW r \in Requests,
           pc[r] \notin {"create", "check", "touch", "seal", "put"}
    PROVE  MayWrite(r) = {}
BY DEF MayWrite

\* The same of the next state.
LEMMA IdleWritesNothingNext ==
    ASSUME NEW r \in Requests,
           pc'[r] \notin {"create", "check", "touch", "seal", "put"}
    PROVE  MayWrite(r)' = {}
BY DEF MayWrite

\* What a session may still get is a set of live values.
LEMMA MayWriteLive ==
    ASSUME NEW r \in Requests
    PROVE  MayWrite(r) \subseteq {"open", "verified"}
BY DEF MayWrite, ValueOf

\* A step of r changes nothing of what others may write.
LEMMA OthersMayWrite ==
    ASSUME NEW r \in Requests, NEW from, NEW to, Moves(r, from, to),
           NEW x \in Requests, x # r
    PROVE  MayWrite(x)' = MayWrite(x) /\ req'[x].sid = req[x].sid
BY DEF Moves, MayWrite

\* Where r has nothing to write, before and after its step, nothing is new.
LEMMA PendingElsewhere ==
    ASSUME NEW r \in Requests, NEW from, NEW to, Moves(r, from, to),
           left' = left, NEW s \in Sessions,
           req[r].sid # s \/ MayWrite(r) = {},
           req'[r].sid # s \/ MayWrite(r)' = {}
    PROVE  PendingOf(s)' = PendingOf(s)
<1>1. IsExpired(s)' = IsExpired(s)
  BY DEF IsExpired
<1>2. ASSUME NEW v, NEW x \in Requests
      PROVE  req'[x].sid = s /\ v \in MayWrite(x)'
               <=> req[x].sid = s /\ v \in MayWrite(x)
  BY OthersMayWrite
<1>3. ASSUME NEW v
      PROVE  v \in PendingOf(s)' <=> v \in PendingOf(s)
  BY <1>1, <1>2, PendingMembers, PendingMembersNext
<1> QED
  BY <1>3

\* A request that can write no more than before leaves no more to be written.
LEMMA PendingShrinks ==
    ASSUME NEW r \in Requests, NEW from, NEW to, Moves(r, from, to),
           left' = left, NEW s \in Sessions,
           MayWrite(r)' \subseteq MayWrite(r),
           req'[r].sid = req[r].sid \/ MayWrite(r)' = {}
    PROVE  PendingOf(s)' \subseteq PendingOf(s)
<1>1. IsExpired(s)' = IsExpired(s)
  BY DEF IsExpired
<1>2. ASSUME NEW v, NEW x \in Requests,
             req'[x].sid = s, v \in MayWrite(x)'
      PROVE  req[x].sid = s /\ v \in MayWrite(x)
  BY <1>2, OthersMayWrite
<1>3. ASSUME NEW v, v \in PendingOf(s)'
      PROVE  v \in PendingOf(s)
  BY <1>1, <1>2, <1>3, PendingMembers, PendingMembersNext
<1> QED
  BY <1>3

\* The step of one session is one of SessionLife if nothing else changes.
LEMMA BarsElsewhere ==
    ASSUME NEW s \in Sessions,
           \A t \in Sessions \ {s} : LifeOf(t)' = LifeOf(t),
           \A t \in Sessions \ {s} : PendingOf(t)' = PendingOf(t)
    PROVE  /\ lifeBar' = [lifeBar EXCEPT ![s] = LifeOf(s)']
           /\ pendingBar' = [pendingBar EXCEPT ![s] = PendingOf(s)']
BY DEF lifeBar, pendingBar

\* What a step leaves as it was, the register does not see.
LEMMA BarsSame ==
    ASSUME \A t \in Sessions : LifeOf(t)' = LifeOf(t),
           \A t \in Sessions : PendingOf(t)' = PendingOf(t)
    PROVE  lifeBar' = lifeBar /\ pendingBar' = pendingBar
BY DEF lifeBar, pendingBar

\* A session's value is that of its key and its expiry.
LEMMA LifeFrame ==
    ASSUME NEW s \in Sessions, left'[s] = left[s], store'[s] = store[s]
    PROVE  LifeOf(s)' = LifeOf(s)
BY DEF LifeOf, IsExpired, Present

\* A session that has expired is over, whatever is in Redis.
LEMMA OverFrame ==
    ASSUME NEW s \in Sessions, IsExpired(s), IsExpired(s)'
    PROVE  LifeOf(s)' = LifeOf(s) /\ PendingOf(s)' = PendingOf(s)
BY DEF LifeOf, PendingOf

\* Request r writes nothing, and may write no more than it might have.
LEMMA Retreats ==
    ASSUME IInv, NEW r \in Requests, NEW from, NEW to, Moves(r, from, to),
           UNCHANGED <<owner, left, store, earned>>,
           MayWrite(r)' \subseteq MayWrite(r),
           req'[r].sid = req[r].sid \/ MayWrite(r)' = {}
    PROVE  [Life!LifeNext]_(Life!lifeVars)
<1> PICK s : s = req[r].sid
  OBVIOUS
<1>1. \A t \in Sessions : LifeOf(t)' = LifeOf(t)
  BY LifeFrame
<1>2. \A t \in Sessions \ {s} : PendingOf(t)' = PendingOf(t)
  BY PendingElsewhere
<1>3. CASE s \in Sessions /\ ~IsExpired(s)
  <2>1. /\ lifeBar' = [lifeBar EXCEPT ![s] = LifeOf(s)']
        /\ pendingBar' = [pendingBar EXCEPT ![s] = PendingOf(s)']
    BY <1>1, <1>2, <1>3, BarsElsewhere, Zenon
  <2>2. PendingOf(s)' \in SUBSET pendingBar[s]
    BY <1>3, PendingShrinks DEF pendingBar
  <2>3. LifeOf(s)' = lifeBar[s] /\ lifeBar[s] # "over"
    BY <1>1, <1>3 DEF lifeBar, LifeOf, ValueOf
  <2>4. Life!Write(s)
    BY <2>1, <2>2, <2>3 DEF Life!Write
  <2> QED
    BY <1>3, <2>4 DEF Life!LifeNext
<1>4. CASE ~(s \in Sessions /\ ~IsExpired(s))
  <2>1. \A t \in Sessions : PendingOf(t)' = PendingOf(t)
    BY <1>2, <1>4, OverFrame DEF IsExpired
  <2> QED
    BY <1>1, <2>1, BarsSame DEF Life!lifeVars
<1> QED
  BY <1>3, <1>4

\* A login is the opening of a session.
LEMMA OpensSession ==
    ASSUME BaseInv, BaseInv', NEW r \in Requests, NEW s \in Sessions,
           Admits(r, s)
    PROVE  Life!Open(s)
<1>1. lifeBar' = lifeBar
  BY LifeFrame DEF Admits, lifeBar
<1>2. MayWrite(r) = {} /\ Moves(r, "idle", "create") /\ req'[r].sid = s
  BY IdleWritesNothing DEF Admits, Moves
<1>3. \A t \in Sessions \ {s} : PendingOf(t)' = PendingOf(t)
  BY <1>2, PendingElsewhere DEF Admits
<1>4. pendingBar' = [pendingBar EXCEPT ![s] = PendingOf(s)']
  BY <1>3 DEF pendingBar
<1>5. owner[s] = None /\ \E u \in Users : owner' = [owner EXCEPT ![s] = u]
  <2>1. owner' = [owner EXCEPT ![s] = owner'[s]] /\ owner'[s] \in Users
    BY DEF BaseInv, IInv, TypeOK, Admits
  <2> QED
    BY <2>1 DEF Admits
<1>6. ASSUME NEW v, v \in PendingOf(s)'
      PROVE  v \in Life!Writable(s, "open")
  <2>1. PICK x \in Requests : req'[x].sid = s /\ v \in MayWrite(x)'
    BY <1>6, PendingMembersNext
  <2>2. CASE x = r
    BY <1>2, <2>1, <2>2
       DEF MayWrite, Admits, Moves, Life!Writable, ValueOf
  <2>3. CASE x # r
    <3>1. req[x].sid = s /\ v \in MayWrite(x)
      BY <1>2, <2>1, <2>3, OthersMayWrite
    <3>2. pc[x] # "idle"
      BY <3>1, IdleWritesNothing
    <3> QED
      BY <3>1, <3>2 DEF Admits, BaseInv, IInv, InFlight
  <2> QED
    BY <2>2, <2>3
<1>7. PendingOf(s)' \in SUBSET Life!Writable(s, "open")
  BY <1>6
<1> QED
  BY <1>1, <1>4, <1>5, <1>7 DEF Life!Open, Admits

\* The receipt of a request is nothing to the register, or a code accepted.
LEMMA ReceivesRequest ==
    ASSUME BaseInv, NEW r \in Requests, NEW s \in Sessions, Receives(r, s)
    PROVE  [Life!LifeNext]_(Life!lifeVars)
<1>1. /\ Moves(r, "idle", pc'[r]) /\ MayWrite(r) = {} /\ MayWrite(r)' = {}
      /\ left' = left
  BY IdleWritesNothing, IdleWritesNothingNext DEF Receives, Moves, SameSessions
<1>2. \A t \in Sessions : PendingOf(t)' = PendingOf(t)
  BY <1>1, PendingElsewhere
<1>3. \A t \in Sessions : LifeOf(t)' = LifeOf(t)
  BY LifeFrame DEF Receives, SameSessions
<1>4. lifeBar' = lifeBar /\ pendingBar' = pendingBar /\ owner' = owner
  BY <1>2, <1>3, BarsSame DEF Receives, SameSessions
<1>5. CASE earned' = earned
  BY <1>4, <1>5 DEF Life!lifeVars
<1>6. CASE earned' = earned \union {s}
  <2>1. owner[s] # None
    BY DEF Receives, BaseInv, IInv, AtRest
  <2>2. Life!Earn(s)
    BY <1>4, <1>6, <2>1 DEF Life!Earn
  <2> QED
    BY <2>2 DEF Life!LifeNext
<1> QED
  BY <1>5, <1>6 DEF Receives

\* A SETEX writes one of the values that were pending, if the session is not
\* over: a late one has no effect on what anybody sees.
LEMMA WritesSession ==
    ASSUME BaseInv, NEW r \in Requests, NEW n \in 0..Duration, Writes(r, n)
    PROVE  [Life!LifeNext]_(Life!lifeVars)
<1>1. PICK s \in Sessions : s = req[r].sid
  BY WritesKeys DEF BaseInv
<1>2. /\ Moves(r, pc[r], pc'[r]) /\ req'[r].sid = s
      /\ UNCHANGED <<owner, left, earned>>
  BY <1>1 DEF Writes, Moves, KeepsPurpose
<1>3. MayWrite(r)' \subseteq MayWrite(r)
  <2>1. pc[r] = "touch" => req[r].op \in {"access", "verify"}
    BY DEF BaseInv, Purposes, Purpose, OpAt
  <2> QED
    BY <2>1 DEF Writes, Moves, KeepsPurpose, MayWrite, AfterGet
<1>4. ValueOf(req[r].copy.mfa) \in MayWrite(r)
  BY DEF Writes, Moves, MayWrite
<1>5. \A t \in Sessions \ {s} : LifeOf(t)' = LifeOf(t)
  BY <1>1, <1>2, WritesKeys, LifeFrame DEF BaseInv
<1>6. \A t \in Sessions \ {s} : PendingOf(t)' = PendingOf(t)
  BY <1>1, <1>2, PendingElsewhere
<1>7. CASE IsExpired(s)
  <2>1. IsExpired(s)'
    BY <1>2, <1>7 DEF IsExpired
  <2>2. LifeOf(s)' = LifeOf(s) /\ PendingOf(s)' = PendingOf(s)
    BY <1>7, <2>1, OverFrame
  <2> QED
    BY <1>2, <1>5, <1>6, <2>2, BarsSame DEF Life!lifeVars
<1>8. CASE ~IsExpired(s)
  <2>1. /\ lifeBar' = [lifeBar EXCEPT ![s] = LifeOf(s)']
        /\ pendingBar' = [pendingBar EXCEPT ![s] = PendingOf(s)']
    BY <1>5, <1>6, BarsElsewhere, Zenon
  <2>2. PendingOf(s)' \in SUBSET pendingBar[s]
    BY <1>1, <1>2, <1>3, PendingShrinks DEF pendingBar
  <2>3. LifeOf(s)' = ValueOf(req[r].copy.mfa)
    <3>1. store'[s] = [data |-> req[r].copy, ttl |-> n]
      BY <1>1, WritesKeys, Zenon DEF BaseInv
    <3>2. store'[s].data = req[r].copy /\ store'[s].ttl = n
      BY <3>1
    <3>3. Present(s)' /\ ~IsExpired(s)'
      BY <1>2, <1>8, <3>2, DurationAssumption DEF Present, IsExpired
    <3> QED
      BY <3>2, <3>3 DEF LifeOf, ValueOf
  <2>4. ValueOf(req[r].copy.mfa) \in pendingBar[s]
    BY <1>1, <1>4, <1>8, PendingMembers DEF pendingBar
  <2>5. lifeBar[s] # "over"
    BY <1>8 DEF lifeBar, LifeOf, ValueOf
  <2>6. Life!Write(s)
    BY <1>2, <2>1, <2>2, <2>3, <2>4, <2>5 DEF Life!Write
  <2> QED
    BY <2>6 DEF Life!LifeNext
<1> QED
  BY <1>7, <1>8

\* A DEL closes a live session; of one that is over or gone it changes nothing.
LEMMA DeletesSession ==
    ASSUME BaseInv, NEW r \in Requests, NEW s \in Sessions, Deletes(r, s)
    PROVE  [Life!LifeNext]_(Life!lifeVars)
<1>1. /\ Moves(r, pc[r], pc'[r])
      /\ UNCHANGED <<owner, left, earned>>
      /\ MayWrite(r) = {} /\ MayWrite(r)' = {}
  BY IdleWritesNothing, IdleWritesNothingNext DEF Deletes, Moves
<1>2. \A t \in Sessions : PendingOf(t)' = PendingOf(t)
  BY <1>1, PendingElsewhere
<1>3. \A t \in Sessions \ {s} : LifeOf(t)' = LifeOf(t)
  BY <1>1, LifeFrame DEF Deletes
<1>4. ~Present(s)'
  BY DEF Deletes, Present, NoKey
<1>5. CASE IsExpired(s) \/ ~Present(s)
  <2>1. LifeOf(s)' = LifeOf(s)
    BY <1>1, <1>4, <1>5 DEF LifeOf, IsExpired
  <2> QED
    BY <1>1, <1>2, <1>3, <2>1, BarsSame DEF Life!lifeVars
<1>6. CASE ~IsExpired(s) /\ Present(s)
  <2>1. lifeBar[s] \in {"open", "verified"} /\ LifeOf(s)' = "absent"
    BY <1>1, <1>4, <1>6 DEF lifeBar, LifeOf, ValueOf, IsExpired
  <2>2. lifeBar' = [lifeBar EXCEPT ![s] = "absent"] /\ pendingBar' = pendingBar
    BY <1>2, <1>3, <2>1 DEF lifeBar, pendingBar
  <2>3. Life!Close(s)
    BY <1>1, <2>1, <2>2 DEF Life!Close, Life!Live
  <2> QED
    BY <2>3 DEF Life!LifeNext
<1> QED
  BY <1>5, <1>6

\* A GET that finds a live session reads the register.
LEMMA ReadsSession ==
    ASSUME BaseInv, NEW r \in Requests, NEW s \in Sessions, s = req[r].sid,
           Moves(r, "get", "check"), KeepsPurpose(r), SameSessions,
           UNCHANGED earned, Present(s), req'[r].copy = store[s].data
    PROVE  [Life!LifeNext]_(Life!lifeVars)
<1>1. \A t \in Sessions : LifeOf(t)' = LifeOf(t)
  BY LifeFrame DEF SameSessions
<1>2. MayWrite(r) = {} /\ req'[r].sid = s /\ left' = left
  BY IdleWritesNothing DEF Moves, KeepsPurpose, SameSessions
<1>3. \A t \in Sessions \ {s} : PendingOf(t)' = PendingOf(t)
  BY <1>2, PendingElsewhere
<1>4. CASE IsExpired(s)
  <2>1. IsExpired(s)'
    BY <1>4 DEF IsExpired, SameSessions
  <2>2. PendingOf(s)' = PendingOf(s)
    BY <1>4, <2>1, OverFrame
  <2> QED
    BY <1>1, <1>3, <2>2, BarsSame DEF Life!lifeVars, SameSessions
<1>5. CASE ~IsExpired(s)
  <2>1. lifeBar' = lifeBar
    BY <1>1 DEF lifeBar
  <2>2. lifeBar[s] = ValueOf(store[s].data.mfa)
    BY <1>5 DEF lifeBar, LifeOf
  <2>3. lifeBar[s] \in Life!Live
    BY <2>2 DEF ValueOf, Life!Live
  <2>4. MayWrite(r)' \subseteq Life!Writable(s, lifeBar[s])
    <3>1. req[r].mark => s \in earned
      BY DEF BaseInv, IInv, InFlight, Moves
    <3>2. Life!Writable(s, lifeBar[s]) =
            {lifeBar[s]} \union (IF s \in earned THEN {"verified"} ELSE {})
      BY DEF Life!Writable
    <3>3. req[r].op = "verify" => req[r].mark
      BY DEF BaseInv, Purposes, Purpose, Moves
    <3>4. MayWrite(r)' \subseteq
            {ValueOf(store[s].data.mfa)}
              \union (IF req[r].op = "verify" THEN {ValueOf(req[r].mark)} ELSE {})
      BY DEF MayWrite, Moves, KeepsPurpose
    <3> QED
      BY <2>2, <3>1, <3>2, <3>3, <3>4 DEF ValueOf
  <2>5. PendingOf(s)' = pendingBar[s] \union MayWrite(r)'
    <3>1. ASSUME NEW v
          PROVE  v \in PendingOf(s)' <=> v \in PendingOf(s) \/ v \in MayWrite(r)'
      <4>1. ~IsExpired(s)'
        BY <1>5 DEF IsExpired, SameSessions
      <4>2. \A x \in Requests : x # r =>
              MayWrite(x)' = MayWrite(x) /\ req'[x].sid = req[x].sid
        BY OthersMayWrite
      <4> QED
        BY <1>2, <1>5, <4>1, <4>2, PendingMembers, PendingMembersNext
    <3> QED
      BY <3>1 DEF pendingBar
  <2>6. pendingBar' = [pendingBar EXCEPT ![s] = @ \union MayWrite(r)']
    BY <1>3, <2>5 DEF pendingBar
  <2>7. Life!Read(s)
    BY <2>1, <2>3, <2>4, <2>6 DEF Life!Read, SameSessions
  <2> QED
    BY <2>7 DEF Life!LifeNext
<1> QED
  BY <1>4, <1>5

\* The second in which a session's time is up is the register's Expire.
LEMMA AgesSessions ==
    ASSUME BaseInv, Ages
    PROVE  [Life!LifeNext]_(Life!lifeVars)
<1> DEFINE S == {s \in Sessions : ~IsExpired(s) /\ left'[s] < 0}
<1>0. TypeOK
  BY DEF BaseInv, IInv
<1>1. \A s \in Sessions : IsExpired(s)' <=> left'[s] < 0
  BY DEF IsExpired
<1>2. ASSUME NEW s \in S
      PROVE  owner[s] # None /\ LifeOf(s)' = "over" /\ PendingOf(s)' = {}
  BY <1>1, <1>2 DEF Ages, IsExpired, LifeOf, PendingOf
<1>3. ASSUME NEW s \in Sessions, s \notin S
      PROVE  LifeOf(s)' = LifeOf(s) /\ PendingOf(s)' = PendingOf(s)
  <2>1. CASE IsExpired(s)
    <3>1. IsExpired(s)'
      BY <1>0, <2>1 DEF Ages, IsExpired, TypeOK
    <3> QED
      BY <2>1, <3>1, OverFrame
  <2>2. CASE ~IsExpired(s)
    <3>1. ~IsExpired(s)'
      BY <1>1, <1>3, <2>2
    <3>2. PendingOf(s)' = PendingOf(s)
      BY <2>2, <3>1 DEF Ages, PendingOf, MayWrite
    <3>3. CASE Present(s)
      <4>1. owner[s] # None /\ store[s].ttl >= left[s]
        BY <3>3 DEF BaseInv, IInv, AtRest, Outlives
      <4>2. left[s] > 0
        BY <1>0, <2>2, <3>1, <4>1 DEF Ages, IsExpired, TypeOK
      <4>3. store[s].ttl > 0
        BY <1>0, <4>1, <4>2 DEF TypeOK, Key
      <4>4. Present(s)' /\ store'[s].data = store[s].data
        BY <1>0, <4>3 DEF Ages, Present, TypeOK, Key
      <4> QED
        BY <2>2, <3>1, <3>2, <3>3, <4>4 DEF LifeOf
    <3>4. CASE ~Present(s)
      <4>1. ~Present(s)'
        BY <1>0, <3>4 DEF Ages, Present, NoKey, TypeOK, Key
      <4> QED
        BY <2>2, <3>1, <3>2, <3>4, <4>1 DEF LifeOf
    <3> QED
      BY <3>3, <3>4
  <2> QED
    BY <2>1, <2>2
<1>4. /\ lifeBar' = [s \in Sessions |-> IF s \in S THEN "over" ELSE lifeBar[s]]
      /\ pendingBar' = [s \in Sessions |-> IF s \in S THEN {} ELSE pendingBar[s]]
  BY <1>2, <1>3 DEF lifeBar, pendingBar
<1>5. /\ UNCHANGED <<owner, earned>> /\ S \in SUBSET Sessions
      /\ \A s \in S : owner[s] # None
  BY <1>2 DEF Ages
<1> HIDE DEF S
<1>6. Life!Expire(S)
  BY <1>4, <1>5 DEF Life!Expire
<1> QED
  BY <1>5, <1>6 DEF Life!LifeNext

\* Every step of a request is one of the register's, or none.
LEMMA EffectRefines ==
    ASSUME BaseInv, BaseInv', NEW r \in Requests, Effect(r)
    PROVE  [Life!LifeNext]_(Life!lifeVars)
<1>0. IInv
  BY DEF BaseInv
<1>1. ASSUME NEW s \in Sessions, Admits(r, s)
      PROVE  Life!LifeNext
  BY <1>1, OpensSession DEF Life!LifeNext
<1>2. CASE Begins(r)
  BY <1>1, <1>2, ReceivesRequest DEF Begins
<1>3. ASSUME MayWrite(r)' \subseteq MayWrite(r),
             UNCHANGED <<owner, left, store, earned>>,
             Moves(r, pc[r], pc'[r]), KeepsPurpose(r)
      PROVE  [Life!LifeNext]_(Life!lifeVars)
  BY <1>0, <1>3, Retreats DEF KeepsPurpose
<1>4. CASE GoesOn(r)
  <2>1. CASE pc[r] = "get"
    <3>1. /\ Moves(r, "get", "check") /\ Present(req[r].sid)
          /\ req'[r].copy = store[req[r].sid].data
          /\ KeepsPurpose(r) /\ SameSessions /\ UNCHANGED earned
          /\ req[r].sid \in Sessions
      BY <1>0, <1>4, <2>1 DEF GoesOn, Moves, IInv, TypeOK
    <3> QED
      BY <3>1, ReadsSession
  <2>2. CASE pc[r] = "check" /\ pc'[r] = "purge"
    <3>1. MayWrite(r)' = {}
      BY <2>2, IdleWritesNothingNext
    <3> QED
      BY <1>3, <1>4, <3>1 DEF GoesOn, Moves, SameSessions
  <2>3. CASE pc[r] = "check" /\ pc'[r] # "purge"
    <3>1. req'[r].copy = req[r].copy /\ pc'[r] \in {"touch", AfterGet(r)}
      BY <1>4, <2>3 DEF GoesOn, Moves
    <3>2. req[r].op \in {"access", "verify"}
      BY <2>3 DEF BaseInv, Purposes, Purpose, OpAt
    <3>3. MayWrite(r)' \subseteq MayWrite(r)
      BY <1>4, <2>3, <3>1, <3>2
         DEF GoesOn, KeepsPurpose, AfterGet, MayWrite
    <3> QED
      BY <1>3, <1>4, <3>3 DEF GoesOn, Moves, SameSessions
  <2>4. CASE pc[r] \in {"seal", "decide"}
    <3>1. MayWrite(r)' \subseteq MayWrite(r)
      BY <1>4, <2>4 DEF GoesOn, Moves, KeepsPurpose, MayWrite, AfterGet
    <3> QED
      BY <1>3, <1>4, <3>1 DEF GoesOn, Moves, SameSessions
  <2> QED
    BY <1>4, <2>1, <2>2, <2>3, <2>4 DEF GoesOn, Moves
<1>5. CASE Surveys(r)
  <2>1. MayWrite(r)' = {}
    BY <1>5, IdleWritesNothingNext DEF Surveys, Moves
  <2> QED
    BY <1>3, <1>5, <2>1 DEF Surveys, Moves, SameSessions
<1>6. CASE Answers(r) \/ GivesUp(r)
  <2>1. MayWrite(r)' = {} /\ Moves(r, pc[r], pc'[r])
    BY <1>6, IdleWritesNothingNext DEF Answers, GivesUp, Moves
  <2> QED
    BY <1>0, <1>6, <2>1, Retreats DEF Answers, GivesUp, SameSessions
<1> QED
  BY <1>2, <1>4, <1>5, <1>6, WritesSession, DeletesSession DEF Effect

\* The proxy starts as the register does.
LEMMA InitRefines == Init => Life!LifeInit
<1> SUFFICES ASSUME Init
             PROVE  Life!LifeInit
  OBVIOUS
<1>1. \A r \in Requests : MayWrite(r) = {}
  BY IdleWritesNothing DEF Init
<1>2. \A s \in Sessions : LifeOf(s) = "absent" /\ PendingOf(s) = {}
  BY <1>1, DurationAssumption
     DEF Init, LifeOf, IsExpired, Present, NoKey, PendingOf
<1> QED
  BY <1>2 DEF Init, Life!LifeInit, lifeBar, pendingBar

\* A token's holder sees a register with stale writers and nothing worse,
\* whatever the Redis commands, handlers, faults and clocks do.
THEOREM SessionsImplementLife == Spec => ImplementsSessionLife
<1>1. BaseInv /\ [Next]_vars => [Life!LifeNext]_(Life!lifeVars)
  <2> SUFFICES ASSUME BaseInv, [Next]_vars
               PROVE  [Life!LifeNext]_(Life!lifeVars)
    OBVIOUS
  <2>1. CASE Rests
    BY <2>1, BarsSame
       DEF Rests, LifeOf, PendingOf, MayWrite, IsExpired, Present, Life!lifeVars
  <2> QED
    BY <2>1, NextBase, Effects, AgesSessions, EffectRefines DEF BaseInv
<1> QED
  BY <1>1, InitRefines, BaseAlways, PTL
     DEF Spec, ImplementsSessionLife, Life!LifeSpec

-----------------------------------------------------------------------------
(* Part 4.  Excuses, and what is held without one.                         *)

\* A step of SessionPromises is one of part 1; excuses last, and a request
\* stays entitled until it ends.
LEMMA PromiseSteps ==
    ASSUME IInv, [PromiseNext]_promiseVars
    PROVE  /\ excused \subseteq excused'
           /\ \A r \in Requests :
                r \in entitled /\ pc'[r] # "idle" => r \in entitled'
           /\ \/ Rests
              \/ PromiseNext /\ (Ages \/ \E r \in Requests : Effect(r))
<1>1. CASE PromiseNext
  <2>1. Rests \/ Ages \/ \E r \in Requests : Effect(r)
    BY <1>1, Effects DEF PromiseNext
  <2> QED
    BY <1>1, <2>1 DEF PromiseNext
<1>2. CASE UNCHANGED promiseVars
  BY <1>2 DEF promiseVars, vars, shared, history, Rests, SameAnswers
<1> QED
  BY <1>1, <1>2

\* A step in which no request answers 200 adds nothing to what was promised.
LEMMA OnlyAnswersPromise ==
    ASSUME IInv, [PromiseNext]_promiseVars, ~(\E r \in Requests : Answers(r))
    PROVE  SameAnswers /\ token' = token
<1>1. CASE Rests \/ Ages
  BY <1>1 DEF Rests, Ages, SameAnswers
<1>2. ASSUME NEW r \in Requests, Effect(r)
      PROVE  SameAnswers /\ token' = token
  BY <1>2, EffectKeepsAnswers
<1> QED
  BY <1>1, <1>2, PromiseSteps, Zenon

\* A session deleted in somebody's hands has an excuse.
LEMMA HeldIsExcused ==
    ASSUME PromiseNext, NEW r \in Requests, NEW s \in Sessions, Deletes(r, s),
           pc[r] # "purge", Present(s), HeldByOther(r, s)
    PROVE  s \in excused'
<1>1. Delete(r) \/ Revoke(r)
  BY DEF Deletes, Moves
<1>2. ~Present(s)'
  BY DEF Deletes, Present, NoKey
<1>3. s \in RevokedUnderway(r)
  BY <1>1, <1>2 DEF RevokedUnderway
<1> QED
  BY <1>3 DEF PromiseNext, Excuses

\* A session upgraded in somebody's hands has an excuse.
LEMMA UpgradedIsExcused ==
    ASSUME PromiseNext, NEW r \in Requests, Put(r), req[r].op = "verify",
           HeldByOther(r, req[r].sid)
    PROVE  req[r].sid \in excused'
<1>1. req[r].sid \in VerifiedUnderway(r)
  BY DEF VerifiedUnderway
<1> QED
  BY <1>1 DEF PromiseNext, Excuses

\* A session lost by a sweep has an excuse.
LEMMA LostIsExcused ==
    ASSUME PromiseNext, NEW r \in Requests, NEW s,
           \/ ScanTruncated(r) /\ s \in req[r].unseen
           \/ FetchLost(r) /\ s \in req[r].keys \ req'[r].keys
    PROVE  s \in excused'
<1>1. ~(ScanTruncated(r) /\ FetchLost(r))
  BY DEF ScanTruncated, FetchLost
<1>2. s \in LostBySweep(r)
  BY <1>1 DEF LostBySweep
<1> QED
  BY <1>2 DEF PromiseNext, Excuses

\* A key survives every step of a request but its deletion.
LEMMA PresentLasts ==
    ASSUME IInv, NEW r \in Requests, Effect(r), NEW s \in Sessions, Present(s),
           ~Deletes(r, s)
    PROVE  Present(s)'
<1>1. ASSUME NEW n \in 0..Duration, Writes(r, n)
      PROVE  Present(s)'
  <2>1. CASE s = req[r].sid
    BY <1>1, <2>1, WritesKeys DEF Present
  <2>2. CASE s # req[r].sid
    <3>1. store'[s] = store[s]
      BY <1>1, <2>2, WritesKeys
    <3> QED
      BY <3>1 DEF Present
  <2> QED
    BY <2>1, <2>2
<1>2. ASSUME NEW t \in Sessions, Deletes(r, t)
      PROVE  Present(s)'
  BY <1>2 DEF Deletes, Present
<1>3. CASE store' = store
  BY <1>3 DEF Present
<1> QED
  BY <1>1, <1>2, <1>3
     DEF Effect, Begins, Admits, Receives, GoesOn, Surveys, Answers, GivesUp,
         SameSessions

\* Nothing is held before the first request.
LEMMA InitHeldIsLive == PromiseInit => HeldIsLive
BY DEF PromiseInit, Init, HeldIsLive, Holds

\* A handler reads what is live; what is deleted under it has an excuse, and
\* what is not deleted outlives the session.
LEMMA NextHeldIsLive ==
    ASSUME BaseInv, BaseInv', HeldIsLive, [PromiseNext]_promiseVars
    PROVE  HeldIsLive'
<1>0. IInv /\ IInv' /\ TypeOK /\ Outlives /\ excused \subseteq excused'
  BY PromiseSteps DEF BaseInv, IInv
<1> SUFFICES ASSUME NEW s \in Sessions, s \notin excused', NEW x \in Requests,
                    Holds(x, s)', pc'[x] # "create", ~IsExpired(s)'
             PROVE  Present(s)'
  BY DEF HeldIsLive
<1>1. CASE Rests
  BY <1>0, <1>1 DEF Rests, HeldIsLive, Holds, IsExpired, Present
<1>2. CASE Ages
  <2>1. ~IsExpired(s) /\ left[s] \in -1..Duration
    BY <1>0, <1>2 DEF Ages, IsExpired, TypeOK
  <2>2. Present(s)
    BY <1>0, <1>2, <2>1 DEF Ages, HeldIsLive, Holds
  <2>3. owner[s] # None /\ store[s].ttl >= left[s]
    BY <1>0, <2>2 DEF IInv, AtRest, Outlives
  <2>4. store[s].ttl \in -1..Duration /\ left[s] > 0
    BY <1>0, <1>2, <2>1, <2>3 DEF Ages, IsExpired, TypeOK, Key
  <2>5. store[s].ttl > 0 /\ store[s].ttl \in Int
    BY <1>0, <2>3, <2>4, DurationAssumption DEF TypeOK
  <2>6. store'[s].ttl = store[s].ttl - 1
    BY <1>2, <2>5 DEF Ages
  <2> QED
    BY <2>5, <2>6 DEF Present
<1>3. ASSUME NEW r \in Requests, Effect(r), PromiseNext
      PROVE  Present(s)'
  <2>1. ~IsExpired(s)
    BY <1>3, EffectKeepsTime DEF IsExpired
  <2>2. CASE x # r
    <3>1. Holds(x, s) /\ pc[x] # "create"
      BY <1>0, <1>3, <2>2, EffectMoves, Stays DEF Holds
    <3>2. Present(s)
      BY <1>0, <2>1, <3>1 DEF HeldIsLive
    <3>3. CASE Deletes(r, s)
      <4>1. pc[r] # "purge"
        BY <1>0, <2>1, <3>3 DEF Deletes, Moves, IInv, InFlight
      <4> QED
        BY <1>3, <2>2, <3>1, <3>2, <3>3, <4>1, HeldIsExcused DEF HeldByOther
    <3> QED
      BY <1>0, <1>3, <3>2, <3>3, PresentLasts
  <2>3. CASE x = r
    <3>1. req'[r].sid = s /\ pc'[r] \in {"check", "touch", "seal", "put"}
      BY <2>3 DEF Holds
    <3>2. ASSUME NEW n \in 0..Duration, Writes(r, n)
          PROVE  Present(s)'
      <4>1. s = req[r].sid
        BY <3>1, <3>2 DEF Writes, KeepsPurpose
      <4> QED
        BY <1>0, <3>2, <4>1, WritesKeys DEF Present
    <3>3. CASE GoesOn(r)
      <4>1. s = req[r].sid /\ store' = store
        BY <3>1, <3>3 DEF GoesOn, KeepsPurpose, SameSessions
      <4>2. CASE pc[r] = "get"
        BY <3>3, <4>1, <4>2 DEF GoesOn, Moves, Present
      <4>3. CASE pc[r] # "get"
        <5>1. pc[r] \in {"check", "seal"}
          BY <3>1, <3>3, <4>3 DEF GoesOn, Moves
        <5>2. Present(s)
          BY <1>0, <2>1, <4>1, <5>1 DEF HeldIsLive, Holds
        <5> QED
          BY <4>1, <5>2 DEF Present
      <4> QED
        BY <4>2, <4>3
    <3> QED
      BY <1>3, <3>1, <3>2, <3>3
         DEF Effect, Begins, Admits, Receives, Deletes, Surveys, Answers,
             GivesUp, Moves
  <2> QED
    BY <2>2, <2>3
<1> QED
  BY <1>0, <1>1, <1>2, <1>3, PromiseSteps

-----------------------------------------------------------------------------
(* Part 5.  What has been revoked stays revoked.                           *)

\* A login that has got a token is past create_session.
LEMMA TokenCreated ==
    ASSUME BaseInv, NEW s \in Sessions, token[s] # None
    PROVE  Created(s)
BY DEF BaseInv, IInv, AtRest, Purposes, Purpose, OpAt, Created

\* So is one whose key is in Redis.
LEMMA PresentCreated ==
    ASSUME BaseInv, NEW s \in Sessions, Present(s)
    PROVE  Created(s)
BY DEF BaseInv, IInv, AtRest, Purposes, Purpose, OpAt, Created

\* Session::new never gives the same id twice: what has been created is not
\* created again, and keeps its owner.
LEMMA CreatedLasts ==
    ASSUME BaseInv, [PromiseNext]_promiseVars, NEW s \in Sessions, Created(s)
    PROVE  Created(s)' /\ owner'[s] = owner[s]
<1>1. CASE Rests \/ Ages
  BY <1>1 DEF Rests, Ages, Created
<1>2. ASSUME NEW r \in Requests, Effect(r)
      PROVE  Created(s)' /\ owner'[s] = owner[s]
  <2>1. owner'[s] = owner[s] /\ owner[s] # None
    BY <1>2, EffectKeepsTime DEF Created
  <2>2. ASSUME NEW x \in Requests, pc'[x] = "create"
        PROVE  req'[x].sid # s
    <3>1. CASE x # r
      <4>1. pc'[x] = pc[x] /\ req'[x] = req[x]
        BY <1>2, <3>1, EffectMoves DEF Moves
      <4> QED
        BY <2>2, <4>1 DEF Created
    <3>2. CASE x = r
      <4>1. PICK t \in Sessions : Admits(r, t)
        BY <1>2, <2>2, <3>2, ComesFromIdle
      <4> QED
        BY <2>1, <3>2, <4>1 DEF Admits
    <3> QED
      BY <3>1, <3>2
  <2> QED
    BY <2>1, <2>2 DEF Created
<1> QED
  BY <1>1, <1>2, PromiseSteps DEF BaseInv

\* Without an excuse nobody holds what is gone, so nobody brings it back.
LEMMA GoneStays ==
    ASSUME BaseInv, BaseInv', HeldIsLive, [PromiseNext]_promiseVars,
           NEW s \in Sessions, Created(s), s \notin excused', ~Usable(s)
    PROVE  ~Usable(s)'
<1>0. IInv /\ TypeOK /\ TypeOK' /\ s \notin excused
  BY PromiseSteps DEF BaseInv, IInv
<1>1. CASE Rests
  BY <1>1 DEF Rests, Usable, Present, IsExpired
<1>2. CASE Ages
  <2>1. left[s] \in Int /\ left'[s] \in Int
    BY <1>0, DurationAssumption DEF TypeOK
  <2>2. left'[s] >= 0 => left[s] >= 0
    BY <1>2, <2>1 DEF Ages
  <2>3. Present(s)' => Present(s)
    BY <1>0, <1>2, DurationAssumption DEF Ages, Present, NoKey, TypeOK, Key
  <2> QED
    BY <2>1, <2>2, <2>3 DEF Usable, IsExpired
<1>3. ASSUME NEW r \in Requests, Effect(r)
      PROVE  ~Usable(s)'
  <2>1. CASE IsExpired(s)
    BY <1>3, <2>1, EffectKeepsTime DEF Usable, IsExpired
  <2>2. CASE ~IsExpired(s)
    <3>1. ~Present(s)
      BY <2>2 DEF Usable
    <3>2. ASSUME NEW n \in 0..Duration, Writes(r, n)
          PROVE  store'[s] = store[s]
      <4>1. req[r].sid # s
        <5>1. req[r].sid = s => Holds(r, s) /\ pc[r] # "create"
          BY <3>2 DEF Writes, Moves, Holds, Created
        <5> QED
          BY <1>0, <2>2, <3>1, <5>1 DEF HeldIsLive
      <4> QED
        BY <1>0, <3>2, <4>1, WritesKeys
    <3>3. ASSUME NEW t \in Sessions, Deletes(r, t)
          PROVE  store'[s] = store[s] \/ store'[s] = NoKey
      BY <3>3 DEF Deletes
    <3>4. store'[s] = store[s] \/ store'[s] = NoKey
      BY <1>3, <3>2, <3>3
         DEF Effect, Begins, Admits, Receives, GoesOn, Surveys, Answers,
             GivesUp, SameSessions
    <3> QED
      BY <3>1, <3>4 DEF Usable, Present, NoKey
  <2> QED
    BY <2>1, <2>2
<1> QED
  BY <1>0, <1>1, <1>2, <1>3, PromiseSteps

\* Nothing has been revoked when the proxy starts.
LEMMA InitRevocation == PromiseInit => RevocationInv
BY DEF PromiseInit, Init, RevocationInv, Sweeps

\* The sweep of a request that does not move.
LEMMA OthersSweep ==
    ASSUME BaseInv, BaseInv', HeldIsLive, [PromiseNext]_promiseVars,
           NEW x \in Requests, Sweeps(x), pc'[x] = pc[x], req'[x] = req[x]
    PROVE  Sweeps(x)'
<1> SUFFICES ASSUME pc[x] # "idle"
             PROVE  Sweeps(x)'
  BY DEF Sweeps
<1>0. /\ excused \subseteq excused' /\ req[x].goal \subseteq Sessions
      /\ req[x].sid \in Sessions
  BY PromiseSteps DEF BaseInv, IInv, TypeOK, Request
<1>1. \A g \in req[x].goal : Created(g)' /\ owner'[g] = req[x].sub
  BY <1>0, CreatedLasts DEF Sweeps
<1>2. ASSUME NEW g \in req[x].goal \ excused', Usable(g)'
      PROVE  g \in Remaining(x)'
  <2>1. Created(g) /\ Usable(g)
    BY <1>0, <1>2, GoneStays DEF Sweeps
  <2> QED
    BY <1>0, <2>1 DEF Sweeps, Remaining
<1>3. ASSUME pc[x] = "reply", req[x].op = "logout", req[x].sid \notin excused'
      PROVE  ~(Usable(req[x].sid)')
  <2> PICK s \in Sessions : s = req[x].sid
    BY <1>0
  <2>1. token[s] # None
    BY <1>3 DEF BaseInv, Purposes, Purpose
  <2>2. ~Usable(s)
    BY <1>0, <1>3 DEF Sweeps
  <2>3. ~Usable(s)'
    BY <1>3, <2>1, <2>2, TokenCreated, GoneStays
  <2> QED
    BY <2>3
<1> QED
  BY <1>1, <1>2, <1>3 DEF Sweeps, Usable, Present, IsExpired

\* What the sweep of a request that goes on still has to see to.
LEMMA KeptGoal ==
    ASSUME BaseInv, BaseInv', HeldIsLive, [PromiseNext]_promiseVars,
           NEW r \in Requests, Sweeps(r), pc[r] # "idle", KeepsPurpose(r)
    PROVE  /\ \A g \in req'[r].goal : Created(g)' /\ owner'[g] = req'[r].sub
           /\ \A g \in req'[r].goal \ excused' : Usable(g)' =>
                /\ g \in Sessions /\ g \in Remaining(r) /\ Present(g)
                /\ Matches(r, g)
<1>0. excused \subseteq excused' /\ req[r].goal \subseteq Sessions
  BY PromiseSteps DEF BaseInv, IInv, TypeOK, Request
<1>1. \A g \in req[r].goal : Created(g)' /\ owner'[g] = req[r].sub
  BY <1>0, CreatedLasts DEF Sweeps
<1>2. ASSUME NEW g \in req[r].goal \ excused', Usable(g)'
      PROVE  /\ g \in Sessions /\ g \in Remaining(r) /\ Present(g)
             /\ Matches(r, g)
  <2>1. g \in Sessions /\ Created(g) /\ owner[g] = req[r].sub /\ Usable(g)
    BY <1>0, <1>2, GoneStays DEF Sweeps
  <2>2. g \in Remaining(r)
    BY <1>0, <2>1 DEF Sweeps
  <2>3. Present(g) /\ Matches(r, g)
    BY <2>1 DEF Usable, Matches, BaseInv, IInv, AtRest
  <2> QED
    BY <2>1, <2>2, <2>3
<1> QED
  BY <1>1, <1>2 DEF KeepsPurpose

\* The sweep of the request that moves.
LEMMA OwnSweep ==
    ASSUME BaseInv, BaseInv', HeldIsLive, PromiseNext,
           NEW r \in Requests, Sweeps(r), Effect(r)
    PROVE  Sweeps(r)'
<1> SUFFICES ASSUME pc'[r] # "idle"
             PROVE  Sweeps(r)'
  BY DEF Sweeps
<1>0. IInv /\ [PromiseNext]_promiseVars
  BY DEF BaseInv
<1>1. ASSUME NEW s \in Sessions, Admits(r, s)
      PROVE  Sweeps(r)'
  BY <1>1 DEF Admits, Moves, Sweeps
<1>2. ASSUME NEW s \in Sessions, Receives(r, s)
      PROVE  Sweeps(r)'
  <2>1. CASE req'[r].goal = {}
    BY <1>2, <2>1 DEF Receives, Moves, Sweeps
  <2>2. CASE pc'[r] = "scan" /\ req'[r].goal = LiveSessions(token[s])
    <3>1. req'[r].unseen = Sessions /\ req'[r].sub = token[s]
      BY <1>2, <2>2 DEF Receives, Moves
    <3>2. ASSUME NEW g \in LiveSessions(token[s])
          PROVE  g \in Sessions /\ Created(g)' /\ owner'[g] = token[s]
      BY <1>0, <3>2, PresentCreated, CreatedLasts DEF LiveSessions, Usable
    <3> QED
      BY <2>2, <3>1, <3>2 DEF Sweeps, Remaining
  <2> QED
    BY <1>2, <2>1, <2>2 DEF Receives, Moves
<1>3. ASSUME pc[r] # "idle", KeepsPurpose(r)
      PROVE  /\ \A g \in req'[r].goal : Created(g)' /\ owner'[g] = req'[r].sub
             /\ \A g \in req'[r].goal \ excused' : Usable(g)' =>
                  /\ g \in Sessions /\ g \in Remaining(r) /\ Present(g)
                  /\ Matches(r, g)
  BY <1>0, <1>3, KeptGoal
<1>4. CASE /\ KeepsPurpose(r) /\ KeepsSweep(r)
           /\ pc[r] \notin {"idle", "scan", "fetch", "revoke"}
           /\ pc'[r] = "reply" /\ req[r].op = "logout" =>
                ~(Usable(req[r].sid)')
  <2>1. Remaining(r) = {} /\ Remaining(r)' = {}
    BY <1>4 DEF Sweeps, Remaining, KeepsSweep
  <2> QED
    BY <1>3, <1>4, <2>1
       DEF Sweeps, Remaining, KeepsPurpose, KeepsSweep, Usable, Present, IsExpired
<1>5. ASSUME NEW n \in 0..Duration, Writes(r, n)
      PROVE  Sweeps(r)'
  <2>1. pc[r] = "put" => req[r].op # "logout"
    BY DEF BaseInv, Purposes, Purpose, OpAt
  <2> QED
    BY <1>4, <1>5, <2>1 DEF Writes, Moves, AfterGet
<1>6. ASSUME NEW s \in Sessions, Deletes(r, s)
      PROVE  Sweeps(r)'
  <2>1. ~Usable(s)'
    BY <1>6 DEF Deletes, Usable, Present, NoKey
  <2>2. CASE pc[r] = "del"
    <3>1. /\ KeepsPurpose(r) /\ KeepsSweep(r) /\ req[r].sid = s
      BY <1>6, <2>2 DEF Deletes, Moves
    <3>2. ~(Usable(req[r].sid)')
      BY <2>1, <3>1 DEF KeepsPurpose, Usable, Present, IsExpired
    <3> QED
      BY <1>4, <2>2, <3>1, <3>2
  <2>3. CASE pc[r] = "revoke"
    <3>1. /\ KeepsPurpose(r) /\ pc'[r] = "revoke"
          /\ req'[r].unseen = req[r].unseen /\ req'[r].keys = req[r].keys
          /\ req'[r].doomed = req[r].doomed \ {s}
      BY <1>6, <2>3 DEF Deletes, Moves
    <3>2. \A g \in req'[r].goal \ excused' : Usable(g)' => g \in Remaining(r)'
      BY <1>3, <2>1, <2>3, <3>1 DEF Remaining
    <3>3. \A g \in req'[r].goal : Created(g)' /\ owner'[g] = req'[r].sub
      BY <1>3, <2>3, <3>1
    <3>4. req'[r].unseen = {} /\ req'[r].keys = {}
      BY <2>3, <3>1 DEF Sweeps
    <3> QED
      BY <3>1, <3>2, <3>3, <3>4 DEF Sweeps
  <2> QED
    BY <1>6, <2>2, <2>3 DEF Deletes, Moves
<1>7. CASE GoesOn(r)
  <2>1. pc[r] = "seal" => req[r].op # "logout"
    BY DEF BaseInv, Purposes, Purpose, OpAt
  <2> QED
    BY <1>4, <1>7, <2>1 DEF GoesOn, Moves, AfterGet
<1>8. CASE Surveys(r)
  <2>1. KeepsPurpose(r) /\ pc[r] \in {"scan", "fetch", "revoke"}
    BY <1>8 DEF Surveys, Moves
  <2>2. \A g \in req'[r].goal : Created(g)' /\ owner'[g] = req'[r].sub
    BY <1>3, <2>1
  <2>3. \A g \in req'[r].goal \ excused' : Usable(g)' => g \in Remaining(r)'
    <3> SUFFICES ASSUME NEW g \in req'[r].goal \ excused', Usable(g)'
                 PROVE  g \in Remaining(r)'
      OBVIOUS
    <3>1. g \in Remaining(r) /\ Present(g) /\ Matches(r, g)
      BY <1>3, <2>1
    <3>2. ~(ScanTruncated(r) /\ g \in req[r].unseen)
      BY LostIsExcused
    <3>3. ~(FetchLost(r) /\ g \in req[r].keys \ req'[r].keys)
      BY LostIsExcused
    <3>4. CASE KeepsSweep(r)
      BY <3>1, <3>4 DEF KeepsSweep, Remaining
    <3> QED
      BY <1>8, <3>1, <3>2, <3>3, <3>4 DEF Surveys
  <2>4. /\ pc'[r] # "scan" => req'[r].unseen = {}
        /\ pc'[r] \notin {"scan", "fetch"} => req'[r].keys = {}
        /\ pc'[r] \notin {"scan", "fetch", "revoke"} => req'[r].doomed = {}
    BY <1>8 DEF Surveys, Moves, Sweeps, KeepsSweep
  <2>5. pc'[r] = "reply" => req'[r].op # "logout"
    BY <1>8 DEF Surveys, Moves, KeepsPurpose, BaseInv, Purposes, Purpose, OpAt
  <2> QED
    BY <2>2, <2>3, <2>4, <2>5 DEF Sweeps
<1>9. CASE Answers(r) \/ GivesUp(r)
  BY <1>9 DEF Answers, GivesUp, Moves
<1> QED
  BY <1>1, <1>2, <1>5, <1>6, <1>7, <1>8, <1>9 DEF Effect, Begins

\* A logout answers 200 when what it was to revoke is gone, and what is gone
\* stays so.
LEMMA NextRevocation ==
    ASSUME BaseInv, BaseInv', HeldIsLive, RevocationInv,
           [PromiseNext]_promiseVars
    PROVE  RevocationInv'
<1>0. IInv /\ revoked \subseteq Sessions /\ excused \subseteq excused'
  BY PromiseSteps DEF BaseInv, IInv, TypeOK
<1>1. ASSUME NEW x \in Requests
      PROVE  Sweeps(x)'
  <2>1. CASE pc'[x] = pc[x] /\ req'[x] = req[x]
    BY <2>1, OthersSweep DEF RevocationInv
  <2>2. ASSUME NEW r \in Requests, Effect(r), x # r
        PROVE  pc'[x] = pc[x] /\ req'[x] = req[x]
    BY <2>2, EffectMoves DEF Moves
  <2>3. CASE Effect(x) /\ PromiseNext
    BY <2>3, OwnSweep DEF RevocationInv
  <2> QED
    BY <1>0, <2>1, <2>2, <2>3, PromiseSteps DEF Rests, Ages
<1>2. ASSUME NEW s \in revoked
      PROVE  Created(s)' /\ (s \notin excused' => ~Usable(s)')
  BY <1>0, <1>2, CreatedLasts, GoneStays DEF RevocationInv
<1>3. ASSUME NEW r \in Requests, Answers(r), NEW s \in revoked', s \notin revoked
      PROVE  Created(s)' /\ (s \notin excused' => ~Usable(s)')
  <2>1. Sweeps(r) /\ pc[r] = "reply" /\ req[r].sid \in Sessions
        /\ req[r].goal \subseteq Sessions
    BY <1>0, <1>3 DEF RevocationInv, Answers, Moves, IInv, TypeOK, Request
  <2>2. Created(s) /\ s \in Sessions /\ (s \notin excused => ~Usable(s))
    <3>1. CASE req[r].op = "logout"
      <4>1. s = req[r].sid
        BY <1>3, <3>1 DEF Answers
      <4>2. token[s] # None
        BY <2>1, <3>1, <4>1 DEF BaseInv, Purposes, Purpose
      <4> QED
        BY <2>1, <3>1, <4>1, <4>2, TokenCreated DEF Sweeps
    <3>2. CASE req[r].op = "logout_all"
      <4>1. s \in req[r].goal
        BY <1>3, <3>2 DEF Answers
      <4>2. Remaining(r) = {}
        BY <2>1 DEF Sweeps, Remaining
      <4> QED
        BY <2>1, <4>1, <4>2 DEF Sweeps
    <3> QED
      BY <1>3, <3>1, <3>2 DEF Answers
  <2> QED
    BY <1>0, <2>2, CreatedLasts, GoneStays
<1>4. ASSUME ~(\E r \in Requests : Answers(r))
      PROVE  revoked' = revoked
  BY <1>0, <1>4, OnlyAnswersPromise DEF SameAnswers
<1>5. ASSUME NEW s \in revoked'
      PROVE  Created(s)' /\ (s \notin excused' => ~Usable(s)')
  BY <1>2, <1>3, <1>4, <1>5
<1> QED
  BY <1>1, <1>5 DEF RevocationInv

-----------------------------------------------------------------------------
(* Part 6.  What has been verified stays verified.                         *)

\* Nobody can take the mark from a sealed session: there is nothing left that
\* could be written to it without the mark.
LEMMA SealedStays ==
    ASSUME BaseInv, BaseInv', [PromiseNext]_promiseVars, NEW s \in Sessions,
           token[s] # None, Sealed(s)
    PROVE  Sealed(s)'
<1>0. IInv /\ TypeOK /\ TypeOK'
  BY DEF BaseInv, IInv
<1>1. CASE Rests
  BY <1>1 DEF Rests, Sealed, Present, Holds
<1>2. CASE Ages
  <2>1. left[s] \in Int /\ left'[s] \in Int
    BY <1>0, DurationAssumption DEF TypeOK
  <2>2. left'[s] > 0 => left[s] > 0
    BY <1>2, <2>1 DEF Ages
  <2>3. Present(s)' => Present(s) /\ store'[s].data = store[s].data
    BY <1>0, <1>2, DurationAssumption DEF Ages, Present, NoKey, TypeOK, Key
  <2>4. pc' = pc /\ req' = req
    BY <1>2 DEF Ages
  <2> QED
    BY <2>2, <2>3, <2>4 DEF Sealed, Holds
<1>3. ASSUME NEW r \in Requests, Effect(r)
      PROVE  Sealed(s)'
  <2>1. SUFFICES ASSUME left[s] > 0
                 PROVE  Sealed(s)'
    BY <1>3, EffectKeepsTime DEF Sealed
  <2>2. \A x \in Requests : Holds(x, s) => req[x].copy.mfa
    BY <2>1 DEF Sealed
  <2>3. ASSUME NEW x \in Requests, x # r, Holds(x, s)'
        PROVE  req'[x].copy.mfa
    <3>1. pc'[x] = pc[x] /\ req'[x] = req[x]
      BY <1>3, <2>3, EffectMoves DEF Moves
    <3> QED
      BY <2>2, <2>3, <3>1 DEF Holds
  <2>4. ASSUME NEW n \in 0..Duration, Writes(r, n)
        PROVE  Sealed(s)'
    <3>1. pc[r] \in {"create", "touch", "put"} /\ req'[r].sid = req[r].sid
      BY <2>4 DEF Writes, Moves, KeepsPurpose
    <3>2. Present(s)' => store'[s].data.mfa
      <4>1. CASE s = req[r].sid
        <5>1. req[r].copy.mfa
          BY <2>2, <3>1, <4>1 DEF Holds
        <5>2. store'[s] = [data |-> req[r].copy, ttl |-> n]
          BY <1>0, <2>4, <4>1, WritesKeys, Zenon
        <5> QED
          BY <5>1, <5>2
      <4>2. CASE s # req[r].sid
        <5>1. store'[s] = store[s]
          BY <1>0, <2>4, <4>2, WritesKeys
        <5> QED
          BY <2>1, <5>1 DEF Sealed, Present
      <4> QED
        BY <4>1, <4>2
    <3>3. Holds(r, s)' => req'[r].copy.mfa
      <4>1. Holds(r, s)' => req'[r].copy = req[r].copy
        BY <2>4 DEF Writes, Moves, Holds
      <4>2. Holds(r, s)' => Holds(r, s)
        BY <3>1 DEF Holds
      <4> QED
        BY <2>2, <4>1, <4>2
    <3> QED
      BY <2>3, <3>2, <3>3 DEF Sealed
  <2>5. ASSUME NEW t \in Sessions, Deletes(r, t)
        PROVE  Sealed(s)'
    <3>1. Present(s)' => Present(s) /\ store'[s] = store[s]
      BY <2>5 DEF Deletes, Present, NoKey
    <3>2. ~(Holds(r, s)')
      BY <2>5 DEF Deletes, Moves, Holds
    <3> QED
      BY <2>1, <2>3, <3>1, <3>2 DEF Sealed
  <2>6. CASE store' = store /\ (Holds(r, s)' => req'[r].copy.mfa)
    BY <2>1, <2>3, <2>6 DEF Sealed, Present
  <2>7. ASSUME NEW t \in Sessions, Admits(r, t)
        PROVE  store' = store /\ ~(Holds(r, s)')
    <3>1. t # s
      BY <1>0, <2>7 DEF Admits, IInv, AtRest
    <3> QED
      BY <2>7, <3>1 DEF Admits, Holds
  <2>8. ASSUME NEW t \in Sessions, Receives(r, t)
        PROVE  store' = store /\ ~(Holds(r, s)')
    BY <2>8 DEF Receives, Moves, Holds, SameSessions
  <2>9. CASE GoesOn(r)
    <3>1. store' = store
      BY <2>9 DEF GoesOn, SameSessions
    <3>2. ASSUME Holds(r, s)'
          PROVE  req'[r].copy.mfa
      <4>1. req[r].sid = s
        BY <2>9, <3>2 DEF GoesOn, KeepsPurpose, Holds
      <4>2. CASE pc[r] = "get"
        BY <2>1, <2>9, <4>1, <4>2 DEF GoesOn, Moves, Sealed
      <4>3. CASE pc[r] = "check"
        <5>1. req'[r].copy = req[r].copy
          BY <2>9, <3>2, <4>3 DEF GoesOn, Moves, Holds
        <5> QED
          BY <2>2, <4>1, <4>3, <5>1 DEF Holds
      <4>4. CASE pc[r] = "seal"
        <5>1. req'[r].copy.mfa = req[r].mark
          BY <2>9, <3>2, <4>4 DEF GoesOn, Moves, Holds
        <5>2. req[r].op = "verify" /\ req[r].mark
          BY <4>1, <4>4 DEF BaseInv, Purposes, Purpose, OpAt
        <5> QED
          BY <5>1, <5>2
      <4> QED
        BY <2>9, <3>2, <4>2, <4>3, <4>4 DEF GoesOn, Moves, Holds
    <3> QED
      BY <2>6, <3>1, <3>2
  <2>10. CASE Surveys(r) \/ Answers(r) \/ GivesUp(r)
    <3>1. store' = store /\ ~(Holds(r, s)')
      BY <2>10 DEF Surveys, Answers, GivesUp, Moves, Holds, SameSessions
    <3> QED
      BY <2>6, <3>1
  <2> QED
    BY <1>3, <2>4, <2>5, <2>6, <2>7, <2>8, <2>9, <2>10 DEF Effect, Begins
<1> QED
  BY <1>0, <1>1, <1>2, <1>3, PromiseSteps

\* The write of a verify seals its session, or gives it an excuse.
LEMMA PutSeals ==
    ASSUME BaseInv, BaseInv', VerificationInv, PromiseNext,
           NEW r \in Requests, NEW n \in 0..Duration, Writes(r, n),
           pc[r] = "put", req[r].op = "verify", req[r].sid \notin excused'
    PROVE  Sealed(req[r].sid)'
<1> PICK s \in Sessions : s = req[r].sid
  BY WritesKeys DEF BaseInv
<1>1. /\ Put(r) /\ pc'[r] = "reply" /\ req'[r].sid = s
      /\ \A x \in Requests \ {r} : pc'[x] = pc[x] /\ req'[x] = req[x]
  BY DEF Writes, Moves, KeepsPurpose
<1>2. req[r].copy.mfa
  BY DEF VerificationInv, BaseInv, Purposes, Purpose
<1>3. store'[s] = [data |-> req[r].copy, ttl |-> n]
  BY WritesKeys, Zenon DEF BaseInv
<1>4. store'[s].data.mfa
  BY <1>2, <1>3
<1>5. \A x \in Requests \ {r} : ~Holds(x, s)
  BY <1>1, UpgradedIsExcused DEF HeldByOther
<1>6. \A x \in Requests : ~(Holds(x, s)')
  BY <1>1, <1>5 DEF Holds
<1> QED
  BY <1>1, <1>4, <1>6 DEF Sealed, Present, Holds

\* Nothing has been verified when the proxy starts.
LEMMA InitVerification == PromiseInit => VerificationInv
BY DEF PromiseInit, Init, VerificationInv

\* verify answers 200 when its session is sealed, and sealed it stays.
LEMMA NextVerification ==
    ASSUME BaseInv, BaseInv', VerificationInv, [PromiseNext]_promiseVars
    PROVE  VerificationInv'
<1>0. /\ IInv /\ IInv' /\ excused \subseteq excused' /\ verified \subseteq Sessions
      /\ \A x \in Requests : pc[x] # "idle" => req[x].sid \in Sessions
  BY PromiseSteps DEF BaseInv, IInv, TypeOK
<1>1. ASSUME NEW s \in Sessions, token[s] # None
      PROVE  token'[s] # None
  <2>1. owner[s] # None /\ Created(s)
    BY <1>1, TokenCreated DEF Created
  <2>2. ASSUME NEW r \in Requests, Answers(r)
        PROVE  token'[s] # None
    BY <1>0, <1>1, <2>2 DEF Answers, Moves, IInv, InFlight
  <2>3. CASE ~(\E r \in Requests : Answers(r))
    BY <1>0, <1>1, <2>3, OnlyAnswersPromise
  <2> QED
    BY <2>2, <2>3
<1>2. ASSUME NEW s \in verified
      PROVE  token'[s] # None /\ (s \notin excused' => Sealed(s)')
  BY <1>0, <1>1, <1>2, SealedStays DEF VerificationInv
<1>3. ASSUME NEW r \in Requests, Answers(r), NEW s \in verified', s \notin verified
      PROVE  token'[s] # None /\ (s \notin excused' => Sealed(s)')
  <2>1. s = req[r].sid /\ req[r].op = "verify" /\ pc[r] = "reply"
    BY <1>3 DEF Answers, Moves
  <2>2. s \in Sessions /\ token[s] # None
    BY <1>0, <2>1 DEF BaseInv, Purposes, Purpose
  <2> QED
    BY <1>0, <1>1, <2>1, <2>2, SealedStays DEF VerificationInv
<1>4. ASSUME ~(\E r \in Requests : Answers(r))
      PROVE  verified' = verified
  BY <1>0, <1>4, OnlyAnswersPromise DEF SameAnswers
<1>5. ASSUME NEW x \in Requests, pc'[x] = pc[x], req'[x] = req[x]
      PROVE  /\ pc'[x] = "put" => req'[x].copy.mfa = req'[x].mark
             /\ /\ pc'[x] = "reply" /\ req'[x].op = "verify"
                /\ req'[x].sid \notin excused'
                => Sealed(req[x].sid)'
  <2>1. ASSUME pc[x] = "reply", req[x].op = "verify", req[x].sid \notin excused'
        PROVE  Sealed(req[x].sid)'
    <3> PICK s \in Sessions : s = req[x].sid
      BY <1>0, <2>1
    <3>1. token[s] # None /\ Sealed(s)
      BY <1>0, <2>1 DEF BaseInv, Purposes, Purpose, VerificationInv
    <3>2. Sealed(s)'
      BY <3>1, SealedStays
    <3> QED
      BY <1>5, <3>2 DEF Sealed, Present, Holds
  <2> QED
    BY <1>5, <2>1 DEF VerificationInv
<1>6. ASSUME NEW x \in Requests, Effect(x), PromiseNext
      PROVE  /\ pc'[x] = "put" => req'[x].copy.mfa = req'[x].mark
             /\ /\ pc'[x] = "reply" /\ req'[x].op = "verify"
                /\ req'[x].sid \notin excused'
                => Sealed(req[x].sid)'
  <2>1. ASSUME pc'[x] = "put"
        PROVE  req'[x].copy.mfa = req'[x].mark
    BY <1>6, <2>1
       DEF Effect, Begins, Admits, Receives, Writes, Deletes, GoesOn, Surveys,
           Answers, GivesUp, Moves, AfterGet, KeepsPurpose
  <2>2. ASSUME pc'[x] = "reply", req'[x].op = "verify", req'[x].sid \notin excused'
        PROVE  Sealed(req[x].sid)'
    <3>1. ASSUME NEW n \in 0..Duration, Writes(x, n)
          PROVE  Sealed(req[x].sid)'
      BY <1>6, <2>2, <3>1, PutSeals DEF Writes, Moves, KeepsPurpose, AfterGet
    <3>2. CASE GoesOn(x)
      <4>1. ~(left[req[x].sid] > 0) /\ req'[x].sid = req[x].sid /\ left' = left
        BY <2>2, <3>2 DEF GoesOn, Moves, AfterGet, KeepsPurpose, SameSessions
      <4> QED
        BY <4>1 DEF Sealed
    <3>3. ASSUME KeepsPurpose(x)
          PROVE  pc[x] \notin {"del", "revoke"}
      BY <2>2, <3>3 DEF KeepsPurpose, BaseInv, Purposes, Purpose, OpAt
    <3> QED
      BY <1>6, <2>2, <3>1, <3>2, <3>3
         DEF Effect, Begins, Admits, Receives, Deletes, Surveys, Answers,
             GivesUp, Moves
  <2> QED
    BY <2>1, <2>2
<1>7. ASSUME NEW x \in Requests
      PROVE  \/ pc'[x] = pc[x] /\ req'[x] = req[x]
             \/ Effect(x) /\ PromiseNext
  BY <1>0, PromiseSteps, EffectMoves DEF Moves, Rests, Ages
<1>8. \A s \in verified' : token'[s] # None /\ (s \notin excused' => Sealed(s)')
  BY <1>2, <1>3, <1>4
<1> QED
  BY <1>5, <1>6, <1>7, <1>8 DEF VerificationInv

-----------------------------------------------------------------------------
(* Part 7.  What is forwarded was entitled to it.                          *)

\* Nothing is decided before the first request.
LEMMA InitEntitlement == PromiseInit => EntitlementInv
BY DEF PromiseInit, Init, EntitlementInv, EntitledOK, Deciding

\* What authorize decides on was the session's state when GET read it, or the
\* session had expired by the time it looked at the clock.
LEMMA NextEntitlement ==
    ASSUME BaseInv, BaseInv', EntitlementInv, [PromiseNext]_promiseVars
    PROVE  EntitlementInv'
<1>0. /\ IInv /\ TypeOK /\ TypeOK'
      /\ \A x \in Requests :
           x \in entitled /\ pc'[x] # "idle" => x \in entitled'
  BY PromiseSteps DEF BaseInv, IInv
<1> SUFFICES ASSUME NEW x \in Requests
             PROVE  EntitledOK(x)'
  BY DEF EntitlementInv
<1>1. EntitledOK(x)
  BY DEF EntitlementInv
<1>2. ASSUME pc'[x] = pc[x], req'[x] = req[x],
             pc[x] # "idle" => (IsExpired(req[x].sid) => IsExpired(req[x].sid)')
      PROVE  EntitledOK(x)'
  BY <1>0, <1>1, <1>2 DEF EntitledOK, Deciding, IsExpired
<1>3. CASE Rests
  BY <1>2, <1>3 DEF Rests, IsExpired
<1>4. CASE Ages
  <2>1. pc[x] # "idle" => left'[req[x].sid] = left[req[x].sid]
                          \/ left[req[x].sid] >= 0
    BY <1>0, <1>4 DEF Ages, TypeOK
  <2>2. pc[x] # "idle" => left[req[x].sid] \in Int
    BY <1>0, DurationAssumption DEF TypeOK
  <2> QED
    BY <1>2, <1>4, <2>1, <2>2 DEF Ages, IsExpired
<1>5. ASSUME NEW r \in Requests, Effect(r), x # r
      PROVE  EntitledOK(x)'
  BY <1>2, <1>5, EffectMoves, EffectKeepsTime DEF Moves, IsExpired
<1>6. ASSUME Effect(x), PromiseNext
      PROVE  EntitledOK(x)'
  <2>1. left' = left
    BY <1>6, EffectKeepsTime
  <2>2. pc'[x] # "idle" /\ Entitles(x)' => x \in entitled'
    BY <1>6 DEF PromiseNext
  <2>3. ASSUME NEW n \in 0..Duration, Writes(x, n)
        PROVE  EntitledOK(x)'
    <3>1. pc'[x] = "decide" => /\ pc[x] = "touch" /\ req[x].op = "access"
                               /\ req'[x].copy = req[x].copy
      BY <2>3 DEF Writes, Moves, AfterGet
    <3>2. pc'[x] \in {"seal", "decide", "reply"}
      BY <2>3 DEF Writes, Moves, AfterGet
    <3> QED
      BY <1>0, <1>1, <3>1, <3>2 DEF EntitledOK, Deciding
  <2>4. CASE GoesOn(x)
    <3>1. CASE pc[x] = "get"
      <4>1. /\ pc'[x] = "check" /\ Present(req[x].sid) /\ store' = store
            /\ req'[x].sid = req[x].sid /\ req'[x].op = req[x].op
            /\ req'[x].copy = store[req[x].sid].data
        BY <2>4, <3>1 DEF GoesOn, Moves, KeepsPurpose, SameSessions
      <4>2. Deciding(x)' /\ (RequireMfa => req'[x].copy.mfa) => Entitles(x)'
        BY <4>1 DEF Deciding, Entitles, Usable, Present, IsExpired
      <4> QED
        BY <2>2, <4>1, <4>2 DEF EntitledOK
    <3>2. CASE pc[x] = "check"
      <4>1. /\ pc'[x] \in {"purge", "touch", "decide", "seal"}
            /\ pc'[x] \in {"touch", "decide"} =>
                 req'[x].copy = req[x].copy /\ left[req[x].sid] >= 0
            /\ pc'[x] = "decide" => req[x].op = "access"
            /\ req'[x].op = req[x].op
        BY <1>0, <2>4, <3>2, DurationAssumption
           DEF GoesOn, Moves, AfterGet, KeepsPurpose, TypeOK
      <4>2. left[req[x].sid] \in Int
        BY <1>0, <3>2, DurationAssumption DEF TypeOK
      <4>3. Deciding(x)' => Deciding(x) /\ req'[x].copy = req[x].copy
        BY <3>2, <4>1, <4>2 DEF Deciding, IsExpired
      <4> QED
        BY <1>0, <1>1, <4>1, <4>3 DEF EntitledOK, Deciding
    <3>3. CASE pc[x] = "seal"
      BY <2>4, <3>3 DEF GoesOn, Moves, EntitledOK, Deciding
    <3>4. CASE pc[x] = "decide"
      BY <1>0, <1>1, <2>4, <3>4 DEF GoesOn, Moves, EntitledOK, Deciding
    <3> QED
      BY <2>4, <3>1, <3>2, <3>3, <3>4 DEF GoesOn, Moves
  <2>5. CASE pc'[x] \notin {"check", "touch", "decide", "forward"}
    BY <2>5 DEF EntitledOK, Deciding
  <2> QED
    BY <1>6, <2>3, <2>4, <2>5
       DEF Effect, Begins, Admits, Receives, Deletes, Surveys, Answers,
           GivesUp, Moves
<1> QED
  BY <1>0, <1>3, <1>4, <1>5, <1>6, PromiseSteps

-----------------------------------------------------------------------------
(* The promises.                                                           *)

\* Together the invariants are inductive.
LEMMA NextPromiseInv ==
    BaseInv /\ PromiseInv /\ BaseInv' /\ [PromiseNext]_promiseVars => PromiseInv'
BY NextHeldIsLive, NextRevocation, NextVerification, NextEntitlement
   DEF PromiseInv, BaseInv

\* Whatever requests do, crash or wait for, and whenever Redis executes what
\* they ask of it, the invariants of parts 2 and 4 to 7 hold.
THEOREM PromiseInvAlways == PromiseSpec => []PromiseInv
<1>1. PromiseInit => Init /\ BaseInv /\ PromiseInv
  BY InitIInv, InitOutlives, InitPurposes, InitHeldIsLive, InitRevocation,
     InitVerification, InitEntitlement
     DEF PromiseInit, PromiseInv, BaseInv
<1>2. [PromiseNext]_promiseVars => [Next]_vars
  BY DEF PromiseNext, promiseVars
<1>3. BaseInv /\ [Next]_vars => BaseInv'
  BY NextBase
<1> QED
  BY <1>1, <1>2, <1>3, NextPromiseInv, PTL DEF PromiseSpec

\* "Revokes just the session tied to the presented token", "Revokes every live
\* session for this user": once a logout or logout_all has answered 200 the
\* sessions are of no use to anybody, but for those with an excuse.
THEOREM RevokedAlways == PromiseSpec => []RevokedUnlessExcused
<1>1. PromiseInv => RevokedUnlessExcused
  BY DEF PromiseInv, RevocationInv, RevokedUnlessExcused
<1> QED
  BY <1>1, PromiseInvAlways, PTL

\* Once /auth/mfa/verify has answered 200 the session in Redis says so up to
\* its last second, unless it has an excuse.
THEOREM VerifiedAlways == PromiseSpec => []VerifiedUnlessExcused
<1>1. PromiseInv => VerifiedUnlessExcused
  BY DEF PromiseInv, VerificationInv, Sealed, VerifiedUnlessExcused
<1> QED
  BY <1>1, PromiseInvAlways, PTL

\* authorize forwards no request whose session was expired, revoked or, with
\* require_mfa, unverified all the time from its beginning to its end.
THEOREM ForwardedAlways == PromiseSpec => []ForwardedWasEntitled
<1>1. PromiseInv => ForwardedWasEntitled
  BY DEF PromiseInv, EntitlementInv, EntitledOK, ForwardedWasEntitled
<1> QED
  BY <1>1, PromiseInvAlways, PTL

-----------------------------------------------------------------------------
(* Part 8.  What is over runs out, and handlers come to an end.            *)

\* The clock of a session starts with its login.
NotStarted == \A s \in Sessions : owner[s] = None => ~IsExpired(s)

\* No session is over when the proxy starts.
LEMMA InitNotStarted == Init => NotStarted
BY DurationAssumption DEF Init, NotStarted, IsExpired

\* A second passes only for sessions that have an owner.
LEMMA NextNotStarted == IInv /\ NotStarted /\ [Next]_vars => NotStarted'
<1> SUFFICES ASSUME IInv, NotStarted, [Next]_vars,
                    NEW s \in Sessions, owner'[s] = None
             PROVE  ~IsExpired(s)'
  BY DEF NotStarted
<1>1. CASE Rests
  BY <1>1 DEF Rests, NotStarted, IsExpired
<1>2. CASE Ages
  BY <1>2 DEF Ages, NotStarted, IsExpired
<1>3. ASSUME NEW r \in Requests, Effect(r)
      PROVE  ~IsExpired(s)'
  <2>1. left' = left /\ owner[s] = None
    BY <1>3, EffectKeepsTime
  <2> QED
    BY <2>1 DEF NotStarted, IsExpired
<1> QED
  BY <1>1, <1>2, <1>3, Effects

\* A request that is about to write a session that is over was so before: the
\* tests in front of a write-back let none of these pass any more.
LEMMA NoNewLateWriter ==
    ASSUME IInv, NotStarted, NEW r \in Requests, Effect(r),
           NEW s \in Sessions, IsExpired(s), r \in LateWriters(s)'
    PROVE  FALSE
<1>1. req'[r].sid = s /\ pc'[r] \in {"create", "touch", "put"}
  BY DEF LateWriters
<1>2. ~(left[s] > 0) /\ owner[s] # None
  <2>1. left[s] \in Int
    BY DEF IInv, TypeOK
  <2> QED
    BY <2>1 DEF IsExpired, NotStarted
<1>3. ASSUME NEW t \in Sessions, Admits(r, t)
      PROVE  FALSE
  BY <1>1, <1>2, <1>3 DEF Admits
<1>4. ASSUME NEW t \in Sessions, Receives(r, t)
      PROVE  FALSE
  BY <1>1, <1>4 DEF Receives, Moves
<1>5. ASSUME GoesOn(r)
      PROVE  FALSE
  <2>1. req[r].sid = s
    BY <1>1, <1>5 DEF GoesOn, KeepsPurpose
  <2>2. ~(pc'[r] = "touch" /\ left[req[r].sid] > 0)
        /\ ~(pc'[r] = "put" /\ left[req[r].sid] > 0)
    BY <1>2, <2>1
  <2> QED
    BY <1>1, <1>5, <2>2 DEF GoesOn, Moves, AfterGet
<1>6. ASSUME Surveys(r)
      PROVE  FALSE
  BY <1>1, <1>6 DEF Surveys, Moves
<1>7. ASSUME Answers(r) \/ GivesUp(r)
      PROVE  FALSE
  BY <1>1, <1>7 DEF Answers, GivesUp, Moves
<1>8. ASSUME NEW n, Writes(r, n)
      PROVE  FALSE
  BY <1>1, <1>8 DEF Writes, Moves, AfterGet
<1>9. ASSUME NEW t, Deletes(r, t)
      PROVE  FALSE
  BY <1>1, <1>9 DEF Deletes, Moves
<1> QED
  BY <1>3, <1>4, <1>5, <1>6, <1>7, <1>8, <1>9 DEF Effect, Begins

\* Only a handler that had its write in hand prolongs the key of a session.
LEMMA ProlongsOwn ==
    ASSUME IInv, NEW r \in Requests, Effect(r),
           NEW s \in Sessions, store'[s].ttl > store[s].ttl
    PROVE  r \in LateWriters(s)
<1>1. store[s] \in Key /\ store[s].ttl \in Int /\ store[s].ttl >= -1
  BY DurationAssumption DEF IInv, TypeOK, Key
<1>2. store'[s] # store[s]
  <2>1. ~(store[s].ttl > store[s].ttl)
    <3>1. PICK n \in Int : n = store[s].ttl
      BY <1>1, Zenon
    <3>2. ~(n > n)
      OBVIOUS
    <3> QED
      BY <3>1, <3>2, Zenon
  <2> QED
    BY <2>1
<1>3. ASSUME NEW t \in Sessions, Deletes(r, t)
      PROVE  FALSE
  <2>1. store'[s] = NoKey
    BY <1>2, <1>3 DEF Deletes
  <2>2. store'[s].ttl = -1
    BY <2>1 DEF NoKey
  <2> QED
    BY <1>1, <2>2
<1>4. ASSUME NEW n, Writes(r, n)
      PROVE  r \in LateWriters(s)
  <2>1. s = req[r].sid
    BY <1>2, <1>4, WritesKeys
  <2>2. pc[r] \in {"create", "touch", "put"}
    BY <1>4 DEF Writes, Moves
  <2> QED
    BY <2>1, <2>2 DEF LateWriters
<1>5. CASE Begins(r)
  BY <1>2, <1>5 DEF Begins, Admits, Receives, SameSessions
<1>6. CASE GoesOn(r) \/ Surveys(r) \/ Answers(r) \/ GivesUp(r)
  BY <1>2, <1>6 DEF GoesOn, Surveys, Answers, GivesUp, SameSessions
<1> QED
  BY <1>3, <1>4, <1>5, <1>6, Zenon DEF Effect

\* A step of a request starts no late write, and one that prolongs a key uses
\* up the write it was.
LEMMA LateEffect ==
    ASSUME IInv, NotStarted, NEW r \in Requests, Effect(r),
           NEW s \in Sessions, IsExpired(s)
    PROVE  /\ LateWriters(s)' \subseteq LateWriters(s)
           /\ store'[s].ttl > store[s].ttl => LateWriters(s)' # LateWriters(s)
<1>1. r \notin LateWriters(s)'
  BY NoNewLateWriter
<1>2. ASSUME NEW x \in Requests, x # r, x \in LateWriters(s)'
      PROVE  x \in LateWriters(s)
  <2>1. pc'[x] = pc[x] /\ req'[x] = req[x]
    BY <1>2, EffectMoves DEF Moves
  <2> QED
    BY <1>2, <2>1 DEF LateWriters
<1>3. LateWriters(s)' \subseteq Requests
  BY DEF LateWriters
<1>4. LateWriters(s)' \subseteq LateWriters(s)
  BY <1>1, <1>2, <1>3
<1>5. store'[s].ttl > store[s].ttl => r \in LateWriters(s)
  BY ProlongsOwn
<1> QED
  BY <1>1, <1>4, <1>5

\* No step of anybody starts a late write either.
LEMMA LateStep ==
    ASSUME IInv, NotStarted, [Next]_vars, NEW s \in Sessions, IsExpired(s)
    PROVE  /\ IsExpired(s)'
           /\ LateWriters(s)' \subseteq LateWriters(s)
           /\ store'[s].ttl > store[s].ttl => LateWriters(s)' # LateWriters(s)
<1>0. store[s].ttl \in Int /\ store[s].ttl >= -1 /\ left[s] \in Int
  BY DurationAssumption DEF IInv, TypeOK, Key
<1>1. CASE Rests
  <2>1. /\ left'[s] = left[s] /\ store'[s].ttl = store[s].ttl
        /\ LateWriters(s)' = LateWriters(s)
    BY <1>1 DEF Rests, LateWriters
  <2> QED
    BY <1>0, <2>1 DEF IsExpired
<1>2. CASE Ages
  <2>1. LateWriters(s)' = LateWriters(s)
    BY <1>2 DEF Ages, LateWriters
  <2>2. IsExpired(s)'
    BY <1>0, <1>2 DEF Ages, IsExpired
  <2>3. store'[s].ttl <= store[s].ttl
    <3>1. CASE store[s].ttl > 0
      <4>1. store'[s].ttl = store[s].ttl - 1
        BY <1>2, <3>1 DEF Ages
      <4> QED
        BY <1>0, <4>1
    <3>2. CASE ~(store[s].ttl > 0)
      <4>1. store'[s].ttl = -1
        BY <1>2, <3>2 DEF Ages, NoKey
      <4> QED
        BY <1>0, <4>1
    <3> QED
      BY <3>1, <3>2
  <2>4. store'[s].ttl \in Int
    BY <1>0, <1>2 DEF Ages, NoKey
  <2>5. ~(store'[s].ttl > store[s].ttl)
    BY <1>0, <2>3, <2>4
  <2> QED
    BY <2>1, <2>2, <2>5
<1>3. ASSUME NEW r \in Requests, Effect(r)
      PROVE  /\ IsExpired(s)'
             /\ LateWriters(s)' \subseteq LateWriters(s)
             /\ store'[s].ttl > store[s].ttl => LateWriters(s)' # LateWriters(s)
  <2>1. IsExpired(s)'
    BY <1>3, EffectKeepsTime DEF IsExpired
  <2> QED
    BY <1>3, <2>1, LateEffect
<1> QED
  BY <1>1, <1>2, <1>3, Effects

\* After expires_at a session is over for good, and each write-back that can
\* still bring its key back was in a handler's hands by then and comes once.
THEOREM LateWritesEnd == Spec => LateWritesRunOut
<1>1. IInv /\ NotStarted /\ [Next]_vars =>
        [\A s \in Sessions : IsExpired(s) =>
           /\ IsExpired(s)'
           /\ LateWriters(s)' \subseteq LateWriters(s)
           /\ store'[s].ttl > store[s].ttl
                => LateWriters(s)' # LateWriters(s)]_vars
  BY LateStep
<1> QED
  BY <1>1, InitNotStarted, NextNotStarted, IInvAlways, PTL
     DEF Spec, LateWritesRunOut

\* A session that is over, out of Redis and in nobody's hands never comes back:
\* this is what SessionsEnd rests on besides the passing of time.
THEOREM GoneForGood ==
    ASSUME NEW s \in Sessions
    PROVE  Spec => [](IsExpired(s) /\ ~Present(s) /\ LateWriters(s) = {}
                        => []~Present(s))
<1> DEFINE Over == IsExpired(s) /\ ~Present(s) /\ LateWriters(s) = {}
<1>1. IInv /\ NotStarted /\ Over /\ [Next]_vars => Over'
  <2> SUFFICES ASSUME IInv, NotStarted, Over, [Next]_vars
               PROVE  Over'
    OBVIOUS
  <2>1. IsExpired(s)' /\ LateWriters(s)' = {} /\ ~(store'[s].ttl > store[s].ttl)
    BY LateStep
  <2>2. store[s].ttl \in Int /\ store[s].ttl < 0
    BY DurationAssumption DEF IInv, TypeOK, Key, Present
  <2>3. store'[s].ttl \in Int
    BY NextType, DurationAssumption DEF IInv, TypeOK, Key
  <2>4. ~(store'[s].ttl >= 0)
    <3>1. PICK m \in Int, n \in Int : m = store[s].ttl /\ n = store'[s].ttl
      BY <2>2, <2>3, Zenon
    <3>2. ~(n > m) /\ m < 0
      BY <2>1, <2>2, <3>1, Zenon
    <3>3. ~(n >= 0)
      BY <3>2
    <3> QED
      BY <3>1, <3>3, Zenon
  <2> QED
    BY <2>1, <2>4 DEF Present
<1>2. Over => ~Present(s)
  OBVIOUS
<1> HIDE DEF Over
<1>3. Spec => [](Over => []~Present(s))
  BY <1>1, <1>2, InitNotStarted, NextNotStarted, IInvAlways, PTL DEF Spec
<1> QED
  BY <1>3 DEF Over

-----------------------------------------------------------------------------
(* Part 9.  A handler that has begun gets on with every step.              *)

\* How many labels a handler can still go through, at most.
Stage(label) ==
    CASE label = "idle"                            -> 0
      [] label \in {"reply", "forward", "purge"}   -> 1
      [] label \in {"put", "decide", "del", "revoke"} -> 2
      [] label \in {"seal", "fetch"}               -> 3
      [] label \in {"create", "touch", "scan"}     -> 4
      [] label = "check"                           -> 5
      [] label = "get"                             -> 6

\* What the loop it is in, if it is in one, has still to go through.
Loop(r) ==
    CASE pc[r] = "scan"   -> req[r].unseen
      [] pc[r] = "fetch"  -> req[r].keys
      [] pc[r] = "revoke" -> req[r].doomed
      [] OTHER            -> {}

\* A step of request r: it leaves its label for good, or its loop gets shorter.
GetsOn(r) ==
    \/ Stage(pc'[r]) < Stage(pc[r])
    \/ pc'[r] = pc[r] /\ Fewer(Loop(r)', Loop(r))

\* Every label has its stage; those of a request under way are positive.
LEMMA StageNat ==
    ASSUME NEW label \in Pcs
    PROVE  Stage(label) \in 0..6 /\ (label # "idle" => Stage(label) > 0)
BY DEF Pcs, Stage

\* Whatever a request under way does, it gets on.
LEMMA EffectGetsOn ==
    ASSUME IInv, NEW r \in Requests, Effect(r), pc[r] # "idle"
    PROVE  GetsOn(r)
<1>0. pc[r] \in Pcs
  BY DEF IInv, TypeOK
<1>1. ASSUME Begins(r)
      PROVE  GetsOn(r)
  BY <1>1 DEF Begins, Admits, Receives, Moves
<1>2. ASSUME GoesOn(r)
      PROVE  GetsOn(r)
  BY <1>2 DEF GoesOn, Moves, AfterGet, GetsOn, Stage
<1>3. ASSUME Surveys(r)
      PROVE  GetsOn(r)
  <2>1. CASE pc[r] = "scan"
    <3>1. \/ pc'[r] = "fetch"
          \/ pc'[r] = "scan" /\ Fewer(req'[r].unseen, req[r].unseen)
      BY <1>3, <2>1 DEF Surveys, Moves
    <3> QED
      BY <2>1, <3>1 DEF GetsOn, Stage, Loop
  <2>2. CASE pc[r] = "fetch"
    <3>1. \/ pc'[r] = "revoke"
          \/ pc'[r] = "fetch" /\ Fewer(req'[r].keys, req[r].keys)
      BY <1>3, <2>2 DEF Surveys, Moves
    <3> QED
      BY <2>2, <3>1 DEF GetsOn, Stage, Loop
  <2>3. CASE pc[r] = "revoke"
    <3>1. pc'[r] = "reply"
      BY <1>3, <2>3 DEF Surveys, Moves
    <3> QED
      BY <2>3, <3>1 DEF GetsOn, Stage
  <2> QED
    BY <1>3, <2>1, <2>2, <2>3 DEF Surveys, Moves
<1>4. ASSUME Answers(r) \/ GivesUp(r)
      PROVE  GetsOn(r)
  <2>1. pc'[r] = "idle"
    BY <1>4 DEF Answers, GivesUp, Moves
  <2>2. Stage(pc'[r]) = 0
    BY <2>1 DEF Stage
  <2> QED
    BY <1>0, <2>2, StageNat DEF GetsOn
<1>5. ASSUME NEW n, Writes(r, n)
      PROVE  GetsOn(r)
  BY <1>5 DEF Writes, Moves, AfterGet, GetsOn, Stage
<1>6. ASSUME NEW s, Deletes(r, s)
      PROVE  GetsOn(r)
  <2>1. \/ pc[r] = "purge" /\ pc'[r] = "idle"
        \/ pc[r] = "del" /\ pc'[r] = "reply"
        \/ /\ pc[r] = "revoke" /\ pc'[r] = "revoke"
           /\ s \in req[r].doomed /\ req'[r].doomed = req[r].doomed \ {s}
    BY <1>6 DEF Deletes, Moves
  <2> QED
    BY <2>1 DEF GetsOn, Stage, Loop, Fewer
<1> QED
  BY <1>1, <1>2, <1>3, <1>4, <1>5, <1>6, Zenon DEF Effect

\* No step of anybody sends a request under way back, or moves it in vain.
LEMMA NextGetsOn ==
    ASSUME IInv, [Next]_vars, NEW r \in Requests, pc[r] # "idle"
    PROVE  GetsOn(r) \/ (pc'[r] = pc[r] /\ req'[r] = req[r])
<1>1. CASE Rests
  BY <1>1 DEF Rests
<1>2. CASE Ages
  BY <1>2 DEF Ages
<1>3. ASSUME NEW x \in Requests, Effect(x)
      PROVE  GetsOn(r) \/ (pc'[r] = pc[r] /\ req'[r] = req[r])
  <2>1. CASE x = r
    BY <1>3, <2>1, EffectGetsOn
  <2>2. CASE x # r
    BY <1>3, <2>2, EffectMoves DEF Moves
  <2> QED
    BY <2>1, <2>2
<1> QED
  BY <1>1, <1>2, <1>3, Effects

\* Handlers have no way back: each step of a request either leaves its label
\* for one nearer to the answer, or takes something out of the set its loop
\* goes through, whatever other requests, time and faults do meanwhile.
THEOREM HandlersGetOn ==
    Spec => [][\A r \in Requests :
                 pc[r] # "idle" =>
                   GetsOn(r) \/ (pc'[r] = pc[r] /\ req'[r] = req[r])]_vars
<1>1. IInv /\ [Next]_vars =>
        [\A r \in Requests :
           pc[r] # "idle" =>
             GetsOn(r) \/ (pc'[r] = pc[r] /\ req'[r] = req[r])]_vars
  BY NextGetsOn
<1> QED
  BY <1>1, IInvAlways, PTL DEF Spec

\* The steps a request can still take, at most: a loop visits no more than
\* every session, and no loop is entered twice.
Work(r) ==
    Stage(pc[r]) * (Cardinality(Sessions) + 1) + Cardinality(Loop(r))

\* A loop goes through sessions.
LEMMA LoopSessions ==
    ASSUME IInv, NEW r \in Requests
    PROVE  Loop(r) \in SUBSET Sessions
<1>1. req[r] \in Request
  BY DEF IInv, TypeOK
<1>2. /\ req[r].unseen \subseteq Sessions /\ req[r].keys \subseteq Sessions
      /\ req[r].doomed \subseteq Sessions
  BY <1>1 DEF Request
<1> QED
  BY <1>2 DEF Loop

\* A later stage is worth more than any loop.
LEMMA StageOutweighs ==
    ASSUME NEW a \in 0..6, NEW b \in 0..6, NEW n \in Nat,
           NEW i \in 0..n, NEW j \in Nat, a < b
    PROVE  a * (n + 1) + i < b * (n + 1) + j
<1>1. PICK d \in Nat : b = a + 1 + d
  <2>1. b - a - 1 \in Nat /\ b = a + 1 + (b - a - 1)
    OBVIOUS
  <2> QED
    BY <2>1
<1>2. b * (n + 1) = a * (n + 1) + (n + 1) + d * (n + 1)
  BY <1>1
<1>3. d * (n + 1) \in Nat /\ a * (n + 1) \in Nat
  OBVIOUS
<1> QED
  BY <1>2, <1>3

\* With finitely many sessions that is a number, and every step of the request
\* makes it smaller: logout_all ends after finitely many steps of its own,
\* however many sessions other requests open and write back meanwhile.
THEOREM HandlersRunDown ==
    ASSUME IsFiniteSet(Sessions)
    PROVE  Spec => [][\A r \in Requests :
                        /\ Work(r) \in Nat
                        /\ pc[r] # "idle" =>
                             \/ Work(r)' < Work(r)
                             \/ pc'[r] = pc[r] /\ req'[r] = req[r]]_vars
<1> DEFINE N == Cardinality(Sessions)
<1>1. ASSUME IInv, NEW r \in Requests
      PROVE  /\ IsFiniteSet(Loop(r))
             /\ Cardinality(Loop(r)) \in 0..N
             /\ Stage(pc[r]) \in 0..6
  <2>1. Loop(r) \in SUBSET Sessions
    BY <1>1, LoopSessions
  <2>2. IsFiniteSet(Loop(r)) /\ Cardinality(Loop(r)) <= N
    BY <2>1, FS_Subset
  <2>3. Cardinality(Loop(r)) \in Nat /\ N \in Nat
    BY <2>2, FS_CardinalityType
  <2>4. Stage(pc[r]) \in 0..6
    BY <1>1, StageNat DEF IInv, TypeOK
  <2> QED
    BY <2>2, <2>3, <2>4
<1>2. N \in Nat
  BY FS_CardinalityType
<1>3. ASSUME IInv, IInv', NEW r \in Requests, GetsOn(r)
      PROVE  Work(r)' < Work(r)
  <2>1. /\ Cardinality(Loop(r)) \in 0..N /\ Stage(pc[r]) \in 0..6
        /\ IsFiniteSet(Loop(r))
    BY <1>1, <1>3
  <2>2. /\ Cardinality(Loop(r)') \in 0..N /\ Stage(pc'[r]) \in 0..6
    <3>0. /\ req'[r].unseen \subseteq Sessions
          /\ req'[r].keys \subseteq Sessions
          /\ req'[r].doomed \subseteq Sessions
      <4>1. req'[r] \in Request
        BY <1>3 DEF IInv, TypeOK
      <4> QED
        BY <4>1 DEF Request
    <3>1. Loop(r)' \in SUBSET Sessions
      BY <3>0 DEF Loop
    <3>2. IsFiniteSet(Loop(r)') /\ Cardinality(Loop(r)') <= N
      BY <3>1, FS_Subset
    <3>3. Cardinality(Loop(r)') \in Nat
      BY <3>2, FS_CardinalityType
    <3>4. Stage(pc'[r]) \in 0..6
      BY <1>3, StageNat DEF IInv, TypeOK
    <3> QED
      BY <1>2, <3>2, <3>3, <3>4
  <2>3. CASE Stage(pc'[r]) < Stage(pc[r])
    BY <1>2, <2>1, <2>2, <2>3, StageOutweighs DEF Work
  <2>4. CASE pc'[r] = pc[r] /\ Fewer(Loop(r)', Loop(r))
    <3>1. Loop(r)' \in SUBSET Loop(r) /\ Loop(r)' # Loop(r)
      BY <2>4 DEF Fewer
    <3>2. Cardinality(Loop(r)') < Cardinality(Loop(r))
      BY <2>1, <2>2, <3>1, FS_Subset
    <3>3. Stage(pc'[r]) * (N + 1) = Stage(pc[r]) * (N + 1)
          /\ Stage(pc[r]) * (N + 1) \in Int
      BY <1>2, <2>1, <2>4
    <3> QED
      BY <2>1, <2>2, <3>2, <3>3 DEF Work
  <2> QED
    BY <1>3, <2>3, <2>4 DEF GetsOn
<1>4. ASSUME IInv, IInv', [Next]_vars, NEW r \in Requests
      PROVE  /\ Work(r) \in Nat
             /\ pc[r] # "idle" =>
                  \/ Work(r)' < Work(r)
                  \/ pc'[r] = pc[r] /\ req'[r] = req[r]
  <2>1. Work(r) \in Nat
    <3>1. Cardinality(Loop(r)) \in 0..N /\ Stage(pc[r]) \in 0..6
      BY <1>1, <1>4
    <3> QED
      BY <1>2, <3>1 DEF Work
  <2> QED
    BY <1>3, <1>4, <2>1, NextGetsOn
<1>5. IInv /\ IInv' /\ [Next]_vars =>
        [\A r \in Requests :
           /\ Work(r) \in Nat
           /\ pc[r] # "idle" =>
                \/ Work(r)' < Work(r)
                \/ pc'[r] = pc[r] /\ req'[r] = req[r]]_vars
  BY <1>4
<1> QED
  BY <1>5, IInvAlways, PTL DEF Spec

\* A handler that scans has something left to scan.
ScansForMore == \A r \in Requests : pc[r] = "scan" => req[r].unseen # {}

\* A sweep starts with every session unseen, the caller's own among them.
LEMMA EffectScansForMore ==
    ASSUME NEW r \in Requests, Effect(r), pc'[r] = "scan"
    PROVE  req'[r].unseen # {}
<1>1. ASSUME NEW s \in Sessions, Admits(r, s)
      PROVE  FALSE
  BY <1>1 DEF Admits, Moves
<1>2. ASSUME NEW s \in Sessions, Receives(r, s)
      PROVE  req'[r].unseen # {}
  BY <1>2 DEF Receives, Moves
<1>3. ASSUME GoesOn(r)
      PROVE  FALSE
  BY <1>3 DEF GoesOn, Moves, AfterGet
<1>4. ASSUME Surveys(r)
      PROVE  req'[r].unseen # {}
  BY <1>4 DEF Surveys, Moves
<1>5. ASSUME Answers(r) \/ GivesUp(r)
      PROVE  FALSE
  BY <1>5 DEF Answers, GivesUp, Moves
<1>6. ASSUME NEW n, Writes(r, n)
      PROVE  FALSE
  BY <1>6 DEF Writes, Moves, AfterGet
<1>7. ASSUME NEW s, Deletes(r, s)
      PROVE  FALSE
  BY <1>7 DEF Deletes, Moves
<1> QED
  BY <1>1, <1>2, <1>3, <1>4, <1>5, <1>6, <1>7 DEF Effect, Begins

\* The SCAN loop of logout_all never stalls: its iterator ends in the step that
\* finds nothing more, so a request at "scan" has a batch to take.  Of every
\* other label the guards of Continue leave out no case: with HandlersRunDown,
\* what can keep a request from its answer is only that nobody executes it.
THEOREM SweepsNeverStall == Spec => []ScansForMore
<1>1. Init => ScansForMore
  BY DEF Init, ScansForMore
<1>2. IInv /\ ScansForMore /\ [Next]_vars => ScansForMore'
  <2> SUFFICES ASSUME IInv, ScansForMore, [Next]_vars,
                      NEW r \in Requests, pc'[r] = "scan"
               PROVE  req'[r].unseen # {}
    BY DEF ScansForMore
  <2>1. CASE Rests
    BY <2>1 DEF Rests, ScansForMore
  <2>2. CASE Ages
    BY <2>2 DEF Ages, ScansForMore
  <2>3. ASSUME NEW x \in Requests, Effect(x)
        PROVE  req'[r].unseen # {}
    <3>1. CASE x = r
      BY <2>3, <3>1, EffectScansForMore
    <3>2. CASE x # r
      <4>1. pc'[r] = pc[r] /\ req'[r] = req[r]
        BY <2>3, <3>2, EffectMoves DEF Moves
      <4> QED
        BY <4>1 DEF ScansForMore
    <3> QED
      BY <3>1, <3>2
  <2> QED
    BY <2>1, <2>2, <2>3, Effects
<1> QED
  BY <1>1, <1>2, IInvAlways, PTL DEF Spec
=============================================================================
