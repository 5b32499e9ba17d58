--------------------------- MODULE AccountsProofs ---------------------------
(***************************************************************************)
(* Proofs about Accounts, for every number of accounts, names, addresses,  *)
(* secrets and concurrent requests.                                        *)
(***************************************************************************)
EXTENDS Accounts, TLAPS

-----------------------------------------------------------------------------
(* The inductive invariant.                                                *)

\* The requests a handler can be at each label for.
OpAt(label) ==
    CASE label = "insert" -> {"register"}
      [] label = "check"  -> {"login", "verify"}
      [] label = "update" -> {"enroll"}
      [] OTHER            -> {"register", "login", "enroll", "verify"}

\* What request r has found out, and on whose behalf it runs.
InFlight(r) ==
    pc[r] # "idle" =>
      /\ req[r].op \in OpAt(pc[r])
      /\ req[r].op = "register" => req[r].name \in Names /\ req[r].email \in Emails
      /\ req[r].op \in {"enroll", "verify"} => req[r].account \in tokens
      /\ pc[r] \in {"check", "reply"} =>
           req[r].account \in Accounts /\ Exists(req[r].account)
      /\ req[r].op = "enroll" =>
           req[r].replaces \subseteq told[req[r].account] \union {None}

\* Request x has drawn a secret, and its client does not know it yet.
Enrolling(x) == pc[x] \in {"update", "reply"} /\ req[x].op = "enroll"

\* A secret that has been drawn and not written is nobody else's, and nobody
\* has been told of it.
Pending(r) ==
    /\ Enrolling(r) => req[r].secret \in drawn
    /\ pc[r] = "update" =>
         /\ \A a \in Accounts : /\ req[r].secret \notin told[a]
                                /\ users[a].secret # req[r].secret
         /\ \A x \in Requests \ {r} : Enrolling(x) => req[x].secret # req[r].secret

\* A secret that has been written took the place of what it was to replace,
\* and only in the row it was meant for.
Written(r) ==
    pc[r] = "reply" /\ req[r].op = "enroll" =>
      /\ users[req[r].account].secret \notin req[r].replaces
      /\ \A a \in Accounts : users[a].secret = req[r].secret => a = req[r].account

\* What passes the test on the row as it was found, the table would have
\* admitted when it was read.
Decides(r) ==
    /\ pc[r] = "check" /\ Proves(req[r].secret, req[r].code) => r \in admissible
    /\ pc[r] = "reply" /\ req[r].op \in {"login", "verify"} => r \in admissible

RowOK(a) ==
    /\ Exists(a) => users[a].name # None
    /\ ~Exists(a) => a \notin tokens /\ outdated[a] = {}
    /\ users[a].secret \in drawn \union {None}
    /\ told[a] \subseteq drawn
    /\ outdated[a] \subseteq told[a] \union {None}
    /\ users[a].secret \notin outdated[a]

\* The client of a row, and of its secret, is not left in the dark.
Accounted(a) ==
    /\ Exists(a) =>
         \/ a \in created \union lost
         \/ \E r \in Requests : /\ pc[r] = "reply" /\ req[r].op = "register"
                                /\ req[r].account = a
    /\ \/ users[a].secret \in {None} \union told[a] \union lost
       \/ \E r \in Requests : /\ pc[r] = "reply" /\ req[r].op = "enroll"
                              /\ req[r].account = a
                              /\ req[r].secret = users[a].secret

SecretsDiffer ==
    \A a, b \in Accounts :
        a # b /\ users[a].secret # None => users[a].secret # users[b].secret

IInv ==
    /\ TypeOK
    /\ NamesAreUnique
    /\ \A r \in Requests : InFlight(r) /\ Pending(r) /\ Written(r) /\ Decides(r)
    /\ \A a \in Accounts : RowOK(a) /\ Accounted(a)

-----------------------------------------------------------------------------
(* Type correctness, but for SecretsDiffer.                                *)

Types ==
    /\ users \in [Accounts -> Row]
    /\ drawn \in SUBSET Secrets
    /\ tokens \in SUBSET Accounts
    /\ pc \in [Requests -> {"idle", "lookup", "insert", "check", "update", "reply"}]
    /\ req \in [Requests -> Request]
    /\ created \in SUBSET Accounts
    /\ told \in [Accounts -> SUBSET Secrets]
    /\ outdated \in [Accounts -> SUBSET (Secrets \union {None})]
    /\ lost \in SUBSET (Accounts \union Secrets)
    /\ admissible \in SUBSET Requests

\* TypeOK is that no two accounts share a secret, and types.
LEMMA TypeParts == TypeOK <=> Types /\ SecretsDiffer
BY DEF TypeOK, Types, SecretsDiffer

\* The same of the next state.
LEMMA TypePartsNext == TypeOK' <=> Types' /\ SecretsDiffer'
BY DEF TypeOK, Types, SecretsDiffer

\* The locals of an idle slot are those of a request.
LEMMA NoRequestType == NoRequest \in Request
BY DEF NoRequest, Request, Ops

\* Everything is well typed when the proxy starts.
LEMMA InitTypes == Init => Types
BY NoRequestType DEF Init, Types, Row, NoRow

\* A handler that goes on with a request record leaves the locals well typed.
LEMMA ProceedType ==
    ASSUME Types, NEW r \in Requests, NEW q \in Request,
           NEW label \in {"idle", "lookup", "insert", "check", "update", "reply"},
           Proceed(r, q, label)
    PROVE  /\ pc' \in [Requests -> {"idle", "lookup", "insert", "check",
                                    "update", "reply"}]
           /\ req' \in [Requests -> Request]
BY DEF Types, Proceed

\* A handler that returns leaves the locals well typed.
LEMMA FinishType ==
    ASSUME Types, NEW r \in Requests, Finish(r)
    PROVE  /\ pc' \in [Requests -> {"idle", "lookup", "insert", "check",
                                    "update", "reply"}]
           /\ req' \in [Requests -> Request]
BY NoRequestType, ProceedType DEF Finish

\* Every step keeps everything well typed.
LEMMA NextTypes ==
    ASSUME IInv, [Next]_vars
    PROVE  Types'
<1>0. /\ Types /\ tokens \subseteq Accounts
      /\ \A r \in Requests : InFlight(r) /\ Pending(r)
  BY TypeParts DEF IInv, Types
<1> SUFFICES ASSUME Next
             PROVE  Types'
  BY <1>0 DEF vars, table, answers, Types
<1>1. admissible' \in SUBSET Requests
  BY DEF Next
<1> DEFINE LocalTypes ==
             /\ pc' \in [Requests -> {"idle", "lookup", "insert", "check",
                                      "update", "reply"}]
             /\ req' \in [Requests -> Request]
<1>2. ASSUME LocalTypes, UNCHANGED <<table, answers>>
      PROVE  Types'
  BY <1>0, <1>1, <1>2 DEF Types, table, answers
<1>3. ASSUME NEW r \in Requests, Start(r)
      PROVE  Types'
  <2>1. ASSUME NEW n \in Names, NEW e \in Emails, StartRegister(r, n, e)
        PROVE  LocalTypes /\ UNCHANGED <<table, answers>>
    <3>1. [NoRequest EXCEPT !.op = "register", !.name = n, !.email = e] \in Request
      BY NoRequestType DEF Request, Ops
    <3> QED
      BY <1>0, <2>1, <3>1, ProceedType DEF StartRegister
  <2>2. ASSUME NEW n \in Names, NEW c \in drawn \union {None}, StartLogin(r, n, c)
        PROVE  LocalTypes /\ UNCHANGED <<table, answers>>
    <3>1. [NoRequest EXCEPT !.op = "login", !.name = n, !.code = c] \in Request
      BY <1>0, NoRequestType DEF Request, Ops, Types
    <3> QED
      BY <1>0, <2>2, <3>1, ProceedType DEF StartLogin
  <2>3. ASSUME NEW a \in Accounts, StartEnroll(r, a)
        PROVE  LocalTypes /\ UNCHANGED <<table, answers>>
    <3>1. [NoRequest EXCEPT !.op = "enroll", !.account = a,
                            !.replaces = told[a] \union {None}] \in Request
      BY <1>0, NoRequestType DEF Request, Ops, Types
    <3> QED
      BY <1>0, <2>3, <3>1, ProceedType DEF StartEnroll
  <2>4. ASSUME NEW a \in Accounts, NEW c \in drawn, StartVerify(r, a, c)
        PROVE  LocalTypes /\ UNCHANGED <<table, answers>>
    <3>1. [NoRequest EXCEPT !.op = "verify", !.account = a, !.code = c] \in Request
      BY <1>0, NoRequestType DEF Request, Ops, Types
    <3> QED
      BY <1>0, <2>4, <3>1, ProceedType DEF StartVerify
  <2> QED
    BY <1>2, <1>3, <2>1, <2>2, <2>3, <2>4 DEF Start
<1>4. ASSUME NEW r \in Requests, Continue(r)
      PROVE  Types'
  <2>0. req[r] \in Request
    BY <1>0 DEF Types
  <2>a. ASSUME NEW label \in {"idle", "lookup", "insert", "check", "update", "reply"},
               Proceed(r, req[r], label)
        PROVE  LocalTypes
    BY <1>0, <2>0, <2>a, ProceedType
  <2>1. CASE LookupRegister(r)
    BY <1>0, <1>2, <2>a, <2>1, FinishType DEF LookupRegister
  <2>2. CASE Insert(r)
    <3>1. CASE Conflicts(r)
      BY <1>0, <1>2, <2>2, <3>1, FinishType DEF Insert, table
    <3>2. CASE ~Conflicts(r)
      <4>s. PICK a \in Accounts :
              /\ users' = [users EXCEPT ![a] =
                             [name |-> req[r].name, email |-> req[r].email,
                              secret |-> None, active |-> TRUE]]
              /\ Proceed(r, [req[r] EXCEPT !.account = a], "reply")
        BY <2>2, <3>2, Zenon DEF Insert
      <4>1. users' \in [Accounts -> Row]
        BY <1>0, <2>0, <4>s DEF Types, Row, Request
      <4>2. [req[r] EXCEPT !.account = a] \in Request
        BY <2>0 DEF Request
      <4>3. LocalTypes
        BY <1>0, <4>s, <4>2, ProceedType
      <4> QED
        BY <1>0, <1>1, <2>2, <4>1, <4>3 DEF Insert, Types, answers
    <3> QED
      BY <3>1, <3>2
  <2>3. CASE LookupLogin(r)
    <3>1. ASSUME NEW a \in Accounts,
                 Proceed(r, [req[r] EXCEPT !.account = a,
                                           !.secret = users[a].secret], "check")
          PROVE  LocalTypes
      <4>1. [req[r] EXCEPT !.account = a, !.secret = users[a].secret] \in Request
        BY <1>0, <2>0 DEF Request, Types, Row
      <4> QED
        BY <1>0, <3>1, <4>1, ProceedType
    <3>2. \/ Finish(r)
          \/ \E a \in Accounts :
               Proceed(r, [req[r] EXCEPT !.account = a,
                                         !.secret = users[a].secret], "check")
      BY <2>3, Zenon DEF LookupLogin
    <3>3. LocalTypes
      BY <1>0, <3>1, <3>2, FinishType, Zenon
    <3>4. UNCHANGED <<table, answers>>
      BY <2>3, Zenon DEF LookupLogin
    <3> QED
      BY <1>2, <3>3, <3>4
  <2>4. CASE CheckLogin(r)
    BY <1>0, <1>2, <2>a, <2>4, FinishType DEF CheckLogin
  <2>5. CASE LookupEnroll(r)
    <3>s. PICK s \in Fresh : /\ drawn' = drawn \union {s}
                             /\ Proceed(r, [req[r] EXCEPT !.secret = s], "update")
      BY <2>5, Zenon DEF LookupEnroll
    <3>1. [req[r] EXCEPT !.secret = s] \in Request
      BY <2>0 DEF Request, Fresh
    <3>2. drawn' \in SUBSET Secrets
      BY <1>0, <3>s DEF Fresh, Types
    <3>3. LocalTypes
      BY <1>0, <3>s, <3>1, ProceedType
    <3> QED
      BY <1>0, <1>1, <2>5, <3>2, <3>3 DEF LookupEnroll, Types, answers
  <2>6. CASE Update(r)
    <3> DEFINE a == req[r].account
               s == req[r].secret
    <3>1. users' \in [Accounts -> Row]
      <4>1. users' = [users EXCEPT ![a].secret = s]
        BY <2>6 DEF Update
      <4>2. s \in Secrets \union {None}
        BY <2>0 DEF Request
      <4> HIDE DEF a, s
      <4>3. ASSUME a \in Accounts
            PROVE  [users[a] EXCEPT !.secret = s] \in Row
        BY <1>0, <4>2, <4>3 DEF Types, Row
      <4> QED
        BY <1>0, <4>1, <4>3 DEF Types
    <3>2. LocalTypes
      BY <2>a, <2>6 DEF Update
    <3> QED
      BY <1>0, <1>1, <2>6, <3>1, <3>2 DEF Update, Types, answers
  <2>7. CASE LookupVerify(r)
    <3>1. CASE Finish(r)
      BY <1>0, <1>2, <2>7, <3>1, FinishType DEF LookupVerify
    <3>2. CASE Proceed(r, [req[r] EXCEPT !.secret = users[req[r].account].secret],
                       "check")
      <4>1. req[r].account \in Accounts
        BY <1>0, <2>7 DEF LookupVerify, InFlight
      <4>2. [req[r] EXCEPT !.secret = users[req[r].account].secret] \in Request
        BY <1>0, <2>0, <4>1 DEF Types, Row, Request
      <4>3. LocalTypes
        BY <1>0, <3>2, <4>2, ProceedType
      <4> QED
        BY <1>2, <2>7, <4>3 DEF LookupVerify
    <3> QED
      BY <2>7, <3>1, <3>2 DEF LookupVerify
  <2>8. CASE CheckVerify(r)
    BY <1>0, <1>2, <2>a, <2>8, FinishType DEF CheckVerify
  <2>9. CASE Reply(r)
    <3>1. req[r].account \in Accounts /\ req[r].op # "none"
      BY <1>0, <2>9 DEF Reply, InFlight, OpAt
    <3>2. tokens' \in SUBSET Accounts /\ created' \in SUBSET Accounts
      BY <1>0, <2>9, <3>1 DEF Reply, Types
    <3>3. /\ told' \in [Accounts -> SUBSET Secrets]
          /\ outdated' \in [Accounts -> SUBSET (Secrets \union {None})]
      <4>1. CASE req[r].op = "enroll"
        <5>1. req[r].secret \in Secrets /\ req[r].replaces \in SUBSET (Secrets \union {None})
          BY <1>0, <2>0, <2>9, <4>1 DEF Reply, Types, Request, Pending, Enrolling
        <5> QED
          BY <1>0, <2>9, <4>1, <5>1 DEF Reply, Types
      <4>2. CASE req[r].op # "enroll"
        BY <1>0, <2>9, <4>2 DEF Reply, Types
      <4> QED
        BY <4>1, <4>2
    <3>4. LocalTypes
      BY <1>0, <2>9, FinishType DEF Reply
    <3> QED
      BY <1>0, <1>1, <2>9, <3>2, <3>3, <3>4 DEF Reply, Types
  <2> QED
    BY <1>4, <2>1, <2>2, <2>3, <2>4, <2>5, <2>6, <2>7, <2>8, <2>9 DEF Continue
<1>5. ASSUME NEW r \in Requests, Abort(r)
      PROVE  Types'
  <2>1. Untold(r) \subseteq Accounts \union Secrets
    BY <1>0 DEF Untold, Types, Pending, Enrolling, InFlight
  <2>2. LocalTypes
    BY <1>0, <1>5, FinishType DEF Abort
  <2> QED
    BY <1>0, <1>1, <1>5, <2>1, <2>2 DEF Abort, Types, table
<1>6. ASSUME NEW a \in Accounts, NEW active \in BOOLEAN, SetActive(a, active)
      PROVE  Types'
  <2>1. users' \in [Accounts -> Row]
    <3>1. [users[a] EXCEPT !.active = active] \in Row
      BY <1>0, <1>6 DEF Types, Row
    <3>2. users' = [users EXCEPT ![a] = [users[a] EXCEPT !.active = active]]
      BY <1>6, Zenon DEF SetActive
    <3> QED
      BY <1>0, <3>1, <3>2 DEF Types
  <2> QED
    BY <1>0, <1>1, <1>6, <2>1 DEF SetActive, Types, answers
<1> QED
  BY <1>3, <1>4, <1>5, <1>6 DEF Next, Step

-----------------------------------------------------------------------------
(* What each step does, variable by variable.                              *)

\* Request r goes from one label to another, and no other request moves.
Moves(r, from, to) ==
    /\ pc[r] = from /\ pc'[r] = to
    /\ \A x \in Requests \ {r} : pc'[x] = pc[x] /\ req'[x] = req[x]

\* What the client asked for does not change on the way.
KeepsBody(r) ==
    /\ req'[r].op = req[r].op /\ req'[r].name = req[r].name
    /\ req'[r].email = req[r].email /\ req'[r].code = req[r].code
    /\ req'[r].replaces = req[r].replaces

Quiet == UNCHANGED <<users, drawn, tokens, created, told, outdated, lost>>

\* A request has been received.
Opens(r) ==
    /\ Moves(r, "idle", "lookup") /\ Quiet
    /\ req'[r].op \in {"register", "login", "enroll", "verify"}
    /\ req'[r].op = "register" => req'[r].name \in Names /\ req'[r].email \in Emails
    /\ req'[r].op \in {"enroll", "verify"} => req'[r].account \in tokens
    /\ req'[r].op = "enroll" =>
         req'[r].replaces = told[req'[r].account] \union {None}

\* Request r has read the table, or tested what it read.
Looks(r) ==
    /\ Quiet /\ KeepsBody(r)
    /\ \/ Moves(r, "lookup", "insert") /\ req[r].op = "register"
       \/ /\ Moves(r, "lookup", "check") /\ req[r].op = "login"
          /\ req'[r].account \in Accounts /\ MayLogIn(req'[r].account)
          /\ users[req'[r].account].name = req[r].name
          /\ req'[r].secret = users[req'[r].account].secret
       \/ /\ Moves(r, "lookup", "check") /\ req[r].op = "verify"
          /\ req'[r].account = req[r].account
          /\ req'[r].secret = users[req[r].account].secret
          /\ req'[r].secret # None
       \/ /\ Moves(r, "check", "reply") /\ req[r].op \in {"login", "verify"}
          /\ req'[r].account = req[r].account
          /\ Proves(req[r].secret, req[r].code)

\* Request r draws a secret.
Draws(r) ==
    /\ Moves(r, "lookup", "update") /\ req[r].op = "enroll" /\ KeepsBody(r)
    /\ req'[r].account = req[r].account
    /\ req'[r].secret \in Secrets \ drawn
    /\ drawn' = drawn \union {req'[r].secret}
    /\ UNCHANGED <<users, tokens, created, told, outdated, lost>>

\* Request r inserts row a.
Inserts(r, a) ==
    /\ Moves(r, "insert", "reply") /\ KeepsBody(r) /\ req'[r].account = a
    /\ ~Exists(a) /\ ~Conflicts(r)
    /\ users'[a].name = req[r].name /\ users'[a].email = req[r].email
    /\ users'[a].secret = None
    /\ \A b \in Accounts \ {a} : users'[b] = users[b]
    /\ UNCHANGED <<drawn, tokens, created, told, outdated, lost>>

\* Request r writes its secret.
Updates(r) ==
    /\ Moves(r, "update", "reply") /\ req'[r] = req[r]
    /\ \A a \in Accounts :
         /\ users'[a].name = users[a].name /\ users'[a].email = users[a].email
         /\ users'[a].secret = IF a = req[r].account THEN req[r].secret
                                                    ELSE users[a].secret
         /\ a # req[r].account => users'[a] = users[a]
    /\ UNCHANGED <<drawn, tokens, created, told, outdated, lost>>

\* Request r answers with a 200 or a 201.
Answers(r) ==
    /\ Moves(r, "reply", "idle")
    /\ tokens' = IF req[r].op = "login" THEN tokens \union {req[r].account}
                                        ELSE tokens
    /\ created' = IF req[r].op = "register" THEN created \union {req[r].account}
                                            ELSE created
    /\ \A a \in Accounts :
         IF req[r].op = "enroll" /\ a = req[r].account
         THEN /\ told'[a] = told[a] \union {req[r].secret}
              /\ outdated'[a] = outdated[a] \union req[r].replaces
         ELSE told'[a] = told[a] /\ outdated'[a] = outdated[a]
    /\ UNCHANGED <<users, drawn, lost>>

\* Request r is refused before it has written anything.
Refuses(r) == pc[r] # "reply" /\ Moves(r, pc[r], "idle") /\ Quiet

\* Request r ends in the middle.
Drops(r) ==
    /\ Moves(r, pc[r], "idle")
    /\ lost' = lost \union Untold(r)
    /\ UNCHANGED <<users, drawn, tokens, created, told, outdated>>

Effect(r) ==
    \/ Opens(r) \/ Looks(r) \/ Draws(r) \/ Updates(r) \/ Answers(r)
    \/ Refuses(r) \/ Drops(r)
    \/ \E a \in Accounts : Inserts(r, a)

\* Nothing but is_active changes.
Switches ==
    /\ \A a \in Accounts :
         /\ users'[a].name = users[a].name /\ users'[a].email = users[a].email
         /\ users'[a].secret = users[a].secret
         /\ users'[a] = users[a] \/ Exists(a)
    /\ UNCHANGED <<drawn, tokens, created, told, outdated, lost, pc, req>>

\* A request that proceeds moves alone, to the locals and the label given.
LEMMA ProceedMoves ==
    ASSUME TypeOK, NEW r \in Requests, NEW q, NEW label, Proceed(r, q, label)
    PROVE  Moves(r, pc[r], label) /\ req'[r] = q
BY DEF TypeOK, Proceed, Moves

\* The first step of a request.
LEMMA StartEffect ==
    ASSUME TypeOK, NEW r \in Requests, Start(r)
    PROVE  Opens(r)
<1> USE DEF table, answers, Quiet, Opens
<1>1. ASSUME NEW n \in Names, NEW e \in Emails, StartRegister(r, n, e)
      PROVE  Opens(r)
  <2> DEFINE q == [NoRequest EXCEPT !.op = "register", !.name = n, !.email = e]
  <2>1. Moves(r, "idle", "lookup") /\ req'[r] = q
    BY <1>1, ProceedMoves DEF StartRegister
  <2>2. q.op = "register" /\ q.name = n /\ q.email = e
    BY DEF NoRequest
  <2> HIDE DEF q
  <2> QED
    BY <1>1, <2>1, <2>2 DEF StartRegister
<1>2. ASSUME NEW n \in Names, NEW c, StartLogin(r, n, c)
      PROVE  Opens(r)
  <2> DEFINE q == [NoRequest EXCEPT !.op = "login", !.name = n, !.code = c]
  <2>1. Moves(r, "idle", "lookup") /\ req'[r] = q
    BY <1>2, ProceedMoves DEF StartLogin
  <2>2. q.op = "login"
    BY DEF NoRequest
  <2> HIDE DEF q
  <2> QED
    BY <1>2, <2>1, <2>2 DEF StartLogin
<1>3. ASSUME NEW a \in Accounts, StartEnroll(r, a)
      PROVE  Opens(r)
  <2> DEFINE q == [NoRequest EXCEPT !.op = "enroll", !.account = a,
                                    !.replaces = told[a] \union {None}]
  <2>1. Moves(r, "idle", "lookup") /\ req'[r] = q
    BY <1>3, ProceedMoves DEF StartEnroll
  <2>2. q.op = "enroll" /\ q.account = a /\ q.replaces = told[a] \union {None}
    BY DEF NoRequest
  <2> HIDE DEF q
  <2> QED
    BY <1>3, <2>1, <2>2 DEF StartEnroll
<1>4. ASSUME NEW a \in Accounts, NEW c, StartVerify(r, a, c)
      PROVE  Opens(r)
  <2> DEFINE q == [NoRequest EXCEPT !.op = "verify", !.account = a, !.code = c]
  <2>1. Moves(r, "idle", "lookup") /\ req'[r] = q
    BY <1>4, ProceedMoves DEF StartVerify
  <2>2. q.op = "verify" /\ q.account = a
    BY DEF NoRequest
  <2> HIDE DEF q
  <2> QED
    BY <1>4, <2>1, <2>2 DEF StartVerify
<1> QED
  BY <1>1, <1>2, <1>3, <1>4, Zenon DEF Start

\* Each later step of a request.
LEMMA ContinueEffect ==
    ASSUME IInv, NEW r \in Requests, Continue(r)
    PROVE  Effect(r)
<1>0. /\ TypeOK /\ req[r] \in Request
      /\ pc[r] # "idle" => req[r].op \in OpAt(pc[r])
  BY DEF IInv, TypeOK, InFlight
<1> USE DEF table, answers, Quiet, KeepsBody
<1>a. ASSUME pc[r] # "reply", Finish(r), UNCHANGED <<table, answers>>
      PROVE  Effect(r)
  BY <1>0, <1>a, ProceedMoves DEF Finish, Refuses, Effect
<1>1. CASE LookupRegister(r)
  <2>1. CASE Finish(r)
    BY <1>1, <1>a, <2>1 DEF LookupRegister
  <2>2. CASE Proceed(r, req[r], "insert")
    BY <1>0, <1>1, <2>2, ProceedMoves DEF LookupRegister, Looks, Effect
  <2> QED
    BY <1>1, <2>1, <2>2 DEF LookupRegister
<1>2. CASE Insert(r)
  <2>1. CASE Conflicts(r)
    BY <1>2, <1>a, <2>1 DEF Insert
  <2>2. CASE ~Conflicts(r)
    <3>s. PICK a \in Accounts :
            /\ ~Exists(a)
            /\ users' = [users EXCEPT ![a] =
                           [name |-> req[r].name, email |-> req[r].email,
                            secret |-> None, active |-> TRUE]]
            /\ Proceed(r, [req[r] EXCEPT !.account = a], "reply")
      BY <1>2, <2>2, Zenon DEF Insert
    <3> DEFINE q == [req[r] EXCEPT !.account = a]
    <3>1. /\ q.op = req[r].op /\ q.name = req[r].name /\ q.email = req[r].email
          /\ q.code = req[r].code /\ q.replaces = req[r].replaces /\ q.account = a
      BY <1>0 DEF Request
    <3>2. Moves(r, "insert", "reply") /\ req'[r] = q
      BY <1>0, <1>2, <3>s, ProceedMoves DEF Insert
    <3>3. /\ users'[a].name = req[r].name /\ users'[a].email = req[r].email
          /\ users'[a].secret = None
          /\ \A b \in Accounts \ {a} : users'[b] = users[b]
      BY <1>0, <3>s DEF TypeOK
    <3>4. ~Exists(a) /\ UNCHANGED <<drawn, tokens, answers>>
      BY <1>2, <3>s DEF Insert
    <3> HIDE DEF q
    <3>5. Inserts(r, a)
      BY <2>2, <3>1, <3>2, <3>3, <3>4 DEF Inserts
    <3> QED
      BY <3>5 DEF Effect
  <2> QED
    BY <2>1, <2>2
<1>3. CASE LookupLogin(r)
  <2>1. CASE Finish(r)
    BY <1>3, <1>a, <2>1 DEF LookupLogin
  <2>2. ASSUME NEW a \in Accounts, MayLogIn(a), users[a].name = req[r].name,
               Proceed(r, [req[r] EXCEPT !.account = a,
                                         !.secret = users[a].secret], "check")
        PROVE  Effect(r)
    <3> DEFINE q == [req[r] EXCEPT !.account = a, !.secret = users[a].secret]
    <3>1. /\ q.op = req[r].op /\ q.name = req[r].name /\ q.email = req[r].email
          /\ q.code = req[r].code /\ q.replaces = req[r].replaces /\ q.account = a
          /\ q.secret = users[a].secret
      BY <1>0 DEF Request
    <3>2. Moves(r, "lookup", "check") /\ req'[r] = q
      BY <1>0, <1>3, <2>2, ProceedMoves DEF LookupLogin
    <3> HIDE DEF q
    <3>3. req[r].op = "login" /\ UNCHANGED <<table, answers>>
      BY <1>3 DEF LookupLogin
    <3> QED
      BY <2>2, <3>1, <3>2, <3>3 DEF Looks, Effect
  <2> QED
    BY <1>3, <2>1, <2>2, Zenon DEF LookupLogin
<1>4. CASE CheckLogin(r)
  <2>1. CASE Finish(r)
    BY <1>4, <1>a, <2>1 DEF CheckLogin
  <2>2. CASE Proceed(r, req[r], "reply") /\ Proves(req[r].secret, req[r].code)
    BY <1>0, <1>4, <2>2, ProceedMoves DEF CheckLogin, Looks, Effect
  <2> QED
    BY <1>4, <2>1, <2>2 DEF CheckLogin
<1>5. CASE LookupEnroll(r)
  <2>s. PICK s \in Fresh : /\ drawn' = drawn \union {s}
                           /\ Proceed(r, [req[r] EXCEPT !.secret = s], "update")
    BY <1>5, Zenon DEF LookupEnroll
  <2> DEFINE q == [req[r] EXCEPT !.secret = s]
  <2>1. /\ q.op = req[r].op /\ q.name = req[r].name /\ q.email = req[r].email
        /\ q.code = req[r].code /\ q.replaces = req[r].replaces
        /\ q.account = req[r].account /\ q.secret = s
    BY <1>0 DEF Request
  <2>2. Moves(r, "lookup", "update") /\ req'[r] = q
    BY <1>0, <1>5, <2>s, ProceedMoves DEF LookupEnroll
  <2>3. /\ req[r].op = "enroll" /\ s \in Secrets \ drawn
        /\ drawn' = drawn \union {s} /\ UNCHANGED <<users, tokens, answers>>
    BY <1>5, <2>s DEF LookupEnroll, Fresh
  <2> HIDE DEF q
  <2> QED
    BY <2>1, <2>2, <2>3 DEF Draws, Effect
<1>6. CASE Update(r)
  <2>1. Moves(r, "update", "reply") /\ req'[r] = req[r]
    BY <1>0, <1>6, ProceedMoves DEF Update
  <2>2. users' = [users EXCEPT ![req[r].account].secret = req[r].secret]
    BY <1>6 DEF Update
  <2>3. ASSUME NEW a \in Accounts
        PROVE  /\ users'[a].name = users[a].name /\ users'[a].email = users[a].email
               /\ users'[a].secret = IF a = req[r].account THEN req[r].secret
                                                          ELSE users[a].secret
               /\ a # req[r].account => users'[a] = users[a]
    BY <1>0, <2>2 DEF TypeOK, Row
  <2>4. UNCHANGED <<drawn, tokens, answers>>
    BY <1>6 DEF Update
  <2> QED
    BY <2>1, <2>3, <2>4 DEF Updates, Effect
<1>7. CASE LookupVerify(r)
  <2>1. CASE Finish(r)
    BY <1>7, <1>a, <2>1 DEF LookupVerify
  <2> DEFINE s == users[req[r].account].secret
             q == [req[r] EXCEPT !.secret = s]
  <2>2. CASE Proceed(r, q, "check") /\ s # None
    <3>1. /\ q.op = req[r].op /\ q.name = req[r].name /\ q.email = req[r].email
          /\ q.code = req[r].code /\ q.replaces = req[r].replaces
          /\ q.account = req[r].account /\ q.secret = s
      BY <1>0 DEF Request
    <3>2. Moves(r, "lookup", "check") /\ req'[r] = q
      BY <1>0, <1>7, <2>2, ProceedMoves DEF LookupVerify
    <3>3. req[r].op = "verify" /\ UNCHANGED <<table, answers>>
      BY <1>7 DEF LookupVerify
    <3> HIDE DEF q
    <3> QED
      BY <2>2, <3>1, <3>2, <3>3 DEF Looks, Effect
  <2> QED
    BY <1>7, <2>1, <2>2 DEF LookupVerify
<1>8. CASE CheckVerify(r)
  <2>1. CASE Finish(r)
    BY <1>8, <1>a, <2>1 DEF CheckVerify
  <2>2. CASE Proceed(r, req[r], "reply") /\ Proves(req[r].secret, req[r].code)
    BY <1>0, <1>8, <2>2, ProceedMoves DEF CheckVerify, Looks, Effect
  <2> QED
    BY <1>8, <2>1, <2>2 DEF CheckVerify
<1>9. CASE Reply(r)
  <2>1. Moves(r, "reply", "idle")
    BY <1>0, <1>9, ProceedMoves DEF Reply, Finish
  <2>2. ASSUME NEW a \in Accounts
        PROVE  IF req[r].op = "enroll" /\ a = req[r].account
               THEN /\ told'[a] = told[a] \union {req[r].secret}
                    /\ outdated'[a] = outdated[a] \union req[r].replaces
               ELSE told'[a] = told[a] /\ outdated'[a] = outdated[a]
    BY <1>0, <1>9 DEF Reply, TypeOK
  <2> QED
    BY <1>9, <2>1, <2>2 DEF Reply, Answers, Effect
<1> QED
  BY <1>1, <1>2, <1>3, <1>4, <1>5, <1>6, <1>7, <1>8, <1>9 DEF Continue

\* Every step of the system is one of those above.
LEMMA Effects ==
    ASSUME IInv, [Next]_vars
    PROVE  Switches \/ \E r \in Requests : Effect(r)
<1>0. TypeOK
  BY DEF IInv
<1>1. ASSUME NEW r \in Requests, Start(r) \/ Continue(r)
      PROVE  Effect(r)
  BY <1>0, <1>1, StartEffect, ContinueEffect DEF Effect
<1>2. ASSUME NEW r \in Requests, Abort(r)
      PROVE  Effect(r)
  BY <1>0, <1>2, ProceedMoves DEF Abort, Finish, Drops, Effect, table
<1>3. ASSUME NEW a \in Accounts, NEW active \in BOOLEAN, SetActive(a, active)
      PROVE  Switches
  BY <1>0, <1>3 DEF SetActive, Switches, TypeOK, Row, answers
<1>4. CASE UNCHANGED vars
  BY <1>4 DEF vars, table, answers, Switches
<1> QED
  BY <1>1, <1>2, <1>3, <1>4 DEF Next, Step

-----------------------------------------------------------------------------
(* The invariant is inductive.                                             *)

\* It holds when the proxy starts.
LEMMA InitIInv == Init => IInv
<1> SUFFICES ASSUME Init
             PROVE  IInv
  OBVIOUS
<1>1. TypeOK /\ NamesAreUnique
  BY InitTypes, TypeParts DEF Init, SecretsDiffer, NamesAreUnique, Exists, NoRow
<1>2. \A r \in Requests : InFlight(r) /\ Pending(r) /\ Written(r) /\ Decides(r)
  BY DEF Init, InFlight, Pending, Enrolling, Written, Decides
<1>3. \A a \in Accounts : RowOK(a) /\ Accounted(a)
  BY Zenon DEF Init, RowOK, Accounted, Exists, NoRow
<1> QED
  BY <1>1, <1>2, <1>3, Zenon DEF IInv

\* Nothing that has been written, told or lost is taken back.
LEMMA Lasts ==
    ASSUME IInv, [Next]_vars
    PROVE  /\ tokens \subseteq tokens' /\ drawn \subseteq drawn'
           /\ created \subseteq created' /\ lost \subseteq lost'
           /\ \A a \in Accounts : told[a] \subseteq told'[a]
           /\ \A a \in Accounts : Exists(a) =>
                /\ Exists(a)'
                /\ users'[a].name = users[a].name /\ users'[a].email = users[a].email
<1>1. /\ \A a \in Accounts : Exists(a) => users[a].name # None
      /\ NoRow.name = None
  BY DEF IInv, RowOK, NoRow
<1>2. CASE Switches
  BY <1>1, <1>2 DEF Switches, Exists
<1>3. ASSUME NEW r \in Requests, Effect(r)
      PROVE  /\ tokens \subseteq tokens' /\ drawn \subseteq drawn'
             /\ created \subseteq created' /\ lost \subseteq lost'
             /\ \A a \in Accounts : told[a] \subseteq told'[a]
             /\ \A a \in Accounts : Exists(a) =>
                  /\ Exists(a)'
                  /\ users'[a].name = users[a].name
                  /\ users'[a].email = users[a].email
  <2>1. CASE Updates(r)
    BY <1>1, <2>1 DEF Updates, Exists
  <2>2. ASSUME NEW b \in Accounts, Inserts(r, b)
        PROVE  \A a \in Accounts : Exists(a) => users'[a] = users[a]
    BY <2>2 DEF Inserts
  <2>3. CASE users' = users \/ \E b \in Accounts : Inserts(r, b)
    <3>1. \A a \in Accounts : Exists(a) => users'[a] = users[a]
      BY <2>2, <2>3
    <3>2. /\ tokens \subseteq tokens' /\ drawn \subseteq drawn'
          /\ created \subseteq created' /\ lost \subseteq lost'
          /\ \A a \in Accounts : told[a] \subseteq told'[a]
      BY <1>3
         DEF Effect, Opens, Looks, Draws, Inserts, Updates, Answers, Refuses,
             Drops, Quiet
    <3> QED
      BY <3>1, <3>2 DEF Exists
  <2> QED
    BY <1>3, <2>1, <2>3
       DEF Effect, Opens, Looks, Draws, Answers, Refuses, Drops, Quiet
<1> QED
  BY <1>2, <1>3, Effects

\* Every step leaves a request where it is, or is a step of that request.
LEMMA MovesOrStays ==
    ASSUME IInv, [Next]_vars, NEW x \in Requests
    PROVE  Effect(x) \/ (pc'[x] = pc[x] /\ req'[x] = req[x])
BY Effects
   DEF Switches, Effect, Opens, Looks, Draws, Inserts, Updates, Answers,
       Refuses, Drops, Moves

\* A request that may write has its account, and the account has its row.
LEMMA EnrollerExists ==
    ASSUME IInv, NEW r \in Requests, pc[r] # "idle",
           req[r].op \in {"enroll", "verify"}
    PROVE  req[r].account \in Accounts /\ Exists(req[r].account)
BY DEF IInv, InFlight, TypeOK, RowOK

\* An UPDATE is an enrolment's, of a secret that is nowhere yet.
LEMMA UpdateWrites ==
    ASSUME IInv, NEW r \in Requests, Updates(r)
    PROVE  /\ req[r].op = "enroll" /\ Enrolling(r)
           /\ req[r].account \in Accounts /\ Exists(req[r].account)
           /\ req[r].secret \in drawn /\ req[r].secret # None
           /\ \A a \in Accounts : /\ req[r].secret \notin told[a]
                                  /\ users[a].secret # req[r].secret
           /\ \A x \in Requests \ {r} : Enrolling(x) => req[x].secret # req[r].secret
<1>1. pc[r] = "update" /\ req[r].op = "enroll" /\ Enrolling(r)
  BY DEF Updates, Moves, IInv, InFlight, OpAt, Enrolling
<1>2. req[r].secret \in drawn /\ req[r].secret # None
  BY <1>1, NoneAssumption DEF IInv, Pending, TypeOK
<1> QED
  BY <1>1, <1>2, EnrollerExists DEF IInv, Pending

\* generate_secret never gives two accounts the same secret.
LEMMA NextSecrets ==
    ASSUME IInv, [Next]_vars
    PROVE  SecretsDiffer'
<1>1. SecretsDiffer
  BY TypeParts DEF IInv
<1>2. CASE \A a \in Accounts : users'[a].secret = users[a].secret
  BY <1>1, <1>2 DEF SecretsDiffer
<1>3. ASSUME NEW r \in Requests, NEW a \in Accounts, Inserts(r, a)
      PROVE  SecretsDiffer'
  BY <1>1, <1>3 DEF SecretsDiffer, Inserts
<1>4. ASSUME NEW r \in Requests, Updates(r)
      PROVE  SecretsDiffer'
  <2>1. \A a \in Accounts : users[a].secret # req[r].secret
    BY <1>4, UpdateWrites
  <2>2. \A a \in Accounts :
          users'[a].secret = IF a = req[r].account THEN req[r].secret
                                                   ELSE users[a].secret
    BY <1>4 DEF Updates
  <2> QED
    BY <1>1, <2>1, <2>2 DEF SecretsDiffer
<1> QED
  BY <1>2, <1>3, <1>4, Effects
     DEF Switches, Effect, Opens, Looks, Draws, Answers, Refuses, Drops, Quiet

\* The INSERT is refused when another one got there first.
LEMMA NextNames ==
    ASSUME IInv, [Next]_vars
    PROVE  NamesAreUnique'
<1>1. NamesAreUnique
  BY DEF IInv
<1>2. CASE \A a \in Accounts : Exists(a)' => Exists(a)
  BY <1>1, <1>2, Lasts DEF NamesAreUnique
<1>3. ASSUME NEW r \in Requests, NEW a \in Accounts, Inserts(r, a)
      PROVE  NamesAreUnique'
  <2>1. \A b \in Accounts \ {a} : Exists(b)' =>
          /\ Exists(b) /\ users'[b] = users[b]
          /\ users[b].name # req[r].name /\ users[b].email # req[r].email
    BY <1>3 DEF Inserts, Exists, Conflicts
  <2>2. users'[a].name = req[r].name /\ users'[a].email = req[r].email
    BY <1>3 DEF Inserts
  <2> QED
    BY <1>1, <2>1, <2>2 DEF NamesAreUnique
<1>4. ASSUME NEW r \in Requests, Updates(r), NEW a \in Accounts, Exists(a)'
      PROVE  Exists(a)
  BY <1>4, UpdateWrites DEF Updates, Exists
<1>5. ASSUME Switches, NEW a \in Accounts, Exists(a)'
      PROVE  Exists(a)
  BY <1>5 DEF Switches, Exists
<1>6. CASE users' = users
  BY <1>2, <1>6 DEF Exists
<1> QED
  BY <1>2, <1>3, <1>4, <1>5, <1>6, Effects
     DEF Effect, Opens, Looks, Draws, Answers, Refuses, Drops, Quiet

\* Requests keep what they have found out.
LEMMA NextInFlight ==
    ASSUME IInv, [Next]_vars, NEW x \in Requests
    PROVE  InFlight(x)'
<1> SUFFICES ASSUME pc'[x] # "idle"
             PROVE  InFlight(x)'
  BY DEF InFlight
<1>0. InFlight(x) /\ tokens \subseteq Accounts
  BY DEF IInv, TypeOK
<1>1. CASE pc'[x] = pc[x] /\ req'[x] = req[x]
  <2>1. req[x].op = "enroll" => req[x].account \in Accounts
    BY <1>0, <1>1 DEF InFlight
  <2> QED
    BY <1>0, <1>1, <2>1, Lasts DEF InFlight, Exists
<1>2. CASE Opens(x)
  BY <1>2 DEF Opens, Quiet, Moves, InFlight, OpAt
<1>3. CASE Looks(x)
  <2>1. pc[x] # "idle" /\ (req[x].op = "verify" => /\ req[x].account \in Accounts
                                                   /\ Exists(req[x].account))
    BY <1>3, EnrollerExists DEF Looks, Moves
  <2>2. /\ users' = users /\ tokens' = tokens
        /\ req'[x].op = req[x].op /\ req'[x].name = req[x].name
        /\ req'[x].email = req[x].email
        /\ req[x].op = "verify" => req'[x].account = req[x].account
        /\ req[x].op # "enroll"
    BY <1>0, <1>3, <2>1 DEF Looks, Moves, KeepsBody, Quiet, InFlight, OpAt
  <2>3. req'[x].op \in OpAt(pc'[x])
    BY <1>3, <2>2 DEF Looks, Moves, OpAt
  <2>4. pc'[x] \in {"check", "reply"} => /\ req'[x].account \in Accounts
                                         /\ Exists(req'[x].account)
    BY <1>0, <1>3, <2>1 DEF Looks, Moves, InFlight, MayLogIn
  <2> QED
    BY <1>0, <2>1, <2>2, <2>3, <2>4 DEF InFlight, Exists
<1>4. CASE Draws(x)
  BY <1>0, <1>4 DEF Draws, Moves, KeepsBody, InFlight, OpAt
<1>5. ASSUME NEW a \in Accounts, Inserts(x, a)
      PROVE  InFlight(x)'
  <2>1. pc[x] = "insert" /\ pc'[x] = "reply" /\ req[x].op = "register"
    BY <1>0, <1>5 DEF Inserts, Moves, InFlight, OpAt
  <2>2. users'[a].name \in Names
    BY <1>0, <1>5, <2>1 DEF Inserts, InFlight
  <2>3. users'[a] # NoRow
    BY <2>2, NoneAssumption DEF NoRow
  <2>4. /\ req'[x].op = "register" /\ req'[x].name = req[x].name
        /\ req'[x].email = req[x].email /\ req'[x].account = a
    BY <1>5, <2>1 DEF Inserts, KeepsBody
  <2> QED
    BY <1>0, <2>1, <2>3, <2>4 DEF InFlight, OpAt, Exists
<1>6. CASE Updates(x)
  <2>1. req[x].account \in Accounts /\ Exists(req[x].account) /\ req[x].op = "enroll"
    BY <1>6, UpdateWrites
  <2> QED
    BY <1>0, <1>6, <2>1, Lasts DEF Updates, Moves, InFlight, OpAt, Exists
<1> QED
  BY <1>1, <1>2, <1>3, <1>4, <1>5, <1>6, MovesOrStays
     DEF Effect, Answers, Refuses, Drops, Moves

\* A secret that has been drawn stays nobody else's until it is written.
LEMMA NextPending ==
    ASSUME IInv, Types', [Next]_vars, NEW x \in Requests
    PROVE  Pending(x)'
<1>0. Pending(x) /\ InFlight(x) /\ drawn \subseteq Secrets
  BY DEF IInv, TypeOK
<1>1. ASSUME Enrolling(x)'
      PROVE  req'[x].secret \in drawn'
  <2>1. CASE Enrolling(x) /\ req'[x] = req[x]
    BY <1>0, <2>1, Lasts DEF Pending
  <2>2. CASE Draws(x)
    BY <2>2 DEF Draws
  <2>3. CASE Updates(x)
    BY <2>1, <2>3, UpdateWrites DEF Updates
  <2>4. ASSUME NEW a \in Accounts, Inserts(x, a)
        PROVE  FALSE
    BY <1>0, <1>1, <2>4
       DEF Inserts, Moves, KeepsBody, InFlight, OpAt, Enrolling
  <2> QED
    BY <1>1, <2>1, <2>2, <2>3, <2>4, MovesOrStays
       DEF Effect, Opens, Looks, Answers, Refuses, Drops, Moves, KeepsBody,
           Enrolling
<1>2. CASE pc'[x] # "update"
  BY <1>1, <1>2 DEF Pending
<1>3. CASE Draws(x)
  <2>1. req'[x].secret \notin drawn /\ req'[x].secret # None
    BY <1>3, NoneAssumption DEF Draws
  <2>2. \A a \in Accounts : users'[a].secret = users[a].secret /\ told'[a] = told[a]
    BY <1>3 DEF Draws
  <2>3. \A y \in Requests \ {x} : Enrolling(y)' =>
          Enrolling(y) /\ req'[y].secret = req[y].secret
    BY <1>3 DEF Draws, Moves, Enrolling
  <2>4. \A y \in Requests : Enrolling(y) => req[y].secret \in drawn
    BY DEF IInv, Pending
  <2>5. \A a \in Accounts :
          users[a].secret \in drawn \union {None} /\ told[a] \subseteq drawn
    BY DEF IInv, RowOK
  <2> QED
    BY <1>1, <2>1, <2>2, <2>3, <2>4, <2>5 DEF Pending
<1>4. CASE pc[x] = "update" /\ pc'[x] = pc[x] /\ req'[x] = req[x]
  <2> DEFINE s == req[x].secret
  <2>1. /\ s \in drawn /\ s # None
        /\ \A a \in Accounts : s \notin told[a] /\ users[a].secret # s
        /\ \A y \in Requests \ {x} : Enrolling(y) => req[y].secret # s
    BY <1>0, <1>4, NoneAssumption DEF Pending, Enrolling, InFlight, OpAt
  <2> HIDE DEF s
  <2>2. ASSUME NEW r \in Requests, r # x, Effect(r)
        PROVE  /\ \A a \in Accounts : s \notin told'[a] /\ users'[a].secret # s
               /\ \A y \in Requests \ {x} : Enrolling(y)' => req'[y].secret # s
    <3>0. \A y \in Requests \ {x, r} : Enrolling(y)' =>
            Enrolling(y) /\ req'[y].secret = req[y].secret
      BY <2>2
         DEF Effect, Opens, Looks, Draws, Inserts, Updates, Answers, Refuses,
             Drops, Moves, Enrolling
    <3>1. CASE users' = users /\ told' = told /\ ~(Enrolling(r)')
      BY <2>1, <3>0, <3>1
    <3>2. CASE Draws(r)
      BY <2>1, <3>0, <3>2 DEF Draws
    <3>3. CASE Updates(r)
      BY <2>1, <2>2, <3>0, <3>3, UpdateWrites DEF Updates, Moves, Enrolling
    <3>4. ASSUME NEW a \in Accounts, Inserts(r, a)
          PROVE  /\ \A b \in Accounts : users'[b].secret # s
                 /\ told' = told /\ ~(Enrolling(r)')
      BY <2>1, <3>4
         DEF Inserts, Moves, KeepsBody, IInv, InFlight, OpAt, Enrolling
    <3>5. CASE Answers(r)
      <4>1. req[r].op = "enroll" => Enrolling(r)
        BY <3>5 DEF Answers, Moves, Enrolling
      <4>2. \A a \in Accounts :
              told'[a] = told[a] \/ (Enrolling(r) /\ told'[a] = told[a] \union {req[r].secret})
        BY <3>5, <4>1 DEF Answers
      <4>3. users' = users /\ ~(Enrolling(r)')
        BY <3>5 DEF Answers, Moves, Enrolling
      <4> QED
        BY <2>1, <2>2, <3>0, <4>2, <4>3
    <3>6. CASE Opens(r) \/ Looks(r) \/ Refuses(r) \/ Drops(r)
      BY <3>1, <3>6
         DEF Opens, Looks, Refuses, Drops, Moves, KeepsBody, Quiet, Enrolling
    <3>7. CASE \E a \in Accounts : Inserts(r, a)
      <4>1. /\ \A b \in Accounts : users'[b].secret # s
            /\ told' = told /\ ~(Enrolling(r)')
        BY <3>4, <3>7
      <4>2. \A b \in Accounts : s \notin told'[b]
        BY <2>1, <4>1
      <4>3. \A y \in Requests \ {x} : Enrolling(y)' => req'[y].secret # s
        BY <2>1, <3>0, <4>1
      <4> QED
        BY <4>1, <4>2, <4>3
    <3> QED
      BY <2>2, <3>2, <3>3, <3>5, <3>6, <3>7 DEF Effect
  <2>3. ASSUME Switches
        PROVE  /\ \A a \in Accounts : s \notin told'[a] /\ users'[a].secret # s
               /\ \A y \in Requests \ {x} : Enrolling(y)' => req'[y].secret # s
    BY <2>1, <2>3 DEF Switches, Enrolling
  <2>4. ~Effect(x)
    BY <1>4
       DEF Effect, Opens, Looks, Draws, Inserts, Updates, Answers, Refuses,
           Drops, Moves
  <2>5. /\ \A a \in Accounts : s \notin told'[a] /\ users'[a].secret # s
        /\ \A y \in Requests \ {x} : Enrolling(y)' => req'[y].secret # s
    BY <2>2, <2>3, <2>4, Effects
  <2> QED
    BY <1>1, <1>4, <2>5 DEF Pending, s
<1> QED
  BY <1>2, <1>3, <1>4, MovesOrStays
     DEF Effect, Opens, Looks, Inserts, Updates, Answers, Refuses, Drops, Moves

\* What an enrolment has written was told to nobody before, and is in one row.
LEMMA NextWritten ==
    ASSUME IInv, [Next]_vars, NEW x \in Requests
    PROVE  Written(x)'
<1> SUFFICES ASSUME pc'[x] = "reply", req'[x].op = "enroll"
             PROVE  /\ users'[req'[x].account].secret \notin req'[x].replaces
                    /\ \A a \in Accounts : users'[a].secret = req'[x].secret =>
                                             a = req'[x].account
  BY DEF Written
<1>1. CASE Updates(x)
  <2>1. /\ req[x].account \in Accounts /\ req[x].secret # None
        /\ \A a \in Accounts : /\ req[x].secret \notin told[a]
                               /\ users[a].secret # req[x].secret
    BY <1>1, UpdateWrites
  <2>2. req[x].replaces \subseteq told[req[x].account] \union {None}
    BY <1>1, UpdateWrites DEF Updates, Moves, IInv, InFlight
  <2>3. req'[x] = req[x] /\ \A a \in Accounts :
          users'[a].secret = IF a = req[x].account THEN req[x].secret
                                                   ELSE users[a].secret
    BY <1>1 DEF Updates
  <2> QED
    BY <2>1, <2>2, <2>3
<1>2. CASE pc'[x] = pc[x] /\ req'[x] = req[x]
  <2> DEFINE a == req[x].account
             s == req[x].secret
             p == req[x].replaces
  <2>1. /\ a \in Accounts /\ Exists(a) /\ Enrolling(x) /\ s \in drawn /\ s # None
        /\ p \subseteq told[a] \union {None}
        /\ users[a].secret \notin p
        /\ \A b \in Accounts : users[b].secret = s => b = a
    BY <1>2, NoneAssumption
       DEF IInv, TypeOK, InFlight, Written, Pending, Enrolling
  <2> HIDE DEF a, s, p
  <2>2. ASSUME Switches \/ users' = users
        PROVE  \A b \in Accounts : users'[b].secret = users[b].secret
    BY <2>2 DEF Switches
  <2>3. CASE \A b \in Accounts : users'[b].secret = users[b].secret
    BY <1>2, <2>1, <2>3 DEF a, s, p
  <2>4. ASSUME NEW r \in Requests, Updates(r)
        PROVE  /\ users'[a].secret \notin p
               /\ \A b \in Accounts : users'[b].secret = s => b = a
    <3>1. r # x
      BY <1>2, <2>4 DEF Updates, Moves
    <3>2. /\ req[r].secret # s /\ req[r].secret \notin told[a]
          /\ req[r].secret # None
      BY <2>1, <2>4, <3>1, UpdateWrites DEF s
    <3>3. \A b \in Accounts :
            users'[b].secret \in {users[b].secret, req[r].secret}
      BY <2>4 DEF Updates
    <3> QED
      BY <2>1, <3>2, <3>3
  <2>5. ASSUME NEW r \in Requests, NEW c \in Accounts, Inserts(r, c)
        PROVE  /\ users'[a].secret \notin p
               /\ \A b \in Accounts : users'[b].secret = s => b = a
    <3>1. c # a
      BY <2>1, <2>5 DEF Inserts
    <3> QED
      BY <2>1, <2>5, <3>1 DEF Inserts
  <2>6. CASE \E r \in Requests : Updates(r) \/ \E c \in Accounts : Inserts(r, c)
    BY <1>2, <2>4, <2>5, <2>6 DEF a, s, p
  <2> QED
    BY <2>2, <2>3, <2>6, Effects
       DEF Effect, Opens, Looks, Draws, Answers, Refuses, Drops, Quiet
<1>3. ASSUME NEW a \in Accounts, Inserts(x, a)
      PROVE  FALSE
  BY <1>3 DEF Inserts, Moves, KeepsBody, IInv, InFlight, OpAt
<1> QED
  BY <1>1, <1>2, <1>3, MovesOrStays
     DEF Effect, Opens, Looks, Draws, Answers, Refuses, Drops, Moves, KeepsBody

\* What a handler decides on was the table's opinion when it was read.
LEMMA NextDecides ==
    ASSUME IInv, [Next]_vars, NEW x \in Requests
    PROVE  Decides(x)'
<1>0. Decides(x) /\ InFlight(x)
  BY DEF IInv
<1>1. x \in admissible /\ pc'[x] # "idle" => x \in admissible'
  BY DEF Next, vars
<1>2. CASE pc'[x] = pc[x] /\ req'[x] = req[x]
  BY <1>0, <1>1, <1>2 DEF Decides
<1>3. ASSUME Looks(x), pc'[x] = "check", Proves(req'[x].secret, req'[x].code)
      PROVE  x \in admissible'
  <2>0. Next
    BY <1>3 DEF vars, Looks, Moves
  <2>1. /\ users' = users /\ req'[x].op = req[x].op /\ req'[x].name = req[x].name
        /\ req'[x].secret # None => req'[x].code = req'[x].secret
    BY <1>3 DEF Looks, Quiet, KeepsBody, Proves
  <2>2. CASE req[x].op = "login"
    <3>1. PICK b \in Accounts :
            /\ Exists(b) /\ users[b].active
            /\ users[b].name = req[x].name /\ req'[x].secret = users[b].secret
      BY <1>3, <2>2 DEF Looks, Moves, MayLogIn
    <3>2. /\ Exists(b)' /\ users'[b].active
          /\ users'[b].name = req'[x].name
          /\ users'[b].secret \in {None, req'[x].code}
      BY <2>1, <3>1 DEF Exists
    <3>3. Admits(x)'
      BY <2>1, <2>2, <3>2 DEF Admits
    <3> QED
      BY <1>3, <2>0, <3>3 DEF Next
  <2>3. CASE req[x].op = "verify"
    <3>1. /\ req'[x].secret = users[req'[x].account].secret
          /\ req'[x].secret # None
      BY <1>3, <2>3 DEF Looks, Moves
    <3>2. Admits(x)'
      BY <2>1, <2>3, <3>1 DEF Admits
    <3> QED
      BY <1>3, <2>0, <3>2 DEF Next
  <2> QED
    BY <1>3, <2>2, <2>3 DEF Looks, Moves
<1>4. CASE Looks(x)
  BY <1>0, <1>1, <1>3, <1>4 DEF Looks, Moves, Decides
<1>5. ASSUME NEW a \in Accounts, Inserts(x, a)
      PROVE  pc'[x] = "reply" /\ req'[x].op = "register"
  BY <1>0, <1>5 DEF Inserts, Moves, KeepsBody, InFlight, OpAt
<1>6. ASSUME Updates(x)
      PROVE  pc'[x] = "reply" /\ req'[x].op = "enroll"
  BY <1>6, UpdateWrites DEF Updates, Moves
<1>7. CASE pc'[x] \notin {"check", "reply"}
           \/ (pc'[x] = "reply" /\ req'[x].op \in {"register", "enroll"})
  BY <1>7 DEF Decides
<1> QED
  BY <1>2, <1>4, <1>5, <1>6, <1>7, MovesOrStays
     DEF Effect, Opens, Draws, Answers, Refuses, Drops, Moves

\* What is in a row, and what has been told about it, agree.
LEMMA NextRows ==
    ASSUME IInv, [Next]_vars, NEW a \in Accounts
    PROVE  RowOK(a)'
<1>0. RowOK(a) /\ drawn \subseteq drawn' /\ (Exists(a) => Exists(a)')
  BY Lasts DEF IInv
<1>1. ASSUME users'[a] = users[a] \/ Exists(a), users'[a].name = users[a].name,
             users'[a].secret = users[a].secret,
             a \in tokens' => a \in tokens,
             told'[a] = told[a], outdated'[a] = outdated[a]
      PROVE  RowOK(a)'
  BY <1>0, <1>1 DEF RowOK, Exists
<1>2. ASSUME NEW r \in Requests, Effect(r)
      PROVE  RowOK(a)'
  <2>1. CASE Opens(r) \/ Looks(r) \/ Draws(r) \/ Refuses(r) \/ Drops(r)
    BY <1>1, <2>1 DEF Opens, Looks, Draws, Refuses, Drops, Quiet
  <2>2. ASSUME NEW b \in Accounts, Inserts(r, b)
        PROVE  RowOK(a)'
    <3>1. CASE a # b
      BY <1>1, <2>2, <3>1 DEF Inserts
    <3>2. CASE a = b
      <4>1. req[r].name \in Names
        BY <2>2 DEF Inserts, Moves, IInv, InFlight, OpAt
      <4>2. users'[a].name # None /\ users'[a] # NoRow
        BY <2>2, <3>2, <4>1, NoneAssumption DEF Inserts, NoRow
      <4>3. ~Exists(a) /\ users'[a].secret = None
        BY <2>2, <3>2 DEF Inserts
      <4> QED
        BY <1>0, <2>2, <4>2, <4>3 DEF Inserts, RowOK, Exists
    <3> QED
      BY <3>1, <3>2
  <2>3. CASE Updates(r)
    <3>1. CASE a # req[r].account
      BY <1>1, <2>3, <3>1 DEF Updates
    <3>2. CASE a = req[r].account
      <4>1. /\ Exists(a) /\ req[r].secret \in drawn /\ req[r].secret # None
            /\ req[r].secret \notin told[a]
        BY <2>3, <3>2, UpdateWrites
      <4>2. /\ users'[a].name = users[a].name /\ users'[a].secret = req[r].secret
            /\ UNCHANGED <<drawn, tokens, told, outdated>>
        BY <2>3, <3>2 DEF Updates
      <4> QED
        BY <1>0, <4>1, <4>2 DEF RowOK
    <3> QED
      BY <3>1, <3>2
  <2>4. CASE Answers(r)
    <3>1. /\ users' = users /\ drawn' = drawn
          /\ pc[r] = "reply"
          /\ req[r].account \in Accounts /\ Exists(req[r].account)
      BY <2>4 DEF Answers, Moves, IInv, InFlight
    <3>2. CASE req[r].op = "enroll" /\ a = req[r].account
      <4>1. req[r].secret \in drawn /\ users[a].secret \notin req[r].replaces
        BY <3>1, <3>2 DEF IInv, Pending, Enrolling, Written
      <4>2. req[r].replaces \subseteq told[a] \union {None}
        BY <3>1, <3>2 DEF IInv, InFlight
      <4>3. /\ told'[a] = told[a] \union {req[r].secret}
            /\ outdated'[a] = outdated[a] \union req[r].replaces
            /\ Exists(a)'
        BY <2>4, <3>1, <3>2 DEF Answers, Exists
      <4> QED
        BY <1>0, <3>1, <3>2, <4>1, <4>2, <4>3 DEF RowOK
    <3>3. CASE ~(req[r].op = "enroll" /\ a = req[r].account)
      <4>1. told'[a] = told[a] /\ outdated'[a] = outdated[a]
        BY <2>4, <3>3 DEF Answers
      <4>2. a \in tokens' => a \in tokens \/ Exists(a)
        BY <2>4, <3>1 DEF Answers
      <4> QED
        BY <1>0, <3>1, <4>1, <4>2 DEF RowOK, Exists
    <3> QED
      BY <3>2, <3>3
  <2> QED
    BY <1>2, <2>1, <2>2, <2>3, <2>4 DEF Effect
<1>3. CASE Switches
  BY <1>1, <1>3 DEF Switches
<1> QED
  BY <1>2, <1>3, Effects

\* Whoever has a row or a secret is told, or the answer is lost.
LEMMA NextAccounted ==
    ASSUME IInv, [Next]_vars, NEW a \in Accounts
    PROVE  Accounted(a)'
<1>0. Accounted(a)
  BY DEF IInv
<1>1. ASSUME NEW y \in Requests, pc[y] = "reply", Effect(y),
             req[y].op \in {"register", "enroll"}
      PROVE  Answers(y) \/ Drops(y)
  BY <1>1
     DEF Effect, Opens, Looks, Draws, Inserts, Updates, Refuses, Moves
<1>2. ASSUME Exists(a)'
      PROVE  \/ a \in created' \union lost'
             \/ \E r \in Requests : /\ pc'[r] = "reply" /\ req'[r].op = "register"
                                    /\ req'[r].account = a
  <2>1. CASE Exists(a)
    <3>1. CASE a \in created \union lost
      BY <3>1, Lasts
    <3>2. ASSUME NEW y \in Requests, pc[y] = "reply", req[y].op = "register",
                 req[y].account = a
          PROVE  \/ a \in created' \union lost'
                 \/ /\ pc'[y] = "reply" /\ req'[y].op = "register"
                    /\ req'[y].account = a
      <4>1. CASE Answers(y)
        BY <3>2, <4>1 DEF Answers
      <4>2. CASE Drops(y)
        BY <3>2, <4>2 DEF Drops, Untold
      <4> QED
        BY <1>1, <3>2, <4>1, <4>2, MovesOrStays
    <3> QED
      BY <1>0, <2>1, <3>1, <3>2 DEF Accounted
  <2>2. CASE ~Exists(a)
    <3>1. PICK r \in Requests : Inserts(r, a)
      <4>1. ASSUME NEW r \in Requests, Updates(r)
            PROVE  Exists(a)
        BY <1>2, <4>1, UpdateWrites DEF Updates, Exists
      <4>2. ASSUME NEW r \in Requests, NEW b \in Accounts, Inserts(r, b)
            PROVE  b = a
        BY <1>2, <2>2, <4>2 DEF Inserts, Exists
      <4>3. ~Switches /\ users' # users
        BY <1>2, <2>2 DEF Switches, Exists
      <4> QED
        BY <2>2, <4>1, <4>2, <4>3, Effects
           DEF Effect, Opens, Looks, Draws, Answers, Refuses, Drops, Quiet
    <3>2. pc'[r] = "reply" /\ req'[r].op = "register" /\ req'[r].account = a
      BY <3>1 DEF Inserts, Moves, KeepsBody, IInv, InFlight, OpAt
    <3> QED
      BY <3>2
  <2> QED
    BY <2>1, <2>2
<1>3. \/ users'[a].secret \in {None} \union told'[a] \union lost'
      \/ \E r \in Requests : /\ pc'[r] = "reply" /\ req'[r].op = "enroll"
                             /\ req'[r].account = a
                             /\ req'[r].secret = users'[a].secret
  <2>1. CASE users'[a].secret = users[a].secret
    <3>1. CASE users[a].secret \in {None} \union told[a] \union lost
      BY <2>1, <3>1, Lasts
    <3>2. ASSUME NEW y \in Requests, pc[y] = "reply", req[y].op = "enroll",
                 req[y].account = a, req[y].secret = users[a].secret
          PROVE  \/ users[a].secret \in told'[a] \union lost'
                 \/ /\ pc'[y] = "reply" /\ req'[y].op = "enroll"
                    /\ req'[y].account = a /\ req'[y].secret = users[a].secret
      <4>1. CASE Answers(y)
        BY <3>2, <4>1 DEF Answers
      <4>2. CASE Drops(y)
        BY <3>2, <4>2 DEF Drops, Untold
      <4> QED
        BY <1>1, <3>2, <4>1, <4>2, MovesOrStays
    <3> QED
      BY <1>0, <2>1, <3>1, <3>2 DEF Accounted
  <2>2. ASSUME NEW r \in Requests, NEW b \in Accounts, Inserts(r, b)
        PROVE  users'[a].secret \in {None, users[a].secret}
    BY <2>2 DEF Inserts
  <2>3. ASSUME NEW r \in Requests, Updates(r), users'[a].secret # users[a].secret
        PROVE  /\ pc'[r] = "reply" /\ req'[r].op = "enroll"
               /\ req'[r].account = a /\ req'[r].secret = users'[a].secret
    BY <2>3, UpdateWrites DEF Updates, Moves
  <2>4. CASE users' = users \/ Switches
    BY <2>1, <2>4 DEF Switches
  <2> QED
    BY <2>1, <2>2, <2>3, <2>4, Effects
       DEF Effect, Opens, Looks, Draws, Answers, Refuses, Drops, Quiet
<1> QED
  BY <1>2, <1>3 DEF Accounted

\* Every step of the system preserves the inductive invariant.
LEMMA NextIInv == IInv /\ [Next]_vars => IInv'
<1> SUFFICES ASSUME IInv, [Next]_vars
             PROVE  IInv'
  OBVIOUS
<1>1. Types' /\ TypeOK'
  BY NextTypes, NextSecrets, TypePartsNext
<1> QED
  BY <1>1, NextNames, NextInFlight, NextPending, NextWritten, NextDecides,
     NextRows, NextAccounted
     DEF IInv

-----------------------------------------------------------------------------
(* What follows.                                                           *)

\* Whatever requests do, in whatever order the database executes their
\* statements, the inductive invariant holds.
THEOREM IInvAlways == Spec => []IInv
BY InitIInv, NextIInv, PTL DEF Spec

\* Rows and requests are well typed, and no two accounts share a secret.
THEOREM TypeCorrect == Spec => []TypeOK
<1>1. IInv => TypeOK
  BY DEF IInv
<1> QED
  BY <1>1, IInvAlways, PTL

\* However registrations overlap between handle_register's lookup and
\* create_user's INSERT, no two accounts share a name or an address.
THEOREM NamesUnique == Spec => []NamesAreUnique
<1>1. IInv => NamesAreUnique
  BY DEF IInv
<1> QED
  BY <1>1, IInvAlways, PTL

\* handle_login and handle_mfa_verify admit nobody whom the table would not
\* have admitted at some moment of the request.
THEOREM AdmittedAdmissible == Spec => []AdmittedWasAdmissible
<1>1. IInv => AdmittedWasAdmissible
  BY DEF IInv, Decides, AdmittedWasAdmissible
<1> QED
  BY <1>1, IInvAlways, PTL

\* Once handle_mfa_enroll has answered, no secret that had been answered before
\* that enrolment began is in force again.
THEOREM RotationEffective == Spec => []RotationTakesEffect
<1>1. IInv => RotationTakesEffect
  BY DEF IInv, RowOK, RotationTakesEffect
<1> QED
  BY <1>1, IInvAlways, PTL

\* No account is locked out by a secret its client was never to learn: a secret
\* in force that the client does not know was in an answer that was lost.
THEOREM UntoldLost == Spec => []UntoldWasLost
<1>1. IInv => UntoldWasLost
  <2> SUFFICES ASSUME IInv, NEW a \in Accounts, Exists(a)
               PROVE  /\ \/ a \in created \union lost
                         \/ \E r \in Requests : a \in Untold(r)
                      /\ \/ users[a].secret \in {None} \union told[a] \union lost
                         \/ \E r \in Requests : users[a].secret \in Untold(r)
    BY DEF UntoldWasLost
  <2>1. Accounted(a)
    BY DEF IInv
  <2>2. \A r \in Requests : pc[r] = "reply" =>
          /\ req[r].op = "register" => Untold(r) = {req[r].account}
          /\ req[r].op = "enroll" => Untold(r) = {req[r].secret}
    BY DEF Untold
  <2> QED
    BY <2>1, <2>2 DEF Accounted
<1> QED
  BY <1>1, IInvAlways, PTL
=============================================================================
