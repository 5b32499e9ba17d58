------------------------------ MODULE Accounts ------------------------------
(***************************************************************************)
(* The users table and the handlers that read and write it:                *)
(* /auth/register, /auth/mfa/enroll, the credential checks of /auth/login  *)
(* and /auth/mfa/verify (src/src/proxy/mod.rs), over the queries of        *)
(* src/src/db/mod.rs and the constraints of src/docs/schema.sql.           *)
(*                                                                         *)
(* One action is one SQL statement or the code between two of them; the    *)
(* statements of different requests interleave freely.  A handler works on *)
(* the row as its SELECT found it, through a slow password hash or none,   *)
(* while other requests insert, enrol and re-enrol.                        *)
(*                                                                         *)
(* A TOTP code is the secret it belongs to: codes of one secret are all    *)
(* alike here, and codes of different secrets never coincide.  What a      *)
(* login does afterwards is in Login, what becomes of a session in         *)
(* ProxySessions.                                                          *)
(***************************************************************************)
EXTENDS Integers

CONSTANTS
    Accounts,  \* users.id, gen_random_uuid()
    Names,     \* usernames
    Emails,
    Secrets,   \* what generate_secret may return; no value twice
    Requests,  \* requests that can be in flight at the same time
    None

ASSUME NoneAssumption ==
    None \notin Accounts \union Names \union Emails \union Secrets

VARIABLES
    users,       \* users[a]: the row with id a, or NoRow
    drawn,       \* secrets generate_secret has returned
    pc,          \* pc[r]: what request r does next
    req,         \* req[r]: the local variables of its handler
    tokens,      \* accounts that hold a JWT, whatever has become of them since
    \* History, read by no action.
    created,     \* accounts whose registration was answered 201
    told,        \* told[a]: secrets answered to enrolments of a
    outdated,    \* outdated[a]: secrets an answered enrolment has replaced
    lost,        \* accounts and secrets whose answer did not reach the client
    admissible   \* requests the table would have admitted since they began

table == <<users, drawn, tokens>>
answers == <<created, told, outdated, lost>>
vars == <<table, pc, req, answers, admissible>>

-----------------------------------------------------------------------------
(* Data.                                                                   *)

Row == [name: Names \union {None}, email: Emails \union {None},
        secret: Secrets \union {None}, active: BOOLEAN]
NoRow == [name |-> None, email |-> None, secret |-> None, active |-> FALSE]
Exists(a) == users[a] # NoRow

\* secret: the one the row was found with, or the one to be written.  code:
\* mfa_token of the body.  replaces: history, what was told before it began.
Ops == {"none", "register", "login", "enroll", "verify"}
Request == [op: Ops, name: Names \union {None}, email: Emails \union {None},
            account: Accounts \union {None}, code: Secrets \union {None},
            secret: Secrets \union {None},
            replaces: SUBSET (Secrets \union {None})]
NoRequest == [op |-> "none", name |-> None, email |-> None, account |-> None,
              code |-> None, secret |-> None, replaces |-> {}]

\* Types, and that no two accounts share a secret.
TypeOK ==
    /\ users \in [Accounts -> Row]
    /\ \A a, b \in Accounts :
         a # b /\ users[a].secret # None => users[a].secret # users[b].secret
    /\ drawn \in SUBSET Secrets
    /\ tokens \in SUBSET Accounts
    /\ pc \in [Requests -> {"idle", "lookup", "insert", "check", "update", "reply"}]
    /\ req \in [Requests -> Request]
    /\ created \in SUBSET Accounts
    /\ told \in [Accounts -> SUBSET Secrets]
    /\ outdated \in [Accounts -> SUBSET (Secrets \union {None})]
    /\ lost \in SUBSET (Accounts \union Secrets)
    /\ admissible \in SUBSET Requests

Init ==
    /\ users = [a \in Accounts |-> NoRow]
    /\ drawn = {}
    /\ tokens = {}
    /\ pc = [r \in Requests |-> "idle"]
    /\ req = [r \in Requests |-> NoRequest]
    /\ created = {}
    /\ told = [a \in Accounts |-> {}]
    /\ outdated = [a \in Accounts |-> {}]
    /\ lost = {}
    /\ admissible = {}

-----------------------------------------------------------------------------
(* Steps every handler is made of.                                         *)

Proceed(r, q, label) ==
    /\ req' = [req EXCEPT ![r] = q]
    /\ pc' = [pc EXCEPT ![r] = label]

Finish(r) == Proceed(r, NoRequest, "idle")

\* Mutated form: a code is asked for, but a request without one gets through.
Proves_MissingPasses(secret, code) == secret # None => code \in {secret, None}

\* The TOTP test of handle_login: an account without a secret needs no code.
Proves(secret, code) == secret # None => code = secret

\* What the table as it stands would admit r to; history, for the property.
Admits(r) ==
    CASE req[r].op = "login" ->
           \E a \in Accounts : /\ Exists(a)
                               /\ users[a].name = req[r].name
                               /\ users[a].active
                               /\ users[a].secret \in {None, req[r].code}
      [] req[r].op = "verify" ->
           users[req[r].account].secret = req[r].code /\ req[r].code # None
      [] OTHER -> FALSE

-----------------------------------------------------------------------------
(* POST /auth/register.                                                    *)

StartRegister(r, n, e) ==
    /\ pc[r] = "idle"
    /\ Proceed(r, [NoRequest EXCEPT !.op = "register", !.name = n, !.email = e],
               "lookup")
    /\ UNCHANGED <<table, answers>>

\* find_user_by_username; "username already exists" if there is one.  A slow
\* password hash follows.
LookupRegister(r) ==
    /\ pc[r] = "lookup"
    /\ req[r].op = "register"
    /\ IF \E a \in Accounts : Exists(a) /\ users[a].name = req[r].name
       THEN Finish(r)
       ELSE Proceed(r, req[r], "insert")
    /\ UNCHANGED <<table, answers>>

\* Mutated form: the table is UNIQUE by email only.
Conflicts_EmailOnly(r) ==
    \E a \in Accounts : Exists(a) /\ users[a].email = req[r].email

\* The table is UNIQUE by username and by email.
Conflicts(r) ==
    \E a \in Accounts : /\ Exists(a)
                        /\ \/ users[a].name = req[r].name
                           \/ users[a].email = req[r].email

\* create_user: one INSERT, refused as a database error on a conflict.
Insert(r) ==
    /\ pc[r] = "insert"
    /\ IF Conflicts(r)
       THEN Finish(r) /\ UNCHANGED users
       ELSE \E a \in Accounts :
              /\ ~Exists(a)
              /\ users' = [users EXCEPT ![a] =
                             [name |-> req[r].name, email |-> req[r].email,
                              secret |-> None, active |-> TRUE]]
              /\ Proceed(r, [req[r] EXCEPT !.account = a], "reply")
    /\ UNCHANGED <<drawn, tokens, answers>>

-----------------------------------------------------------------------------
(* POST /auth/login, as far as it is about the account.                    *)

StartLogin(r, n, code) ==
    /\ pc[r] = "idle"
    /\ Proceed(r, [NoRequest EXCEPT !.op = "login", !.name = n, !.code = code],
               "lookup")
    /\ UNCHANGED <<table, answers>>

\* .filter(|u| u.is_active).
MayLogIn(a) == Exists(a) /\ users[a].active

LookupLogin(r) ==
    /\ pc[r] = "lookup"
    /\ req[r].op = "login"
    /\ \/ \E a \in Accounts :
            /\ MayLogIn(a)
            /\ users[a].name = req[r].name
            /\ Proceed(r, [req[r] EXCEPT !.account = a,
                                         !.secret = users[a].secret], "check")
       \/ /\ \A a \in Accounts : MayLogIn(a) => users[a].name # req[r].name
          /\ Finish(r)
    /\ UNCHANGED <<table, answers>>

\* verify_password, and the code against the row as it was found.
CheckLogin(r) ==
    /\ pc[r] = "check"
    /\ req[r].op = "login"
    /\ \E password_right \in BOOLEAN :
         IF password_right /\ Proves(req[r].secret, req[r].code)
         THEN Proceed(r, req[r], "reply")
         ELSE Finish(r)
    /\ UNCHANGED <<table, answers>>

-----------------------------------------------------------------------------
(* POST /auth/mfa/enroll and /auth/mfa/verify: the token names the account. *)

\* replaces is history: what enrolments have been answered with so far.
StartEnroll(r, a) ==
    /\ pc[r] = "idle"
    /\ a \in tokens
    /\ Proceed(r, [NoRequest EXCEPT !.op = "enroll", !.account = a,
                                    !.replaces = told[a] \union {None}], "lookup")
    /\ UNCHANGED <<table, answers>>

\* What generate_secret may return: 160 random bits do not repeat.
Fresh == Secrets \ drawn

\* find_user_by_id finds it, accounts are never deleted; generate_secret.
LookupEnroll(r) ==
    /\ pc[r] = "lookup"
    /\ req[r].op = "enroll"
    /\ \E s \in Fresh :
         /\ drawn' = drawn \union {s}
         /\ Proceed(r, [req[r] EXCEPT !.secret = s], "update")
    /\ UNCHANGED <<users, tokens, answers>>

\* Mutated form: the UPDATE has no WHERE.
Update_Everywhere(r) ==
    /\ pc[r] = "update"
    /\ users' = [a \in Accounts |->
                   IF Exists(a) THEN [users[a] EXCEPT !.secret = req[r].secret]
                                ELSE NoRow]
    /\ Proceed(r, req[r], "reply")
    /\ UNCHANGED <<drawn, tokens, answers>>

\* Mutated form: an account that has a secret keeps it.
Update_First(r) ==
    /\ pc[r] = "update"
    /\ users' = [users EXCEPT ![req[r].account].secret =
                   IF @ = None THEN req[r].secret ELSE @]
    /\ Proceed(r, req[r], "reply")
    /\ UNCHANGED <<drawn, tokens, answers>>

\* Mutated form: another secret is generated for the row than for the answer.
Update_DrawsAgain(r) ==
    /\ pc[r] = "update"
    /\ \E s \in Fresh :
         /\ drawn' = drawn \union {s}
         /\ users' = [users EXCEPT ![req[r].account].secret = s]
    /\ Proceed(r, req[r], "reply")
    /\ UNCHANGED <<tokens, answers>>

\* set_user_mfa_secret.
Update(r) ==
    /\ pc[r] = "update"
    /\ users' = [users EXCEPT ![req[r].account].secret = req[r].secret]
    /\ Proceed(r, req[r], "reply")
    /\ UNCHANGED <<drawn, tokens, answers>>

StartVerify(r, a, code) ==
    /\ pc[r] = "idle"
    /\ a \in tokens
    /\ Proceed(r, [NoRequest EXCEPT !.op = "verify", !.account = a,
                                    !.code = code], "lookup")
    /\ UNCHANGED <<table, answers>>

\* find_user_by_id, which does not ask whether the account is active.
LookupVerify(r) ==
    /\ pc[r] = "lookup"
    /\ req[r].op = "verify"
    /\ LET secret == users[req[r].account].secret IN
       IF secret = None
       THEN Finish(r)
       ELSE Proceed(r, [req[r] EXCEPT !.secret = secret], "check")
    /\ UNCHANGED <<table, answers>>

CheckVerify(r) ==
    /\ pc[r] = "check"
    /\ req[r].op = "verify"
    /\ IF Proves(req[r].secret, req[r].code)
       THEN Proceed(r, req[r], "reply")
       ELSE Finish(r)
    /\ UNCHANGED <<table, answers>>

-----------------------------------------------------------------------------
(* Answers, and the environment.                                           *)

\* 201, or 200 with a JWT, or with the secret, or with nothing to be kept.
Reply(r) ==
    /\ pc[r] = "reply"
    /\ LET q == req[r]
           a == q.account
       IN  /\ tokens' = IF q.op = "login" THEN tokens \union {a} ELSE tokens
           /\ created' = IF q.op = "register" THEN created \union {a} ELSE created
           /\ IF q.op = "enroll"
              THEN /\ told' = [told EXCEPT ![a] = @ \union {q.secret}]
                   /\ outdated' = [outdated EXCEPT ![a] = @ \union q.replaces]
              ELSE UNCHANGED <<told, outdated>>
    /\ Finish(r)
    /\ UNCHANGED <<users, drawn, lost>>

\* What request r has written without having told its client.
Untold(r) ==
    CASE pc[r] = "reply" /\ req[r].op = "register" -> {req[r].account}
      [] pc[r] = "reply" /\ req[r].op = "enroll"   -> {req[r].secret}
      [] OTHER                                     -> {}

\* A statement fails, or the client hangs up and hyper drops the handler.
Abort(r) ==
    /\ pc[r] # "idle"
    /\ lost' = lost \union Untold(r)
    /\ Finish(r)
    /\ UNCHANGED <<table, created, told, outdated>>

\* An operator: nothing in the program writes is_active.
SetActive(a, active) ==
    /\ Exists(a)
    /\ users' = [users EXCEPT ![a].active = active]
    /\ UNCHANGED <<drawn, tokens, pc, req, answers>>

-----------------------------------------------------------------------------

Start(r) ==
    \/ \E n \in Names : \/ \E e \in Emails : StartRegister(r, n, e)
                        \/ \E c \in drawn \union {None} : StartLogin(r, n, c)
    \/ \E a \in Accounts : \/ StartEnroll(r, a)
                           \/ \E c \in drawn : StartVerify(r, a, c)

Continue(r) ==
    \/ LookupRegister(r) \/ Insert(r)
    \/ LookupLogin(r) \/ CheckLogin(r)
    \/ LookupEnroll(r) \/ Update(r)
    \/ LookupVerify(r) \/ CheckVerify(r)
    \/ Reply(r)

Step ==
    \/ \E r \in Requests : Start(r) \/ Continue(r) \/ Abort(r)
    \/ \E a \in Accounts, active \in BOOLEAN : SetActive(a, active)

\* admissible is worked out from each step and read by none.
Next ==
    /\ Step
    /\ admissible' = {r \in Requests : pc'[r] # "idle"
                                       /\ (r \in admissible \/ Admits(r)')}

Spec == Init /\ [][Next]_vars

-----------------------------------------------------------------------------
(* Properties.                                                             *)

\* However registrations overlap between the lookup of handle_register and the
\* INSERT of create_user, no two accounts share a name or an address.
NamesAreUnique ==
    \A a, b \in Accounts : Exists(a) /\ Exists(b) /\ a # b =>
        users[a].name # users[b].name /\ users[a].email # users[b].email

\* handle_login and handle_mfa_verify decide on a row read earlier, and yet
\* admit nobody whom the table would not have admitted at some moment of the
\* request: no login without a code that began after an enrolment, none of an
\* account that was inactive all along, no code of a secret that had been
\* replaced before.
AdmittedWasAdmissible ==
    \A r \in Requests :
        pc[r] = "reply" /\ req[r].op \in {"login", "verify"} => r \in admissible

\* handle_mfa_enroll is a register: once an enrolment has been answered,
\* neither the lack of a secret nor one answered before that enrolment began
\* is in force again, however enrolments overlap.
RotationTakesEffect ==
    \A a \in Accounts : Exists(a) => users[a].secret \notin outdated[a]

\* "Only gate login on MFA if this user has actually enrolled a TOTP secret"
\* (handle_login, so as not to "permanently lock out any user who hasn't
\* enrolled yet"): a login asks for codes of a secret that the account's user
\* has been answered, or is being answered.
GatedHaveEnrolled ==
    \A a \in Accounts : Exists(a) /\ users[a].secret # None =>
        \/ users[a].secret \in told[a]
        \/ \E r \in Requests : users[a].secret \in Untold(r)

\* It does not hold: handle_mfa_enroll turns MFA on before it answers, and with
\* the answer lost nobody can log in to that account.  But this is the only way:
\* an account or a secret in the table that no client was told of, or is being
\* told of, is one whose answer was lost (Update writes what Reply answers).
UntoldWasLost ==
    \A a \in Accounts : Exists(a) =>
        /\ \/ a \in created \union lost
           \/ \E r \in Requests : a \in Untold(r)
        /\ \/ users[a].secret \in {None} \union told[a] \union lost
           \/ \E r \in Requests : users[a].secret \in Untold(r)
=============================================================================
