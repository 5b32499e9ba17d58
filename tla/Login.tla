------------------------------- MODULE Login -------------------------------
(***************************************************************************)
(* handle_login from end to end (src/src/proxy/mod.rs): what it does to    *)
(* the devices table is DeviceTrust; here it goes on to ask the risk       *)
(* engine, to create and seal the session in Redis, to write its row of    *)
(* the audit log and to answer.                                            *)
(*                                                                         *)
(* A slot l is used for one login after another.  The session and the      *)
(* audit row of a login are its own, so they are kept with the slot until  *)
(* its next login begins.  Any step can be the last one: a command fails,  *)
(* or the client hangs up.                                                 *)
(***************************************************************************)
EXTENDS DeviceTrust, RiskEngine

CONSTANTS
    Hours,   \* hours of the day at which logins take place
    StepUp,  \* risk.step_up_threshold
    Block    \* risk.block_threshold

ASSUME HoursAssumption == Hours \subseteq 0..23
ASSUME ThresholdsAssumption == StepUp \in Nat /\ Block \in Nat

VARIABLES
    tail,     \* tail[l]: what login l does after its last write to the table
    attempt,  \* attempt[l]: the local variables it takes along
    session,  \* session[l]: the session it has written to Redis, or NoSession
    audit,    \* audit[l]: the outcome in its audit row, or "none"
    answer    \* answer[l]: a token, or an error of any kind, or "none"

outcome == <<session, audit, answer>>
loginVars == <<vars, tail, attempt, outcome>>

-----------------------------------------------------------------------------

\* enrolled: the account has a TOTP secret, so a right code was presented.
Attempt == [user: Users \union {None}, device: Device, enrolled: BOOLEAN,
            risk: 0..100]
NoAttempt == [user |-> None, device |-> NewDevice, enrolled |-> FALSE, risk |-> 0]

Session == [user: Users \union {None}, mfa: BOOLEAN, risk: 0..100]
NoSession == [user |-> None, mfa |-> FALSE, risk |-> 0]

\* Types, and that one thing at a time is left to do.
LoginTypeOK ==
    /\ tail \in [Logins -> {"none", "refuse", "assess", "create", "seal",
                            "log", "answer"}]
    /\ attempt \in [Logins -> Attempt]
    /\ session \in [Logins -> Session]
    /\ audit \in [Logins -> {"none", "success", "failure"}]
    /\ answer \in [Logins -> {"none", "token", "refused"}]
    /\ \A l \in Logins : tail[l] # "none" => pc[l] = "idle" /\ answer[l] = "none"

LoginInit ==
    /\ Init
    /\ tail = [l \in Logins |-> "none"]
    /\ attempt = [l \in Logins |-> NoAttempt]
    /\ session = [l \in Logins |-> NoSession]
    /\ audit = [l \in Logins |-> "none"]
    /\ answer = [l \in Logins |-> "none"]

-----------------------------------------------------------------------------
(* Up to the devices table.                                                *)

Goto(l, label) == tail' = [tail EXCEPT ![l] = label]

BeginLogin(l, u, f) ==
    /\ tail[l] = "none"
    /\ Begin(l, u, f)
    /\ attempt' = [attempt EXCEPT ![l] = [NoAttempt EXCEPT !.user = u]]
    /\ session' = [session EXCEPT ![l] = NoSession]
    /\ audit' = [audit EXCEPT ![l] = "none"]
    /\ answer' = [answer EXCEPT ![l] = "none"]
    /\ UNCHANGED tail

FindDevice(l) ==
    /\ Find(l)
    /\ UNCHANGED <<tail, attempt, outcome>>

\* A wrong password, with its penalty written.
Reject(l) ==
    /\ WrongPassword(l)
    /\ Goto(l, "refuse")
    /\ UNCHANGED <<attempt, outcome>>

\* A missing or wrong code is refused without a row in the audit log.
Withdraw(l) ==
    /\ GiveUp(l)
    /\ answer' = [answer EXCEPT ![l] = "refused"]
    /\ UNCHANGED <<tail, attempt, session, audit>>

Accept(l) ==
    /\ Succeed(l)
    /\ \E enrolled \in BOOLEAN :
         attempt' = [attempt EXCEPT ![l].device = Rewarded(l),
                                    ![l].enrolled = enrolled]
    /\ Goto(l, "assess")
    /\ UNCHANGED outcome

-----------------------------------------------------------------------------
(* From the risk engine to the answer.                                     *)

\* What the risk engine makes of login l at some hour.
Risk(l, hour) ==
    TotalScore(LoginContext(attempt[l].device.score, attempt[l].device.trusted,
                            hour))

Blocks(total) == Recommendation(total, StepUp, Block) = "Block"

\* Mutated form: the session is created before the engine is asked.
Assess_AfterCreate(l) ==
    /\ tail[l] = "assess"
    /\ session' = [session EXCEPT ![l] = [NoSession EXCEPT
                                            !.user = attempt[l].user]]
    /\ \E hour \in Hours :
         LET total == Risk(l, hour) IN
         IF Blocks(total)
         THEN Goto(l, "refuse") /\ UNCHANGED attempt
         ELSE /\ attempt' = [attempt EXCEPT ![l].risk = total]
              /\ Goto(l, "seal")
    /\ UNCHANGED <<vars, audit, answer>>

\* A recommendation to step up is not followed by a login, only Block is.
\* (The device has been used for the last time, and is cleared.)
Assess(l) ==
    /\ tail[l] = "assess"
    /\ \E hour \in Hours :
         LET total == Risk(l, hour) IN
         /\ attempt' = [attempt EXCEPT
                          ![l].device = NewDevice,
                          ![l].risk = IF Blocks(total) THEN 0 ELSE total]
         /\ Goto(l, IF Blocks(total) THEN "refuse" ELSE "create")
    /\ UNCHANGED <<vars, outcome>>

\* create_session: a session that knows nothing of code and risk yet.
CreateSession(l) ==
    /\ tail[l] = "create"
    /\ session' = [session EXCEPT ![l] = [NoSession EXCEPT
                                            !.user = attempt[l].user]]
    /\ Goto(l, "seal")
    /\ UNCHANGED <<vars, attempt, audit, answer>>

\* Mutated form: update_session fails and the login goes on.
SealSession_Ignored(l) ==
    /\ tail[l] = "seal"
    /\ \/ session' = [session EXCEPT ![l].mfa = attempt[l].enrolled,
                                     ![l].risk = attempt[l].risk]
       \/ UNCHANGED session
    /\ Goto(l, "log")
    /\ UNCHANGED <<vars, attempt, audit, answer>>

\* update_session.
SealSession(l) ==
    /\ tail[l] = "seal"
    /\ session' = [session EXCEPT ![l].mfa = attempt[l].enrolled,
                                  ![l].risk = attempt[l].risk]
    /\ Goto(l, "log")
    /\ UNCHANGED <<vars, attempt, audit, answer>>

\* log_authentication(.., true): a row that cannot be written is done without.
LogSuccess(l) ==
    /\ tail[l] = "log"
    /\ \E row \in {"success", "none"} : audit' = [audit EXCEPT ![l] = row]
    /\ Goto(l, "answer")
    /\ UNCHANGED <<vars, attempt, session, answer>>

\* The JWT, which names the session.
Answer(l) ==
    /\ tail[l] = "answer"
    /\ answer' = [answer EXCEPT ![l] = "token"]
    /\ Goto(l, "none")
    /\ UNCHANGED <<vars, attempt, session, audit>>

\* log_authentication(.., false), and the error.
Refuse(l) ==
    /\ tail[l] = "refuse"
    /\ \E row \in {"failure", "none"} : audit' = [audit EXCEPT ![l] = row]
    /\ answer' = [answer EXCEPT ![l] = "refused"]
    /\ Goto(l, "none")
    /\ UNCHANGED <<vars, attempt, session>>

\* A command fails or the client hangs up.
Drop(l) ==
    /\ tail[l] # "none"
    /\ answer' = [answer EXCEPT ![l] = "refused"]
    /\ Goto(l, "none")
    /\ UNCHANGED <<vars, attempt, session, audit>>

LoginNext == \E l \in Logins :
    \/ \E u \in Users, f \in Fingerprints : BeginLogin(l, u, f)
    \/ FindDevice(l) \/ Reject(l) \/ Withdraw(l) \/ Accept(l)
    \/ Assess(l) \/ CreateSession(l) \/ SealSession(l) \/ LogSuccess(l)
    \/ Answer(l) \/ Refuse(l) \/ Drop(l)

LoginSpec == LoginInit /\ [][LoginNext]_loginVars

-----------------------------------------------------------------------------
(* Properties.                                                             *)

\* A token is given for a session that was written to Redis in its final form:
\* the account's, marked as its TOTP test went, with the score the engine gave
\* and a score that is not blocked.  (Nobody else writes sessions here: what a
\* logout_all before the answer does to it is for ProxySessions to say.)
TokenIsBacked ==
    \A l \in Logins : answer[l] = "token" =>
        /\ session[l] = [user |-> attempt[l].user, mfa |-> attempt[l].enrolled,
                         risk |-> attempt[l].risk]
        /\ session[l].user # None
        /\ session[l].risk < Block

\* The audit log does not contradict what happened: a success row means a
\* session in its final form, a failure row that the login left no session and
\* no token; only success rows may belong to a client that was told nothing.
LoginAuditAgrees ==
    \A l \in Logins :
        /\ audit[l] = "success" => /\ session[l].user = attempt[l].user
                                   /\ session[l].mfa = attempt[l].enrolled
        /\ audit[l] = "failure" => /\ session[l] = NoSession
                                   /\ answer[l] = "refused"
=============================================================================
