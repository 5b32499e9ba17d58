---------------------------- MODULE LoginProofs ----------------------------
(***************************************************************************)
(* Proofs about Login, for every set of accounts and fingerprints, every   *)
(* number of concurrent logins, any hours and both thresholds.  What       *)
(* DeviceTrustProofs shows of the devices table carries over to the whole  *)
(* of handle_login; a token stands for a sealed session that was not       *)
(* blocked; and the audit log does not contradict what happened.           *)
(***************************************************************************)
EXTENDS Login, DeviceTrustProofs

-----------------------------------------------------------------------------
(* What the risk engine makes of a login.                                  *)

\* RiskScore stays a percentage: .min(100) of parts that are not negative.
LEMMA LoginRisk ==
    ASSUME NEW score \in 0..100, NEW trusted \in BOOLEAN, NEW hour \in 0..23
    PROVE  TotalScore(LoginContext(score, trusted, hour)) \in 0..100
<1> DEFINE c == LoginContext(score, trusted, hour)
<1>1. /\ c.device = [trust_score |-> score, is_trusted |-> trusted, days |-> 0]
      /\ c.failed_attempts = 0 /\ c.hour = hour
      /\ c.ip_changed = FALSE /\ c.age = 0
  BY DEF LoginContext
<1> HIDE DEF c
<1>2. DeviceRisk(c.device) \in Nat
  BY <1>1 DEF DeviceRisk
<1>3. FailedAttemptsRisk(c.failed_attempts) \in Nat
  BY <1>1 DEF FailedAttemptsRisk
<1>4. TimeRisk(c.hour) \in Nat
  BY <1>1 DEF TimeRisk
<1>5. IpChangeRisk(c.ip_changed) \in Nat
  BY <1>1 DEF IpChangeRisk
<1>6. SessionAgeRisk(c.age) \in Nat
  BY <1>1 DEF SessionAgeRisk
<1>7. ASSUME NEW n \in Nat
      PROVE  AtMost(100, n) \in 0..100
  BY DEF AtMost
<1>8. TotalScore(c) \in 0..100
  BY <1>2, <1>3, <1>4, <1>5, <1>6, <1>7 DEF TotalScore
<1> QED
  BY <1>8 DEF c

\* A total that is not blocked is below the threshold.
LEMMA NotBlocked ==
    ASSUME NEW total \in 0..100, ~Blocks(total)
    PROVE  total < Block
BY ThresholdsAssumption DEF Blocks, Recommendation

-----------------------------------------------------------------------------
(* Login is DeviceTrust with a tail: a step is DeviceTrust's or leaves it.  *)

\* A proxy that has just started has an empty devices table.
LEMMA LoginInitInit == LoginInit => Init
BY DEF LoginInit

\* What follows the last write to the table does not touch it again.
LEMMA LoginNextNext == [LoginNext]_loginVars => [Next]_vars
<1> SUFFICES ASSUME [LoginNext]_loginVars
             PROVE  [Next]_vars
  OBVIOUS
<1>1. CASE UNCHANGED loginVars
  BY <1>1 DEF loginVars
<1>2. ASSUME NEW l \in Logins, NEW u \in Users, NEW f \in Fingerprints,
             BeginLogin(l, u, f)
      PROVE  Next
  BY <1>2 DEF BeginLogin, Next
<1>3. ASSUME NEW l \in Logins,
             FindDevice(l) \/ Reject(l) \/ Withdraw(l) \/ Accept(l)
      PROVE  Next
  BY <1>3 DEF FindDevice, Reject, Withdraw, Accept, Next
<1>4. ASSUME NEW l \in Logins,
             \/ Assess(l) \/ CreateSession(l) \/ SealSession(l)
             \/ LogSuccess(l) \/ Answer(l) \/ Refuse(l) \/ Drop(l)
      PROVE  UNCHANGED vars
  BY <1>4 DEF Assess, CreateSession, SealSession, LogSuccess, Answer, Refuse, Drop
<1> QED
  BY <1>1, <1>2, <1>3, <1>4 DEF LoginNext

-----------------------------------------------------------------------------
(* The inductive invariant: what a login knows at each stage of its tail.  *)

\* The session a login hands a token out for.
Final(l) == [user |-> attempt[l].user, mfa |-> attempt[l].enrolled,
             risk |-> attempt[l].risk]

\* Nobody has heard of login l yet, and it has left nothing in Redis.
Untold(l) == session[l] = NoSession /\ audit[l] = "none"

\* Before create_session nothing is left behind, and the account is known.
Ahead(l) ==
    /\ pc[l] # "idle" => /\ attempt[l].user = req[l].user
                         /\ Untold(l) /\ answer[l] = "none"
    /\ tail[l] # "none" => attempt[l].user # None
    /\ tail[l] \in {"refuse", "assess", "create"} => Untold(l)

\* From the engine's verdict on the risk is below the block threshold, and
\* from update_session on the session is final.
Sealed(l) ==
    /\ tail[l] \in {"create", "seal", "log", "answer"} => attempt[l].risk < Block
    /\ tail[l] = "seal" => /\ session[l].user = attempt[l].user
                           /\ audit[l] = "none"
    /\ tail[l] \in {"log", "answer"} => session[l] = Final(l)
    /\ tail[l] = "log" => audit[l] = "none"

\* What has been said of login l, in the log or to the client, is so.
Told(l) ==
    /\ audit[l] = "success" => /\ session[l] = Final(l)
                               /\ tail[l] \in {"answer", "none"}
    /\ audit[l] = "failure" => session[l] = NoSession /\ answer[l] = "refused"
    /\ answer[l] = "token" => /\ session[l] = Final(l)
                              /\ attempt[l].user # None
                              /\ attempt[l].risk < Block

Slot(l) == Ahead(l) /\ Sealed(l) /\ Told(l)

LoginIInv ==
    /\ IInv
    /\ LoginTypeOK
    /\ \A l \in Logins : Slot(l)

\* Nothing carried along, and no session, are values of their types.
LEMMA EmptyTypes == NoAttempt \in Attempt /\ NoSession \in Session
BY NewDeviceFacts DEF NoAttempt, Attempt, NoSession, Session

\* So is an attempt for an account, from whatever it held before.
LEMMA AttemptBegun ==
    ASSUME NEW a \in Attempt, NEW u \in Users
    PROVE  [a EXCEPT !.user = u] \in Attempt
BY DEF Attempt

\* What an accepted password and code leave of an attempt.
Accepted(a, d, e) == [a EXCEPT !.device = d, !.enrolled = e]

\* An attempt that was accepted is still its user's.
LEMMA AttemptAccepted ==
    ASSUME NEW a \in Attempt, NEW d \in Device, NEW e \in BOOLEAN
    PROVE  Accepted(a, d, e) \in Attempt /\ Accepted(a, d, e).user = a.user
BY DEF Attempt, Accepted

\* What the risk engine leaves of an attempt: its device's trust as it is taken
\* for the session, and the score it gave.
Assessed(a, d, n) == [a EXCEPT !.device = d, !.risk = n]

\* So is one that was assessed, which has its score now.
LEMMA AttemptAssessed ==
    ASSUME NEW a \in Attempt, NEW d \in Device, NEW n \in 0..100
    PROVE  /\ Assessed(a, d, n) \in Attempt
           /\ Assessed(a, d, n).user = a.user
           /\ Assessed(a, d, n).risk = n
BY DEF Attempt, Assessed

\* The invariant holds before the first login.
LEMMA LoginInitIInv == LoginInit => LoginIInv
<1> SUFFICES ASSUME LoginInit
             PROVE  LoginIInv
  OBVIOUS
<1>1. IInv
  BY InitIInv DEF LoginInit
<1>2. LoginTypeOK
  BY EmptyTypes DEF LoginTypeOK, LoginInit, Init
<1>3. \A l \in Logins : Slot(l)
  BY DEF Slot, Ahead, Sealed, Told, LoginInit, Init
<1> QED
  BY <1>1, <1>2, <1>3 DEF LoginIInv

\* The variables of slot x, as its invariant sees them, stay as they are.
Still(x) ==
    /\ pc'[x] = pc[x] /\ req'[x] = req[x] /\ tail'[x] = tail[x]
    /\ attempt'[x] = attempt[x] /\ session'[x] = session[x]
    /\ audit'[x] = audit[x] /\ answer'[x] = answer[x]

\* A slot that stays as it is stays good.
LEMMA StillSlot ==
    ASSUME NEW x \in Logins, Slot(x), Still(x)
    PROVE  Slot(x)'
BY DEF Still, Slot, Ahead, Sealed, Told, Untold, Final

\* Types of the slots, and the one that changes among them.
LEMMA TypeStep ==
    ASSUME LoginIInv, NEW l \in Logins, IInv',
           tail' \in [Logins -> {"none", "refuse", "assess", "create", "seal",
                                 "log", "answer"}],
           attempt' \in [Logins -> Attempt],
           session' \in [Logins -> Session],
           audit' \in [Logins -> {"none", "success", "failure"}],
           answer' \in [Logins -> {"none", "token", "refused"}],
           \A x \in Logins \ {l} : Still(x),
           tail'[l] # "none" => pc'[l] = "idle" /\ answer'[l] = "none",
           Slot(l)'
    PROVE  LoginIInv'
<1>1. \A x \in Logins : Slot(x)'
  BY StillSlot DEF LoginIInv
<1>2. \A x \in Logins : tail'[x] # "none" => pc'[x] = "idle" /\ answer'[x] = "none"
  BY DEF Still, LoginIInv, LoginTypeOK
<1>3. LoginTypeOK'
  BY <1>2 DEF LoginTypeOK
<1> QED
  BY <1>1, <1>3 DEF LoginIInv
\* A login that sets out starts from nothing.
LEMMA BeginLoginIInv ==
    ASSUME LoginIInv, NEW l \in Logins, NEW u \in Users, NEW f \in Fingerprints,
           BeginLogin(l, u, f)
    PROVE  LoginIInv'
<1>1. IInv /\ LoginTypeOK /\ Begin(l, u, f) /\ tail[l] = "none"
  BY DEF LoginIInv, BeginLogin
<1>2. IInv'
  BY <1>1, BeginIInv
<1>3. /\ req'[l].user = u
      /\ \A x \in Logins \ {l} : req'[x] = req[x] /\ pc'[x] = pc[x]
  BY <1>1 DEF Begin, IInv, TypeOK, NoLogin
<1>4. [NoAttempt EXCEPT !.user = u] \in Attempt /\ NoSession \in Session
  BY EmptyTypes, AttemptBegun
<1>5. /\ tail' = tail
      /\ attempt' \in [Logins -> Attempt] /\ attempt'[l].user = u
      /\ session' \in [Logins -> Session] /\ session'[l] = NoSession
      /\ audit' \in [Logins -> {"none", "success", "failure"}]
      /\ audit'[l] = "none"
      /\ answer' \in [Logins -> {"none", "token", "refused"}]
      /\ answer'[l] = "none"
      /\ \A x \in Logins \ {l} : /\ attempt'[x] = attempt[x]
                                 /\ session'[x] = session[x]
                                 /\ audit'[x] = audit[x] /\ answer'[x] = answer[x]
  BY <1>1, <1>4 DEF BeginLogin, LoginTypeOK, NoAttempt
<1>6. \A x \in Logins \ {l} : Still(x)
  BY <1>3, <1>5 DEF Still
<1>7. Slot(l)'
  BY <1>1, <1>3, <1>5 DEF Slot, Ahead, Untold, Sealed, Told
<1> QED
  BY <1>1, <1>2, <1>5, <1>6, <1>7, TypeStep DEF LoginTypeOK

\* The lookup tells nobody anything.
LEMMA FindDeviceIInv ==
    ASSUME LoginIInv, NEW l \in Logins, FindDevice(l)
    PROVE  LoginIInv'
<1>1. IInv /\ LoginTypeOK /\ Slot(l) /\ Find(l)
  BY DEF LoginIInv, FindDevice
<1>2. IInv'
  BY <1>1, FindIInv
<1>3. /\ pc[l] = "find" /\ tail[l] = "none"
      /\ req'[l].user = req[l].user
      /\ \A x \in Logins \ {l} : req'[x] = req[x] /\ pc'[x] = pc[x]
  BY <1>1 DEF Find, IInv, TypeOK, Login, LoginTypeOK
<1>4. UNCHANGED <<tail, attempt, session, audit, answer>>
  BY DEF FindDevice, outcome
<1>5. \A x \in Logins \ {l} : Still(x)
  BY <1>3, <1>4 DEF Still
<1>6. Slot(l)'
  BY <1>1, <1>3, <1>4 DEF Slot, Ahead, Untold, Sealed, Told, Final
<1> QED
  BY <1>1, <1>2, <1>3, <1>4, <1>5, <1>6, TypeStep DEF LoginTypeOK

\* What the end of a login's work on the table leaves in its slot.
LEMMA FinishSlots ==
    ASSUME LoginIInv, NEW l \in Logins, pc[l] # "idle", Finish(l)
    PROVE  /\ tail[l] = "none" /\ pc'[l] = "idle"
           /\ attempt[l].user # None /\ Untold(l) /\ answer[l] = "none"
           /\ \A x \in Logins \ {l} : req'[x] = req[x] /\ pc'[x] = pc[x]
<1>1. TypeOK /\ LoginTypeOK /\ Slot(l)
  BY DEF LoginIInv, IInv
<1>2. tail[l] = "none" /\ attempt[l].user # None /\ Untold(l) /\ answer[l] = "none"
  BY <1>1 DEF TypeOK, LoginTypeOK, Slot, Ahead
<1>3. /\ pc'[l] = "idle"
      /\ \A x \in Logins \ {l} : req'[x] = req[x] /\ pc'[x] = pc[x]
  BY <1>1 DEF Finish, TypeOK
<1> QED
  BY <1>2, <1>3

\* A wrong password goes on to be refused.
LEMMA RejectIInv ==
    ASSUME LoginIInv, NEW l \in Logins, Reject(l)
    PROVE  LoginIInv'
<1>1. IInv /\ LoginTypeOK /\ WrongPassword(l) /\ pc[l] = "password" /\ Finish(l)
  BY DEF LoginIInv, Reject, WrongPassword
<1>2. IInv'
  BY <1>1, WrongPasswordIInv
<1>3. /\ tail[l] = "none" /\ pc'[l] = "idle"
      /\ attempt[l].user # None /\ Untold(l) /\ answer[l] = "none"
      /\ \A x \in Logins \ {l} : req'[x] = req[x] /\ pc'[x] = pc[x]
  BY <1>1, FinishSlots
<1>4. /\ tail' \in [Logins -> {"none", "refuse", "assess", "create", "seal",
                               "log", "answer"}]
      /\ tail'[l] = "refuse"
      /\ \A x \in Logins \ {l} : tail'[x] = tail[x]
      /\ UNCHANGED <<attempt, session, audit, answer>>
  BY <1>1 DEF Reject, Goto, outcome, LoginTypeOK
<1>5. \A x \in Logins \ {l} : Still(x)
  BY <1>3, <1>4 DEF Still
<1>6. Slot(l)'
  BY <1>3, <1>4 DEF Slot, Ahead, Untold, Sealed, Told
<1> QED
  BY <1>1, <1>2, <1>3, <1>4, <1>5, <1>6, TypeStep DEF LoginTypeOK

\* A login that ends early has left no session and no row.
LEMMA WithdrawIInv ==
    ASSUME LoginIInv, NEW l \in Logins, Withdraw(l)
    PROVE  LoginIInv'
<1>1. IInv /\ LoginTypeOK /\ GiveUp(l) /\ pc[l] # "idle" /\ Finish(l)
  BY DEF LoginIInv, Withdraw, GiveUp
<1>2. IInv'
  BY <1>1, GiveUpIInv
<1>3. /\ tail[l] = "none" /\ pc'[l] = "idle"
      /\ attempt[l].user # None /\ Untold(l) /\ answer[l] = "none"
      /\ \A x \in Logins \ {l} : req'[x] = req[x] /\ pc'[x] = pc[x]
  BY <1>1, FinishSlots
<1>4. /\ answer' \in [Logins -> {"none", "token", "refused"}]
      /\ answer'[l] = "refused"
      /\ \A x \in Logins \ {l} : answer'[x] = answer[x]
      /\ UNCHANGED <<tail, attempt, session, audit>>
  BY <1>1 DEF Withdraw, LoginTypeOK
<1>5. \A x \in Logins \ {l} : Still(x)
  BY <1>3, <1>4 DEF Still
<1>6. Slot(l)'
  BY <1>3, <1>4 DEF Slot, Ahead, Untold, Sealed, Told
<1> QED
  BY <1>1, <1>2, <1>3, <1>4, <1>5, <1>6, TypeStep DEF LoginTypeOK

\* A login whose password and code are right takes its device along.
LEMMA AcceptIInv ==
    ASSUME LoginIInv, NEW l \in Logins, Accept(l)
    PROVE  LoginIInv'
<1>1. IInv /\ LoginTypeOK /\ Succeed(l) /\ pc[l] = "password" /\ Finish(l)
  BY DEF LoginIInv, Accept, Succeed
<1>2. IInv'
  BY <1>1, SucceedIInv
<1>3. /\ tail[l] = "none" /\ pc'[l] = "idle"
      /\ attempt[l].user # None /\ Untold(l) /\ answer[l] = "none"
      /\ \A x \in Logins \ {l} : req'[x] = req[x] /\ pc'[x] = pc[x]
  BY <1>1, FinishSlots
<1>4. Rewarded(l) \in Device
  BY <1>1, CopyFacts, IncreasedFacts DEF Rewarded
<1>5. PICK enrolled \in BOOLEAN :
        attempt' = [attempt EXCEPT ![l].device = Rewarded(l),
                                   ![l].enrolled = enrolled]
  BY DEF Accept
<1>6. /\ attempt' \in [Logins -> Attempt]
      /\ attempt'[l].user = attempt[l].user
      /\ \A x \in Logins \ {l} : attempt'[x] = attempt[x]
  <2> DEFINE q == Accepted(attempt[l], Rewarded(l), enrolled)
  <2>1. attempt' = [attempt EXCEPT ![l] = q]
    BY <1>5 DEF Accepted
  <2>2. attempt[l] \in Attempt
    BY <1>1 DEF LoginTypeOK
  <2>3. q \in Attempt /\ q.user = attempt[l].user
    BY <1>4, <2>2, AttemptAccepted
  <2> HIDE DEF q
  <2> QED
    BY <1>1, <2>1, <2>3 DEF LoginTypeOK
<1>7. /\ tail' \in [Logins -> {"none", "refuse", "assess", "create", "seal",
                               "log", "answer"}]
      /\ tail'[l] = "assess"
      /\ \A x \in Logins \ {l} : tail'[x] = tail[x]
      /\ UNCHANGED <<session, audit, answer>>
  BY <1>1 DEF Accept, Goto, outcome, LoginTypeOK
<1>8. \A x \in Logins \ {l} : Still(x)
  BY <1>3, <1>6, <1>7 DEF Still
<1>9. Slot(l)'
  BY <1>3, <1>6, <1>7 DEF Slot, Ahead, Untold, Sealed, Told
<1> QED
  BY <1>1, <1>2, <1>3, <1>6, <1>7, <1>8, <1>9, TypeStep DEF LoginTypeOK

-----------------------------------------------------------------------------
(* After the devices table.                                                *)

\* What is known of a login that has something left to do.
LEMMA TailFacts ==
    ASSUME LoginIInv, NEW l \in Logins, tail[l] # "none"
    PROVE  /\ pc[l] = "idle" /\ answer[l] = "none" /\ attempt[l].user # None
           /\ LoginTypeOK /\ Slot(l)
BY DEF LoginIInv, LoginTypeOK, Slot, Ahead

\* A step that stays off the table keeps what DeviceTrust promises of it.
LEMMA TableIInv ==
    ASSUME IInv, UNCHANGED vars
    PROVE  IInv'
BY NextIInv

\* Moving on to a label moves one login only.
LEMMA GotoFacts ==
    ASSUME LoginTypeOK, NEW l \in Logins,
           NEW label \in {"none", "refuse", "assess", "create", "seal",
                          "log", "answer"},
           Goto(l, label)
    PROVE  /\ tail' \in [Logins -> {"none", "refuse", "assess", "create", "seal",
                                    "log", "answer"}]
           /\ tail'[l] = label
           /\ \A x \in Logins \ {l} : tail'[x] = tail[x]
BY DEF LoginTypeOK, Goto

\* The risk engine lets a login on only below the block threshold.
LEMMA AssessIInv ==
    ASSUME LoginIInv, NEW l \in Logins, Assess(l)
    PROVE  LoginIInv'
<1>1. tail[l] = "assess" /\ UNCHANGED vars /\ UNCHANGED outcome
  BY DEF Assess
<1>2. /\ pc[l] = "idle" /\ answer[l] = "none" /\ attempt[l].user # None
      /\ LoginTypeOK /\ Slot(l)
  BY <1>1, TailFacts
<1>3. PICK hour \in Hours :
        LET total == Risk(l, hour) IN
        /\ attempt' = [attempt EXCEPT
                         ![l].device = NewDevice,
                         ![l].risk = IF Blocks(total) THEN 0 ELSE total]
        /\ Goto(l, IF Blocks(total) THEN "refuse" ELSE "create")
  BY Zenon DEF Assess
<1> DEFINE n == IF Blocks(Risk(l, hour)) THEN 0 ELSE Risk(l, hour)
           label == IF Blocks(Risk(l, hour)) THEN "refuse" ELSE "create"
           q == Assessed(attempt[l], NewDevice, n)
<1>4. Risk(l, hour) \in 0..100
  <2>1. attempt[l].device.score \in 0..100 /\ attempt[l].device.trusted \in BOOLEAN
    BY <1>2 DEF LoginTypeOK, Attempt, Device
  <2>2. hour \in 0..23
    BY HoursAssumption
  <2>3. TotalScore(LoginContext(attempt[l].device.score,
                                attempt[l].device.trusted, hour)) \in 0..100
    BY <2>1, <2>2, LoginRisk, Zenon
  <2> QED
    BY <2>3, Zenon DEF Risk
<1>5. /\ n \in 0..100
      /\ label \in {"refuse", "create"}
      /\ label = "create" => n < Block
  BY <1>4, NotBlocked
<1>6. attempt' = [attempt EXCEPT ![l] = q] /\ Goto(l, label)
  BY <1>3 DEF Assessed
<1> HIDE DEF n, label
<1>7. /\ q \in Attempt /\ q.user = attempt[l].user /\ q.risk = n
  <2>1. attempt[l] \in Attempt /\ NewDevice \in Device
    BY <1>2, NewDeviceFacts DEF LoginTypeOK
  <2>2. n \in 0..100
    BY <1>5
  <2> QED
    BY <2>1, <2>2, AttemptAssessed
<1> HIDE DEF q
<1>8. /\ attempt' \in [Logins -> Attempt]
      /\ attempt'[l] = q
      /\ \A x \in Logins \ {l} : attempt'[x] = attempt[x]
  BY <1>2, <1>6, <1>7 DEF LoginTypeOK
<1>9. /\ tail' \in [Logins -> {"none", "refuse", "assess", "create", "seal",
                               "log", "answer"}]
      /\ tail'[l] = label
      /\ \A x \in Logins \ {l} : tail'[x] = tail[x]
  BY <1>2, <1>5, <1>6, GotoFacts
<1>10. UNCHANGED <<pc, req, session, audit, answer>>
  BY <1>1 DEF vars, outcome
<1>11. \A x \in Logins \ {l} : Still(x)
  BY <1>8, <1>9, <1>10 DEF Still
<1>12. Slot(l)'
  BY <1>1, <1>2, <1>5, <1>7, <1>8, <1>9, <1>10
     DEF Slot, Ahead, Untold, Sealed, Told
<1>13. IInv'
  BY <1>1, TableIInv DEF LoginIInv
<1> QED
  BY <1>2, <1>8, <1>9, <1>10, <1>11, <1>12, <1>13, TypeStep DEF LoginTypeOK

\* A step past the verdict touches the session of one login, or what is said
\* of it, and moves it on.
LEMMA TailStep ==
    ASSUME LoginIInv, NEW l \in Logins, tail[l] # "none",
           UNCHANGED <<vars, attempt>>,
           NEW label \in {"none", "seal", "log", "answer"},
           Goto(l, label),
           NEW s \in Session, session' = [session EXCEPT ![l] = s],
           NEW row \in {"none", "success", "failure"},
           audit' = [audit EXCEPT ![l] = row],
           NEW told \in {"none", "token", "refused"},
           answer' = [answer EXCEPT ![l] = told],
           label # "none" => told = "none",
           label = "seal" => s.user = attempt[l].user,
           label \in {"seal", "log"} => row = "none",
           label \in {"log", "answer"} => s = Final(l),
           label # "none" => attempt[l].risk < Block,
           row = "success" => s = Final(l) /\ label \in {"answer", "none"},
           row = "failure" => s = NoSession /\ told = "refused",
           told = "token" => s = Final(l) /\ attempt[l].risk < Block
    PROVE  LoginIInv'
<1>1. /\ pc[l] = "idle" /\ attempt[l].user # None
      /\ LoginTypeOK /\ Slot(l)
  BY TailFacts
<1>2. /\ session' \in [Logins -> Session] /\ session'[l] = s
      /\ audit' \in [Logins -> {"none", "success", "failure"}] /\ audit'[l] = row
      /\ answer' \in [Logins -> {"none", "token", "refused"}] /\ answer'[l] = told
      /\ \A x \in Logins \ {l} : /\ session'[x] = session[x]
                                 /\ audit'[x] = audit[x] /\ answer'[x] = answer[x]
  BY <1>1 DEF LoginTypeOK
<1>3. /\ tail' \in [Logins -> {"none", "refuse", "assess", "create", "seal",
                               "log", "answer"}]
      /\ tail'[l] = label
      /\ \A x \in Logins \ {l} : tail'[x] = tail[x]
  BY <1>1, GotoFacts
<1>4. UNCHANGED <<pc, req, attempt>>
  BY DEF vars
<1>5. \A x \in Logins \ {l} : Still(x)
  BY <1>2, <1>3, <1>4 DEF Still
<1>6. Slot(l)'
  BY <1>1, <1>2, <1>3, <1>4 DEF Slot, Ahead, Untold, Sealed, Told, Final
<1>7. IInv'
  BY TableIInv DEF LoginIInv
<1> QED
  BY <1>1, <1>2, <1>3, <1>4, <1>5, <1>6, <1>7, TypeStep DEF LoginTypeOK

\* Session, audit row and answer of a login keep their types, and a step that
\* leaves one alone writes back what was there.
LEMMA Rewrite ==
    ASSUME LoginTypeOK, NEW l \in Logins
    PROVE  /\ session[l] \in Session
           /\ audit[l] \in {"none", "success", "failure"}
           /\ answer[l] \in {"none", "token", "refused"}
           /\ session = [session EXCEPT ![l] = session[l]]
           /\ audit = [audit EXCEPT ![l] = audit[l]]
           /\ answer = [answer EXCEPT ![l] = answer[l]]
BY DEF LoginTypeOK

\* The session exists, and is not final yet.
LEMMA CreateSessionIInv ==
    ASSUME LoginIInv, NEW l \in Logins, CreateSession(l)
    PROVE  LoginIInv'
<1>1. tail[l] = "create" /\ UNCHANGED <<vars, attempt, audit, answer>>
      /\ Goto(l, "seal")
  BY DEF CreateSession
<1>2. answer[l] = "none" /\ LoginTypeOK /\ Slot(l)
  BY <1>1, TailFacts
<1>3. PICK s : s = [NoSession EXCEPT !.user = attempt[l].user]
  OBVIOUS
<1>4. s \in Session /\ s.user = attempt[l].user
  <2>1. attempt[l].user \in Users \union {None}
    BY <1>2 DEF LoginTypeOK, Attempt
  <2>2. \A x \in Session, u \in Users \union {None} :
          [x EXCEPT !.user = u] \in Session /\ [x EXCEPT !.user = u].user = u
    BY DEF Session
  <2> QED
    BY <1>3, <2>1, <2>2, EmptyTypes
<1>5. session' = [session EXCEPT ![l] = s]
  BY <1>3 DEF CreateSession
<1>6. audit[l] = "none" /\ attempt[l].risk < Block
  BY <1>1, <1>2 DEF Slot, Ahead, Untold, Sealed
<1>7. audit' = [audit EXCEPT ![l] = "none"] /\ answer' = [answer EXCEPT ![l] = "none"]
  BY <1>1, <1>2, <1>6, Rewrite
<1> QED
  BY <1>1, <1>4, <1>5, <1>6, <1>7, TailStep

\* update_session makes it final.
LEMMA SealSessionIInv ==
    ASSUME LoginIInv, NEW l \in Logins, SealSession(l)
    PROVE  LoginIInv'
<1>1. tail[l] = "seal" /\ UNCHANGED <<vars, attempt, audit, answer>>
      /\ Goto(l, "log")
  BY DEF SealSession
<1>2. answer[l] = "none" /\ LoginTypeOK /\ Slot(l)
  BY <1>1, TailFacts
<1>3. /\ audit[l] = "none" /\ attempt[l].risk < Block
      /\ session[l].user = attempt[l].user
  BY <1>1, <1>2 DEF Slot, Sealed
<1>4. PICK s : s = [session[l] EXCEPT !.mfa = attempt[l].enrolled,
                                      !.risk = attempt[l].risk]
  OBVIOUS
<1>5. s \in Session /\ s = Final(l)
  <2>1. attempt[l].enrolled \in BOOLEAN /\ attempt[l].risk \in 0..100
    BY <1>2 DEF LoginTypeOK, Attempt
  <2>2. session[l] \in Session
    BY <1>2 DEF LoginTypeOK
  <2>3. s \in Session
    BY <1>4, <2>1, <2>2 DEF Session
  <2>4. s.user = attempt[l].user /\ s.mfa = attempt[l].enrolled
        /\ s.risk = attempt[l].risk
    BY <1>3, <1>4, <2>2 DEF Session
  <2> QED
    BY <2>3, <2>4 DEF Session, Final
<1>6. session' = [session EXCEPT ![l] = s]
  BY <1>4 DEF SealSession
<1>7. audit' = [audit EXCEPT ![l] = "none"] /\ answer' = [answer EXCEPT ![l] = "none"]
  BY <1>1, <1>2, <1>3, Rewrite
<1> QED
  BY <1>1, <1>3, <1>5, <1>6, <1>7, TailStep

\* The success row is written of a final session.
LEMMA LogSuccessIInv ==
    ASSUME LoginIInv, NEW l \in Logins, LogSuccess(l)
    PROVE  LoginIInv'
<1>1. tail[l] = "log" /\ UNCHANGED <<vars, attempt, session, answer>>
      /\ Goto(l, "answer")
  BY DEF LogSuccess
<1>2. answer[l] = "none" /\ LoginTypeOK /\ Slot(l)
  BY <1>1, TailFacts
<1>3. session[l] = Final(l) /\ attempt[l].risk < Block
  BY <1>1, <1>2 DEF Slot, Sealed
<1>4. PICK row \in {"success", "none"} : audit' = [audit EXCEPT ![l] = row]
  BY DEF LogSuccess
<1>5. /\ session[l] \in Session
      /\ session' = [session EXCEPT ![l] = session[l]]
      /\ answer' = [answer EXCEPT ![l] = "none"]
  BY <1>1, <1>2, Rewrite
<1> QED
  BY <1>1, <1>3, <1>4, <1>5, TailStep

\* The token names it.
LEMMA AnswerIInv ==
    ASSUME LoginIInv, NEW l \in Logins, Answer(l)
    PROVE  LoginIInv'
<1>1. tail[l] = "answer" /\ UNCHANGED <<vars, attempt, session, audit>>
      /\ Goto(l, "none") /\ answer' = [answer EXCEPT ![l] = "token"]
  BY DEF Answer
<1>2. answer[l] = "none" /\ LoginTypeOK /\ Slot(l)
  BY <1>1, TailFacts
<1>3. session[l] = Final(l) /\ attempt[l].risk < Block
  BY <1>1, <1>2 DEF Slot, Sealed
<1>4. /\ session[l] \in Session /\ audit[l] \in {"none", "success", "failure"}
      /\ audit[l] # "failure"
      /\ session' = [session EXCEPT ![l] = session[l]]
      /\ audit' = [audit EXCEPT ![l] = audit[l]]
  BY <1>1, <1>2, Rewrite DEF Slot, Told
<1> QED
  BY <1>1, <1>3, <1>4, TailStep

\* A refusal is logged of a login that has no session.
LEMMA RefuseIInv ==
    ASSUME LoginIInv, NEW l \in Logins, Refuse(l)
    PROVE  LoginIInv'
<1>1. tail[l] = "refuse" /\ UNCHANGED <<vars, attempt, session>>
      /\ Goto(l, "none") /\ answer' = [answer EXCEPT ![l] = "refused"]
  BY DEF Refuse
<1>2. LoginTypeOK /\ Slot(l)
  BY <1>1, TailFacts
<1>3. session[l] = NoSession
  BY <1>1, <1>2 DEF Slot, Ahead, Untold
<1>4. PICK row \in {"failure", "none"} : audit' = [audit EXCEPT ![l] = row]
  BY DEF Refuse
<1>5. session[l] \in Session /\ session' = [session EXCEPT ![l] = session[l]]
  BY <1>1, <1>2, Rewrite
<1> QED
  BY <1>1, <1>3, <1>4, <1>5, TailStep

\* A login that is cut short has told its client nothing it has to take back.
LEMMA DropIInv ==
    ASSUME LoginIInv, NEW l \in Logins, Drop(l)
    PROVE  LoginIInv'
<1>1. tail[l] # "none" /\ UNCHANGED <<vars, attempt, session, audit>>
      /\ Goto(l, "none") /\ answer' = [answer EXCEPT ![l] = "refused"]
  BY DEF Drop
<1>2. LoginTypeOK /\ Slot(l)
  BY <1>1, TailFacts
<1>3. /\ session[l] \in Session /\ audit[l] \in {"none", "success", "failure"}
      /\ audit[l] = "success" => session[l] = Final(l)
      /\ audit[l] = "failure" => session[l] = NoSession
      /\ session' = [session EXCEPT ![l] = session[l]]
      /\ audit' = [audit EXCEPT ![l] = audit[l]]
  BY <1>1, <1>2, Rewrite DEF Slot, Told
<1> QED
  BY <1>1, <1>3, TailStep

\* The invariant is inductive.
LEMMA LoginNextIInv == LoginIInv /\ [LoginNext]_loginVars => LoginIInv'
<1> SUFFICES ASSUME LoginIInv, [LoginNext]_loginVars
             PROVE  LoginIInv'
  OBVIOUS
<1>1. CASE UNCHANGED loginVars
  <2>1. /\ UNCHANGED vars
        /\ UNCHANGED <<pc, req, tail, attempt, session, audit, answer>>
    BY <1>1 DEF loginVars, vars, outcome
  <2>2. IInv'
    BY <2>1, TableIInv DEF LoginIInv
  <2>3. LoginTypeOK'
    BY <2>1 DEF LoginIInv, LoginTypeOK
  <2>4. ASSUME NEW x \in Logins
        PROVE  Slot(x)'
    BY <2>1, StillSlot DEF LoginIInv, Still
  <2> QED
    BY <2>2, <2>3, <2>4 DEF LoginIInv
<1>2. CASE LoginNext
  BY <1>2, BeginLoginIInv, FindDeviceIInv, RejectIInv, WithdrawIInv, AcceptIInv,
     AssessIInv, CreateSessionIInv, SealSessionIInv, LogSuccessIInv, AnswerIInv,
     RefuseIInv, DropIInv
     DEF LoginNext
<1> QED
  BY <1>1, <1>2

-----------------------------------------------------------------------------
(* Theorems.                                                               *)

\* Each step of a login is one of DeviceTrust's or leaves its variables alone, by
\* the way Login is composed; the lemma carries DeviceTrust's theorems over.
LEMMA LoginImpliesSpec == LoginSpec => Spec
BY LoginInitInit, LoginNextNext, PTL DEF LoginSpec, Spec

\* So the columns of a device agree, trust takes three successes, and the trust
\* a login starts from is its own, in the whole of handle_login too.
THEOREM LoginKeepsDevices ==
    LoginSpec => [](TypeOK /\ TrustMatchesScore /\ TrustIsEarned /\ HistoryIsOwn)
BY LoginImpliesSpec, TypeCorrect, TrustAgrees, TrustEarned, HistoryOwn, PTL

\* What is known at each stage of a login's tail, in every reachable state.
THEOREM LoginIInvAlways == LoginSpec => []LoginIInv
BY LoginInitIInv, LoginNextIInv, PTL DEF LoginSpec

\* Every variable keeps its type, and a login does one thing at a time.
THEOREM LoginTypeCorrect == LoginSpec => []LoginTypeOK
<1>1. LoginIInv => LoginTypeOK
  BY DEF LoginIInv
<1> QED
  BY <1>1, LoginIInvAlways, PTL

\* A client that holds a token had a session written, sealed with the MFA flag
\* and the score of this very login, and the score was below the threshold.
THEOREM TokensBacked == LoginSpec => []TokenIsBacked
<1>1. LoginIInv => TokenIsBacked
  BY DEF LoginIInv, Slot, Told, Final, TokenIsBacked
<1> QED
  BY <1>1, LoginIInvAlways, PTL

\* The audit log never says success of a session that is not final, nor failure
\* of a login that has left a session or a token.
THEOREM LoginAuditAgreesAlways == LoginSpec => []LoginAuditAgrees
<1>1. ASSUME NEW l \in Logins
      PROVE  Final(l).user = attempt[l].user /\ Final(l).mfa = attempt[l].enrolled
  BY DEF Final
<1>2. LoginIInv => LoginAuditAgrees
  BY <1>1 DEF LoginIInv, Slot, Told, LoginAuditAgrees
<1> QED
  BY <1>2, LoginIInvAlways, PTL
=============================================================================
