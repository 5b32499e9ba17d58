------------------------- MODULE DeviceTrustProofs -------------------------
(***************************************************************************)
(* Proofs about DeviceTrust, for every set of accounts and fingerprints    *)
(* and every number of concurrent logins.                                  *)
(***************************************************************************)
EXTENDS DeviceTrust, TLAPS

-----------------------------------------------------------------------------
(* What an adjustment of the trust score does.                             *)

\* The score and the flag of a device agree.
Agrees(d) == d.trusted <=> d.score >= Threshold

\* increase_trust stays in range, keeps score and flag in agreement and adds
\* at most the reward.
LEMMA IncreasedFacts ==
    ASSUME NEW d \in Device, Agrees(d)
    PROVE  /\ Increased(d) \in Device
           /\ Agrees(Increased(d))
           /\ Increased(d).score <= d.score + Reward
<1> DEFINE n == IF d.score + Reward < 100 THEN d.score + Reward ELSE 100
<1>1. d.score \in 0..100 /\ d.trusted \in BOOLEAN
  BY DEF Device
<1>2. /\ n \in 0..100
      /\ n <= d.score + Reward
      /\ d.score >= Threshold => n >= Threshold
  BY <1>1 DEF Reward, Threshold
<1>3. /\ Increased(d).score = n
      /\ Increased(d).trusted <=> (d.trusted \/ n >= Threshold)
      /\ Increased(d) = [score |-> n, trusted |-> d.trusted \/ n >= Threshold]
  BY DEF Increased
<1> HIDE DEF n
<1>4. Increased(d) \in Device
  BY <1>1, <1>2, <1>3 DEF Device
<1>5. Agrees(Increased(d))
  BY <1>2, <1>3 DEF Agrees
<1> QED
  BY <1>2, <1>3, <1>4, <1>5

\* decrease_trust stays in range, keeps the agreement and adds nothing.
LEMMA DecreasedFacts ==
    ASSUME NEW d \in Device, Agrees(d)
    PROVE  /\ Decreased(d) \in Device
           /\ Agrees(Decreased(d))
           /\ Decreased(d).score <= d.score
<1> DEFINE n == IF d.score > Penalty THEN d.score - Penalty ELSE 0
<1>1. d.score \in 0..100 /\ d.trusted \in BOOLEAN
  BY DEF Device
<1>2. /\ n \in 0..100
      /\ n <= d.score
      /\ n >= Threshold => d.score >= Threshold
  BY <1>1 DEF Penalty, Threshold
<1>3. /\ Decreased(d).score = n
      /\ Decreased(d).trusted <=> (d.trusted /\ n >= Threshold)
      /\ Decreased(d) = [score |-> n, trusted |-> d.trusted /\ n >= Threshold]
  BY DEF Decreased
<1> HIDE DEF n
<1>4. Decreased(d) \in Device
  BY <1>1, <1>2, <1>3 DEF Device
<1>5. Agrees(Decreased(d))
  BY <1>2, <1>3 DEF Agrees
<1> QED
  BY <1>2, <1>3, <1>4, <1>5

\* DeviceFingerprint::new makes a device in range, in agreement, not trusted.
LEMMA NewDeviceFacts ==
    NewDevice \in Device /\ Agrees(NewDevice) /\ NewDevice.score = Neutral
BY DEF Device, Agrees, NewDevice, Neutral, Threshold

-----------------------------------------------------------------------------
(* The inductive invariant.                                                *)

\* After w successful logins, as long as they are fewer than MaxWins: the first
\* found no row and adds nothing, each later one adds the reward once.
Budget(d, w) == w < MaxWins => d.score <= Neutral - Reward + Reward * w

\* More successes, more budget.
LEMMA BudgetGrows ==
    ASSUME NEW d \in Device, NEW w \in Nat, NEW v \in Nat, w <= v, Budget(d, w)
    PROVE  Budget(d, v)
BY DEF Budget, Device, Neutral, Reward, MaxWins

\* A device that scores no more is within the budget too.
LEMMA BudgetKept ==
    ASSUME NEW d \in Device, NEW e \in Device, NEW w \in 0..MaxWins,
           Budget(d, w), e.score <= d.score
    PROVE  Budget(e, w)
<1>0. d.score \in 0..100 /\ e.score \in 0..100
  BY DEF Device
<1>1. PICK old \in 0..100, new \in 0..100 : old = d.score /\ new = e.score
  BY <1>0, Zenon
<1>2. new <= old /\ (w < MaxWins => old <= Neutral - Reward + Reward * w)
  BY <1>1, Zenon DEF Budget
<1>3. w < MaxWins => new <= Neutral - Reward + Reward * w
  BY <1>2 DEF MaxWins, Neutral, Reward
<1> QED
  BY <1>1, <1>3, Zenon DEF Budget

\* A reward is paid for by the success that brings it.
LEMMA BudgetPaid ==
    ASSUME NEW d \in Device, NEW e \in Device, NEW w \in 0..MaxWins,
           Budget(d, w), e.score <= d.score + Reward
    PROVE  Budget(e, IF w < MaxWins THEN w + 1 ELSE MaxWins)
<1>0. d.score \in 0..100 /\ e.score \in 0..100
  BY DEF Device
<1>1. PICK old \in 0..100, new \in 0..100 : old = d.score /\ new = e.score
  BY <1>0, Zenon
<1>2. /\ new <= old + Reward
      /\ w < MaxWins => old <= Neutral - Reward + Reward * w
  BY <1>1, Zenon DEF Budget
<1>3. PICK v \in 0..MaxWins : v = IF w < MaxWins THEN w + 1 ELSE MaxWins
  BY DEF MaxWins
<1>4. v < MaxWins => new <= Neutral - Reward + Reward * v
  BY <1>2, <1>3 DEF MaxWins, Neutral, Reward
<1> QED
  BY <1>1, <1>3, <1>4, Zenon DEF Budget

\* A device cannot score its way to trust within the budget.
LEMMA BudgetShort ==
    ASSUME NEW d \in Device, NEW w \in 0..MaxWins, Budget(d, w),
           d.score >= Threshold
    PROVE  w >= MaxWins
<1>0. d.score \in 0..100
  BY DEF Device
<1>1. PICK n \in 0..100 : n = d.score
  BY <1>0, Zenon
<1>2. n >= Threshold /\ (w < MaxWins => n <= Neutral - Reward + Reward * w)
  BY <1>1, Zenon DEF Budget
<1> QED
  BY <1>2 DEF MaxWins, Neutral, Reward, Threshold

\* A row's score and flag agree, a row nobody has is as new, and one that
\* somebody has is within the budget of its successes.
RowOK(f) ==
    /\ Agrees(rows[f].device)
    /\ rows[f].user = None => rows[f].device = NewDevice
    /\ rows[f].user # None => Budget(rows[f].device, wins[f])

\* A copy is a new device, or comes from a row of the same account.
CopyOK(l) ==
    /\ Agrees(req[l].device)
    /\ ~req[l].found => req[l].device = NewDevice
    /\ req[l].found => /\ req[l].user \in Users
                       /\ req[l].fp \in Fingerprints
                       /\ rows[req[l].fp].user = req[l].user
                       /\ Budget(req[l].device, wins[req[l].fp])

IInv ==
    /\ TypeOK
    /\ \A f \in Fingerprints : RowOK(f)
    /\ \A l \in Logins : CopyOK(l)

\* The invariant holds of an empty table.
LEMMA InitIInv == Init => IInv
BY NewDeviceFacts
   DEF Init, IInv, TypeOK, RowOK, CopyOK, Row, NoRow, Login, NoLogin, MaxWins

\* What every step does to the table as a copy sees it: a row keeps its user,
\* and successes are not forgotten.
Growth ==
    \A f \in Fingerprints :
        /\ rows[f].user # None => rows'[f].user = rows[f].user
        /\ wins'[f] \in Nat /\ wins'[f] >= wins[f]

\* A copy that a step leaves alone stays good, whatever happens to the row.
LEMMA CopyFrame ==
    ASSUME IInv, Growth, NEW l \in Logins, req'[l] = req[l]
    PROVE  CopyOK(l)'
<1>1. CASE ~req[l].found
  BY <1>1 DEF IInv, CopyOK, Agrees
<1>2. CASE req[l].found
  <2>1. /\ req[l].user # None
        /\ wins[req[l].fp] \in Nat
    BY <1>2, NoneAssumption DEF IInv, CopyOK, TypeOK, MaxWins
  <2>2. Budget(req[l].device, wins'[req[l].fp])
    <3>1. /\ wins'[req[l].fp] \in Nat /\ wins'[req[l].fp] >= wins[req[l].fp]
          /\ Budget(req[l].device, wins[req[l].fp])
          /\ req[l].device \in Device
      BY <1>2 DEF IInv, CopyOK, Growth, TypeOK, Login
    <3> QED
      BY <2>1, <3>1, BudgetGrows
  <2> QED
    BY <1>2, <2>1, <2>2 DEF IInv, CopyOK, Growth, Agrees
<1> QED
  BY <1>1, <1>2

\* So does every copy when the login that moves drops its own.
LEMMA FinishCopies ==
    ASSUME IInv, Growth, NEW l \in Logins, Finish(l)
    PROVE  \A x \in Logins : CopyOK(x)'
<1>1. CopyOK(l)'
  BY NewDeviceFacts DEF IInv, TypeOK, Finish, CopyOK, NoLogin, Agrees
<1>2. ASSUME NEW x \in Logins, x # l
      PROVE  CopyOK(x)'
  BY <1>2, CopyFrame DEF IInv, TypeOK, Finish
<1> QED
  BY <1>1, <1>2

\* A login that ends, leaves a slot that is well typed.
LEMMA FinishType ==
    ASSUME TypeOK, NEW l \in Logins, Finish(l)
    PROVE  /\ pc' \in [Logins -> {"idle", "find", "password"}]
           /\ req' \in [Logins -> Login]
           /\ \A x \in Logins : pc'[x] # "idle" => /\ req'[x].user # None
                                                   /\ req'[x].fp # None
BY NewDeviceFacts DEF TypeOK, Finish, Login, NoLogin

\* The upsert of a device within the budget leaves every row in order, and no
\* row changes hands.
LEMMA UpsertRows ==
    ASSUME IInv, NEW u \in Users, NEW f \in Fingerprints, NEW d \in Device,
           Agrees(d), Upsert(u, f, d),
           \A g \in Fingerprints : wins'[g] \in Nat /\ wins'[g] >= wins[g],
           Budget(d, wins'[f])
    PROVE  /\ rows' \in [Fingerprints -> Row]
           /\ Growth
           /\ \A g \in Fingerprints : RowOK(g)'
<1>1. rows[f].user \in Users \union {None}
  BY DEF IInv, TypeOK, Row
<1>2. /\ rows'[f].device = d
      /\ rows'[f].user \in Users
      /\ rows[f].user # None => rows'[f].user = rows[f].user
  BY <1>1 DEF Upsert, IInv, TypeOK
<1>3. \A g \in Fingerprints : g # f => rows'[g] = rows[g]
  BY DEF Upsert, IInv, TypeOK
<1>4. rows' \in [Fingerprints -> Row]
  BY <1>1 DEF Upsert, IInv, TypeOK, Row
<1>5. RowOK(f)'
  BY <1>2, NoneAssumption DEF RowOK, Agrees, Budget
<1>6. ASSUME NEW g \in Fingerprints, g # f
      PROVE  RowOK(g)'
  <2>1. /\ wins[g] \in Nat /\ wins'[g] \in Nat /\ wins'[g] >= wins[g]
        /\ rows[g].device \in Device
    BY DEF IInv, TypeOK, MaxWins, Row
  <2>2. rows[g].user # None => Budget(rows[g].device, wins'[g])
    BY <2>1, BudgetGrows DEF IInv, RowOK
  <2> QED
    BY <1>3, <1>6, <2>2 DEF IInv, RowOK, Agrees, Budget
<1> QED
  BY <1>2, <1>3, <1>4, <1>5, <1>6 DEF Growth

\* Starting a login, which has no device yet, preserves the invariant.
LEMMA BeginIInv ==
    ASSUME IInv, NEW l \in Logins, NEW u \in Users, NEW f \in Fingerprints,
           Begin(l, u, f)
    PROVE  IInv'
<1>1. TypeOK'
  BY NewDeviceFacts, NoneAssumption
     DEF IInv, TypeOK, Begin, Login, NoLogin
<1>2. Growth
  BY DEF Begin, Growth, IInv, TypeOK, MaxWins
<1>3. ASSUME NEW x \in Logins
      PROVE  CopyOK(x)'
  <2>1. CASE x = l
    BY <2>1, NewDeviceFacts DEF IInv, TypeOK, Begin, CopyOK, NoLogin, Agrees
  <2>2. CASE x # l
    BY <1>2, <2>2, CopyFrame DEF IInv, TypeOK, Begin
  <2> QED
    BY <2>1, <2>2
<1>4. \A g \in Fingerprints : RowOK(g)'
  BY DEF IInv, RowOK, Begin, Agrees, Budget
<1> QED
  BY <1>1, <1>3, <1>4 DEF IInv

\* Looking the device up preserves it: what is found is the account's own row.
LEMMA FindIInv ==
    ASSUME IInv, NEW l \in Logins, Find(l)
    PROVE  IInv'
<1> DEFINE u == req[l].user
           f == req[l].fp
<1>1. u \in Users /\ f \in Fingerprints
  BY DEF IInv, TypeOK, Find, Login
<1>2. /\ req'[l].user = u /\ req'[l].fp = f
      /\ req'[l].found = Finds(u, f)
      /\ req'[l].device = IF Finds(u, f) THEN rows[f].device ELSE NewDevice
      /\ \A x \in Logins : x # l => req'[x] = req[x]
  BY DEF IInv, TypeOK, Find, Login
<1>3. req' \in [Logins -> Login]
  <2> DEFINE d == IF Finds(u, f) THEN rows[f].device ELSE NewDevice
             q == [req[l] EXCEPT !.found = Finds(u, f), !.device = d]
  <2>1. d \in Device
    BY <1>1, NewDeviceFacts DEF IInv, TypeOK, Row
  <2>2. Finds(u, f) \in BOOLEAN
    BY DEF Finds
  <2>3. req' = [req EXCEPT ![l] = q]
    BY DEF Find
  <2> HIDE DEF d
  <2>4. q \in Login
    BY <2>1, <2>2 DEF IInv, TypeOK, Login
  <2> QED
    BY <2>3, <2>4 DEF IInv, TypeOK
<1>4. TypeOK'
  BY <1>1, <1>2, <1>3, NoneAssumption DEF IInv, TypeOK, Find
<1>5. Growth
  BY DEF Find, Growth, IInv, TypeOK, MaxWins
<1>6. CopyOK(l)'
  <2>1. CASE Finds(u, f)
    <3>1. /\ req'[l].user = u /\ req'[l].fp = f
          /\ req'[l].found /\ req'[l].device = rows[f].device
          /\ rows' = rows /\ wins' = wins
      BY <1>2, <2>1 DEF Find
    <3>2. rows[f].user = u /\ u # None
      BY <1>1, <2>1, NoneAssumption DEF Finds
    <3>3. Agrees(rows[f].device) /\ Budget(rows[f].device, wins[f])
      BY <1>1, <3>2 DEF IInv, RowOK
    <3> QED
      BY <1>1, <3>1, <3>2, <3>3 DEF CopyOK, Agrees, Budget
  <2>2. CASE ~Finds(u, f)
    BY <1>2, <2>2, NewDeviceFacts DEF CopyOK, Agrees
  <2> QED
    BY <2>1, <2>2
<1>7. \A x \in Logins : CopyOK(x)'
  BY <1>2, <1>5, <1>6, CopyFrame
<1>8. \A g \in Fingerprints : RowOK(g)'
  BY DEF IInv, RowOK, Find, Agrees, Budget
<1> QED
  BY <1>4, <1>7, <1>8 DEF IInv

\* A copy in a handler's hands is a device, and stays within the budget.
LEMMA CopyFacts ==
    ASSUME IInv, NEW l \in Logins, pc[l] = "password"
    PROVE  /\ req[l].user \in Users /\ req[l].fp \in Fingerprints
           /\ req[l].device \in Device /\ Agrees(req[l].device)
           /\ req[l].found => Budget(req[l].device, wins[req[l].fp])
           /\ ~req[l].found => req[l].device = NewDevice
BY DEF IInv, TypeOK, CopyOK, Login

\* A wrong password preserves it: trust goes down.
LEMMA WrongPasswordIInv ==
    ASSUME IInv, NEW l \in Logins, WrongPassword(l)
    PROVE  IInv'
<1> DEFINE d == Decreased(req[l].device)
           f == req[l].fp
<1>1. /\ req[l].user \in Users /\ f \in Fingerprints
      /\ d \in Device /\ Agrees(d)
  BY CopyFacts, DecreasedFacts DEF WrongPassword
<1>2. wins[f] \in 0..MaxWins
  BY <1>1 DEF IInv, TypeOK
<1>3. Budget(d, wins[f])
  <2>1. CASE req[l].found
    <3>1. /\ req[l].device \in Device /\ Budget(req[l].device, wins[f])
          /\ d.score <= req[l].device.score
      BY <2>1, CopyFacts, DecreasedFacts DEF WrongPassword
    <3> HIDE DEF d, f
    <3> QED
      BY <1>1, <1>2, <3>1, BudgetKept
  <2>2. CASE ~req[l].found
    BY <1>2, <2>2, CopyFacts
       DEF WrongPassword, Budget, NewDevice, Decreased,
           Neutral, Reward, Penalty, MaxWins
  <2> QED
    BY <2>1, <2>2
<1>4. /\ rows' \in [Fingerprints -> Row] /\ Growth
      /\ \A g \in Fingerprints : RowOK(g)'
  BY <1>1, <1>3, UpsertRows DEF WrongPassword, IInv, TypeOK, MaxWins
<1>5. TypeOK'
  BY <1>4, FinishType DEF WrongPassword, IInv, TypeOK
<1> QED
  BY <1>4, <1>5, FinishCopies DEF WrongPassword, IInv

\* A login that ends without writing preserves it.
LEMMA GiveUpIInv ==
    ASSUME IInv, NEW l \in Logins, GiveUp(l)
    PROVE  IInv'
<1>1. Growth
  BY DEF GiveUp, Growth, IInv, TypeOK, MaxWins
<1>2. TypeOK'
  BY FinishType DEF GiveUp, IInv, TypeOK
<1>3. \A g \in Fingerprints : RowOK(g)'
  BY DEF IInv, RowOK, GiveUp, Agrees, Budget
<1> QED
  BY <1>1, <1>2, <1>3, FinishCopies DEF GiveUp, IInv

\* A successful login preserves it: the reward, if any, is paid for by the
\* success that is counted in the same step.
LEMMA SucceedIInv ==
    ASSUME IInv, NEW l \in Logins, Succeed(l)
    PROVE  IInv'
<1> DEFINE d == Rewarded(l)
           f == req[l].fp
           w == IF wins[f] < MaxWins THEN wins[f] + 1 ELSE MaxWins
<1>1. req[l].user \in Users /\ f \in Fingerprints
  BY CopyFacts DEF Succeed
<1>2. d \in Device /\ Agrees(d)
  BY CopyFacts, IncreasedFacts DEF Succeed, Rewarded
<1>3. wins[f] \in 0..MaxWins
  BY <1>1 DEF IInv, TypeOK
<1>4. /\ wins' \in [Fingerprints -> 0..MaxWins]
      /\ wins'[f] = w
      /\ \A g \in Fingerprints : wins'[g] \in Nat /\ wins'[g] >= wins[g]
  <2>1. w \in 0..MaxWins /\ w \in Nat /\ w >= wins[f]
    BY <1>3 DEF MaxWins
  <2>2. wins' = [wins EXCEPT ![f] = w]
    BY <1>1 DEF Succeed, IInv, TypeOK
  <2> HIDE DEF w
  <2> QED
    BY <1>1, <2>1, <2>2 DEF IInv, TypeOK, MaxWins
<1>5. Budget(d, w)
  <2>1. CASE req[l].found
    <3>1. /\ req[l].device \in Device /\ Budget(req[l].device, wins[f])
          /\ d.score <= req[l].device.score + Reward
      BY <2>1, CopyFacts, IncreasedFacts DEF Succeed, Rewarded
    <3> HIDE DEF d, f
    <3> QED
      BY <1>2, <1>3, <3>1, BudgetPaid
  <2>2. CASE ~req[l].found
    <3>1. d = NewDevice
      BY <2>2, CopyFacts DEF Succeed, Rewarded
    <3> QED
      BY <1>3, <3>1 DEF Budget, MaxWins, Neutral, Reward, NewDevice
  <2> QED
    BY <2>1, <2>2
<1>6. /\ rows' \in [Fingerprints -> Row] /\ Growth
      /\ \A g \in Fingerprints : RowOK(g)'
  <2>1. Upsert(req[l].user, f, d)
    BY DEF Succeed
  <2> HIDE DEF d, w
  <2> QED
    BY <1>1, <1>2, <1>4, <1>5, <2>1, UpsertRows
<1>7. known' \in [Fingerprints -> SUBSET Users]
  BY <1>1 DEF Succeed, IInv, TypeOK
<1>8. TypeOK'
  BY <1>4, <1>6, <1>7, FinishType DEF Succeed, IInv, TypeOK
<1> QED
  BY <1>6, <1>8, FinishCopies DEF Succeed, IInv

\* The invariant is inductive.
LEMMA NextIInv == IInv /\ [Next]_vars => IInv'
<1> SUFFICES ASSUME IInv, [Next]_vars
             PROVE  IInv'
  OBVIOUS
<1>1. CASE UNCHANGED vars
  BY <1>1 DEF vars, IInv, TypeOK, RowOK, CopyOK, Agrees, Budget
<1>2. CASE Next
  BY <1>2, BeginIInv, FindIInv, WrongPasswordIInv, GiveUpIInv, SucceedIInv
     DEF Next
<1> QED
  BY <1>1, <1>2

-----------------------------------------------------------------------------
(* Theorems.                                                               *)

\* Scores and budgets are kept in every reachable state.
THEOREM IInvAlways == Spec => []IInv
BY InitIInv, NextIInv, PTL DEF Spec

\* Every variable keeps its type, and every stored score passes the CHECK of
\* the trust_score column.
THEOREM TypeCorrect == Spec => []TypeOK
<1>1. IInv => TypeOK
  BY DEF IInv
<1> QED
  BY <1>1, IInvAlways, PTL

\* is_trusted and trust_score agree in every row and in every handler's copy.
THEOREM TrustAgrees == Spec => []TrustMatchesScore
<1>1. IInv => TrustMatchesScore
  BY DEF IInv, RowOK, CopyOK, Agrees, TrustMatchesScore
<1> QED
  BY <1>1, IInvAlways, PTL

\* However many logins race on a row, a device is not trusted before the third
\* successful login from it.
THEOREM TrustEarned == Spec => []TrustIsEarned
<1>1. ASSUME IInv, NEW f \in Fingerprints, rows[f].device.trusted
      PROVE  wins[f] >= MaxWins
  <2>1. rows[f].device.score >= Threshold /\ rows[f].device \in Device
    BY <1>1 DEF IInv, RowOK, Agrees, TypeOK, Row, Device
  <2>2. rows[f].user # None
    BY <1>1, <2>1 DEF IInv, RowOK, NewDevice, Neutral, Threshold
  <2>3. Budget(rows[f].device, wins[f]) /\ wins[f] \in 0..MaxWins
    BY <1>1, <2>2 DEF IInv, RowOK, TypeOK
  <2> QED
    BY <2>1, <2>3, BudgetShort
<1>2. IInv => TrustIsEarned
  BY <1>1 DEF TrustIsEarned
<1> QED
  BY <1>2, IInvAlways, PTL

\* A login never works with the trust of a row that is another account's.
THEOREM HistoryOwn == Spec => []HistoryIsOwn
<1>1. ASSUME IInv, NEW l \in Logins
      PROVE  req[l].found => rows[req[l].fp].user = req[l].user
  <2>1. CopyOK(l)
    BY <1>1 DEF IInv
  <2> QED
    BY <2>1, Zenon DEF CopyOK
<1>2. IInv => HistoryIsOwn
  BY <1>1, Zenon DEF HistoryIsOwn
<1> QED
  BY <1>2, IInvAlways, PTL

-----------------------------------------------------------------------------
(* Shared machines.                                                        *)

\* A row does not change hands: the upsert of another account's login writes
\* its device, not its user.
LEMMA RowsKeepUser ==
    ASSUME IInv, [Next]_vars, NEW f \in Fingerprints, rows[f].user # None
    PROVE  rows'[f].user = rows[f].user
<1>1. ASSUME NEW u, NEW g, NEW d, Upsert(u, g, d)
      PROVE  rows'[f].user = rows[f].user
  BY <1>1 DEF Upsert, IInv, TypeOK, Row
<1> QED
  BY <1>1 DEF Next, vars, Begin, Find, WrongPassword, GiveUp, Succeed

\* Once a machine's row is one account's, no other account ever finds its device
\* there, however often it logs in: the lookup is by user and fingerprint, the
\* conflict target of the upsert by fingerprint alone.
THEOREM SecondAccountNeverFound ==
    ASSUME NEW u \in Users, NEW f \in Fingerprints
    PROVE  Spec => [](rows[f].user \notin {None, u} => []~Finds(u, f))
<1> DEFINE Taken == rows[f].user \notin {None, u}
<1>1. IInv /\ Taken /\ [Next]_vars => Taken'
  BY RowsKeepUser
<1>2. Taken => ~Finds(u, f)
  BY DEF Finds
<1> HIDE DEF Taken
<1>3. Spec => [](Taken => []~Finds(u, f))
  BY <1>1, <1>2, IInvAlways, PTL DEF Spec
<1> QED
  BY <1>3 DEF Taken

\* A wrong password raises the trust of a device only by overwriting a row with
\* a copy that is not what the row holds any more: one that another login has
\* changed since the lookup, or that belongs to another account.
THEOREM FailureRaisesByOtherCopyOnly ==
    Spec => [][\A l \in Logins, f \in Fingerprints :
                 WrongPassword(l) /\ rows'[f].device.score > rows[f].device.score
                     => f = req[l].fp /\ req[l].device # rows[f].device]_vars
<1>1. ASSUME IInv, NEW l \in Logins, NEW f \in Fingerprints, WrongPassword(l),
             rows'[f].device.score > rows[f].device.score
      PROVE  f = req[l].fp /\ req[l].device # rows[f].device
  <2> DEFINE d == Decreased(req[l].device)
  <2>1. /\ req[l].fp \in Fingerprints
        /\ req[l].device \in Device /\ Agrees(req[l].device)
    BY <1>1, CopyFacts DEF WrongPassword
  <2>2. d \in Device /\ d.score <= req[l].device.score
    BY <2>1, DecreasedFacts
  <2>3. Upsert(req[l].user, req[l].fp, d)
    BY <1>1 DEF WrongPassword
  <2> HIDE DEF d
  <2>4. /\ rows'[req[l].fp].device = d
        /\ f # req[l].fp => rows'[f] = rows[f]
    BY <1>1, <2>1, <2>3 DEF Upsert, IInv, TypeOK
  <2>5. rows[f].device.score \in 0..100
    BY <1>1 DEF IInv, TypeOK, Row, Device
  <2>6. f = req[l].fp
    BY <1>1, <2>4, <2>5
  <2>7. d.score > rows[f].device.score
    BY <1>1, <2>4, <2>6
  <2>8. ~(d.score <= rows[f].device.score)
    <3>1. PICK raised \in 0..100 : raised = d.score
      BY <2>2 DEF Device
    <3>2. PICK held \in 0..100 : held = rows[f].device.score
      BY <2>5
    <3>3. raised > held
      BY <2>7, <3>1, <3>2, Zenon
    <3>4. ~(raised <= held)
      BY <3>3
    <3> QED
      BY <3>1, <3>2, <3>4, Zenon
  <2> QED
    BY <2>2, <2>6, <2>8
<1>2. IInv /\ [Next]_vars =>
        [\A l \in Logins, f \in Fingerprints :
           WrongPassword(l) /\ rows'[f].device.score > rows[f].device.score
               => f = req[l].fp /\ req[l].device # rows[f].device]_vars
  BY <1>1
<1> QED
  BY <1>2, IInvAlways, PTL DEF Spec
=============================================================================
