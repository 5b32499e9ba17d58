-------------------------- MODULE PasskeysProofs ---------------------------
(***************************************************************************)
(* Proofs about Passkeys, for both stores, every set of credentials, every *)
(* number of ceremonies under way and every range of the counters: no      *)
(* stored sign counter runs ahead of its authenticator, a deleted passkey  *)
(* neither signs in nor comes back, and a stored counter, which does fall, *)
(* falls only in the ways CounterFallsByStaleCopyOnly names.               *)
(***************************************************************************)
EXTENDS Passkeys, TLAPS

-----------------------------------------------------------------------------
(* The inductive invariant.                                                *)

\* Everything a ceremony holds was said by an authenticator at some time, and
\* authenticators count upwards: nothing it holds is ahead of one.
Behind(k) ==
    /\ \A c \in Creds : req[k].allow[c] <= device[c]
    /\ pc[k] \in {"save", "find", "refresh", "signed_in"} =>
         /\ req[k].cred \in Creds
         /\ req[k].counter <= device[req[k].cred]
    /\ pc[k] = "refresh" => req[k].copy <= device[req[k].cred]

IInv ==
    /\ TypeOK
    /\ \A k \in Ceremonies : Behind(k)

\* A ceremony that waits for nothing holds nothing.
LEMMA NoCeremonyType == NoCeremony \in Ceremony
BY MaxCounterAssumption DEF NoCeremony, Ceremony, Rows, Counter

\* The invariant holds of a store without passkeys.
LEMMA InitIInv == Init => IInv
<1> SUFFICES ASSUME Init
             PROVE  IInv
  OBVIOUS
<1>1. TypeOK
  BY NoCeremonyType, MaxCounterAssumption
     DEF TypeOK, Init, Rows, NoRow, Counter
<1>2. \A k \in Ceremonies : Behind(k)
  BY DEF Behind, Init, NoCeremony, NoRow
<1> QED
  BY <1>1, <1>2 DEF IInv

\* Authenticators never count back.
CountsUp ==
    /\ device' \in [Creds -> Counter]
    /\ \A c \in Creds : device[c] <= device'[c]

\* A step that leaves the authenticators alone counts nothing back.
LEMMA SameDevice ==
    ASSUME TypeOK, device' = device
    PROVE  CountsUp
BY DEF CountsUp, TypeOK, Counter

\* A ceremony that a step leaves alone holds nothing that is ahead after it.
LEMMA BehindFrame ==
    ASSUME IInv, CountsUp, NEW k \in Ceremonies,
           req'[k] = req[k], pc'[k] = pc[k]
    PROVE  Behind(k)'
<1>1. /\ Behind(k)
      /\ req[k].allow \in Rows /\ req[k].counter \in Counter
      /\ req[k].copy \in Counter
      /\ \A c \in Creds : device[c] \in Counter /\ device'[c] \in Counter
      /\ \A c \in Creds : device[c] <= device'[c]
  BY DEF IInv, TypeOK, Ceremony, CountsUp
<1>2. \A c \in Creds : req[k].allow[c] \in {NoRow} \union Counter
  BY <1>1 DEF Rows
<1> QED
  BY <1>1, <1>2 DEF Behind, Counter, NoRow

\* A step that moves one ceremony on keeps the invariant if what the ceremony
\* takes along, and what the store holds, are not ahead of the authenticators.
LEMMA ProceedIInv ==
    ASSUME IInv, CountsUp, NEW k \in Ceremonies, NEW q \in Ceremony,
           NEW label \in {"idle", "registering", "save", "authenticating",
                          "find", "refresh", "signed_in"},
           Proceed(k, q, label), backend' = backend,
           store' \in Rows, \A c \in Creds : store'[c] <= device'[c],
           \A c \in Creds : q.allow[c] <= device'[c],
           label \in {"save", "find", "refresh", "signed_in"} =>
               q.cred \in Creds /\ q.counter <= device'[q.cred],
           label = "refresh" => q.copy <= device'[q.cred]
    PROVE  IInv'
<1>1. /\ req' \in [Ceremonies -> Ceremony] /\ req'[k] = q
      /\ pc' \in [Ceremonies -> {"idle", "registering", "save", "authenticating",
                                 "find", "refresh", "signed_in"}]
      /\ pc'[k] = label
      /\ \A x \in Ceremonies \ {k} : req'[x] = req[x] /\ pc'[x] = pc[x]
  BY DEF IInv, TypeOK, Proceed
<1>2. TypeOK'
  BY <1>1 DEF IInv, TypeOK, CountsUp
<1>3. Behind(k)'
  BY <1>1 DEF Behind
<1>4. \A x \in Ceremonies : Behind(x)'
  BY <1>1, <1>3, BehindFrame
<1> QED
  BY <1>2, <1>4 DEF IInv

\* A ceremony started anew is allowed nothing.
LEMMA NothingAllowed ==
    ASSUME TypeOK
    PROVE  \A c \in Creds : NoCeremony.allow[c] <= device[c]
<1> TAKE c \in Creds
<1>1. NoCeremony.allow[c] = NoRow
  BY DEF NoCeremony
<1>2. NoRow <= device[c]
  BY DEF NoRow, TypeOK, Counter
<1> QED
  BY <1>1, <1>2

\* A ceremony that ends takes nothing along.
LEMMA FinishIInv ==
    ASSUME IInv, NEW k \in Ceremonies, Finish(k), backend' = backend,
           device' = device,
           store' \in Rows, \A c \in Creds : store'[c] <= device[c]
    PROVE  IInv'
<1>1. CountsUp
  BY SameDevice DEF IInv
<1>2. \A c \in Creds : NoCeremony.allow[c] <= device[c]
  BY NothingAllowed DEF IInv
<1> QED
  BY <1>1, <1>2, NoCeremonyType, ProceedIInv DEF Finish

\* The types of what a ceremony holds, and of the store.
LEMMA HeldTypes ==
    ASSUME IInv, NEW k \in Ceremonies
    PROVE  /\ store \in Rows /\ device \in [Creds -> Counter]
           /\ \A c \in Creds : /\ store[c] \in {NoRow} \union Counter
                               /\ device[c] \in Counter
                               /\ store[c] <= device[c]
           /\ req[k] \in Ceremony
           /\ req[k].allow \in Rows /\ req[k].counter \in Counter
           /\ req[k].copy \in Counter /\ req[k].exclude \subseteq Creds
           /\ \A c \in Creds : req[k].allow[c] \in {NoRow} \union Counter
BY DEF IInv, TypeOK, Ceremony, Rows

-----------------------------------------------------------------------------
(* Every step preserves it.                                                *)

\* A registration is told of the credentials there are.
LEMMA StartRegistrationIInv ==
    ASSUME IInv, NEW k \in Ceremonies, StartRegistration(k)
    PROVE  IInv'
<1>1. PICK q : q = [NoCeremony EXCEPT !.exclude = Enrolled]
  OBVIOUS
<1>2. /\ q \in Ceremony
      /\ \A c \in Creds : q.allow[c] <= device[c]
  <2>1. Enrolled \in SUBSET Creds
    BY DEF Enrolled
  <2>2. q \in Ceremony /\ q.allow = NoCeremony.allow
    BY <1>1, <2>1, NoCeremonyType DEF Ceremony
  <2> QED
    BY <2>2, NothingAllowed DEF IInv
<1>3. Proceed(k, q, "registering") /\ UNCHANGED <<backend, store, device>>
  BY <1>1 DEF StartRegistration
<1>4. CountsUp
  BY <1>3, SameDevice DEF IInv
<1> QED
  BY <1>2, <1>3, <1>4, ProceedIInv, HeldTypes

\* The authenticator says where its counter is.
LEMMA FinishRegistrationIInv ==
    ASSUME IInv, NEW k \in Ceremonies, FinishRegistration(k)
    PROVE  IInv'
<1>1. PICK c \in Creds :
        Proceed(k, [NoCeremony EXCEPT !.cred = c, !.counter = device[c]], "save")
  BY DEF FinishRegistration
<1>2. PICK q : q = [NoCeremony EXCEPT !.cred = c, !.counter = device[c]]
  OBVIOUS
<1>3. \A d \in Creds : device[d] \in Counter /\ device[d] <= device[d]
  BY DEF IInv, TypeOK, Counter
<1>4. /\ q \in Ceremony /\ q.cred = c /\ q.counter = device[c]
      /\ q.allow = NoCeremony.allow
  BY <1>2, <1>3, NoCeremonyType DEF Ceremony
<1>5. \A d \in Creds : q.allow[d] <= device[d]
  BY <1>4, NothingAllowed DEF IInv
<1>6. Proceed(k, q, "save") /\ UNCHANGED <<backend, store, device>>
  BY <1>1, <1>2 DEF FinishRegistration
<1>7. CountsUp
  BY <1>6, SameDevice DEF IInv
<1>8. q.cred \in Creds /\ q.counter <= device'[q.cred]
  BY <1>3, <1>4, <1>6
<1>9. /\ store' \in Rows /\ backend' = backend
      /\ \A d \in Creds : store'[d] <= device'[d] /\ q.allow[d] <= device'[d]
  BY <1>5, <1>6, HeldTypes
<1> QED
  BY <1>4, <1>6, <1>7, <1>8, <1>9, ProceedIInv

\* What is saved was said by the authenticator.
LEMMA SavePasskeyIInv ==
    ASSUME IInv, NEW k \in Ceremonies, SavePasskey(k)
    PROVE  IInv'
<1> DEFINE c == req[k].cred
           n == req[k].counter
<1>1. c \in Creds /\ n \in Counter /\ n <= device[c]
  BY HeldTypes DEF IInv, Behind, SavePasskey
<1>2. store' = IF Saves(c) THEN [store EXCEPT ![c] = n] ELSE store
  BY DEF SavePasskey
<1>3. store' \in Rows /\ \A d \in Creds : store'[d] <= device[d]
  BY <1>1, <1>2, HeldTypes DEF Rows
<1> QED
  BY <1>3, FinishIInv DEF SavePasskey

\* An authentication takes the rows along as they are.
LEMMA StartAuthenticationIInv ==
    ASSUME IInv, NEW k \in Ceremonies, StartAuthentication(k)
    PROVE  IInv'
<1>1. PICK q : q = [NoCeremony EXCEPT !.allow = store]
  OBVIOUS
<1>2. q \in Ceremony /\ q.allow = store
  BY <1>1, NoCeremonyType, HeldTypes DEF Ceremony
<1>3. Proceed(k, q, "authenticating") /\ UNCHANGED <<backend, store, device>>
  BY <1>1 DEF StartAuthentication
<1>4. CountsUp
  BY <1>3, SameDevice DEF IInv
<1> QED
  BY <1>2, <1>3, <1>4, ProceedIInv, HeldTypes

\* The authenticator counts on as it answers.
LEMMA FinishAuthenticationIInv ==
    ASSUME IInv, NEW k \in Ceremonies, FinishAuthentication(k)
    PROVE  IInv'
<1>1. PICK c \in Creds, n \in Counter :
        /\ n = device[c] + 1 \/ (n = 0 /\ device[c] = 0)
        /\ device' = [device EXCEPT ![c] = n]
        /\ Proceed(k, [req[k] EXCEPT !.cred = c, !.counter = n], "find")
  BY DEF FinishAuthentication
<1>2. PICK q : q = [req[k] EXCEPT !.cred = c, !.counter = n]
  OBVIOUS
<1>3. /\ q \in Ceremony /\ q.cred = c /\ q.counter = n /\ q.allow = req[k].allow
  BY <1>2, HeldTypes DEF Ceremony
<1>4. /\ CountsUp /\ device'[c] = n
      /\ \A d \in Creds : device'[d] \in Counter
  BY <1>1 DEF CountsUp, IInv, TypeOK, Counter
<1>5. /\ \A d \in Creds : req[k].allow[d] <= device'[d]
      /\ \A d \in Creds : store[d] <= device'[d]
  <2>1. \A d \in Creds : /\ req[k].allow[d] <= device[d]
                         /\ store[d] <= device[d]
                         /\ device[d] <= device'[d]
    BY <1>4 DEF IInv, Behind, TypeOK, CountsUp
  <2> QED
    BY <1>4, <2>1, HeldTypes DEF Counter, NoRow
<1>6. Proceed(k, q, "find") /\ UNCHANGED <<backend, store>>
  BY <1>1, <1>2 DEF FinishAuthentication
<1>7. q.counter <= device'[q.cred]
  BY <1>3, <1>4 DEF Counter
<1> QED
  BY <1>3, <1>4, <1>5, <1>6, <1>7, ProceedIInv, HeldTypes

\* A record, read early or late, is not ahead.
LEMMA FindRecordIInv ==
    ASSUME IInv, NEW k \in Ceremonies, FindRecord(k)
    PROVE  IInv'
<1> DEFINE c == req[k].cred
<1>1. c \in Creds /\ req[k].counter <= device[c]
  BY DEF IInv, Behind, FindRecord
<1>2. PICK n \in {req[k].allow[c], store[c]} :
        IF n = NoRow
        THEN Finish(k)
        ELSE Proceed(k, [NoCeremony EXCEPT !.cred = c, !.copy = n,
                                           !.counter = req[k].counter],
                     "refresh")
  BY DEF FindRecord
<1>3. n \in {NoRow} \union Counter /\ n <= device[c]
  BY <1>1, HeldTypes DEF IInv, Behind
<1>4. UNCHANGED <<backend, store, device>>
  BY DEF FindRecord
<1>5. CASE n = NoRow
  BY <1>2, <1>4, <1>5, FinishIInv, HeldTypes
<1>6. CASE n # NoRow
  <2>1. PICK q : q = [NoCeremony EXCEPT !.cred = c, !.copy = n,
                                        !.counter = req[k].counter]
    OBVIOUS
  <2>2. /\ q \in Ceremony /\ q.cred = c /\ q.counter = req[k].counter
        /\ q.copy = n /\ q.allow = NoCeremony.allow
    BY <1>1, <1>3, <1>6, <2>1, NoCeremonyType, HeldTypes DEF Ceremony
  <2>3. Proceed(k, q, "refresh")
    BY <1>2, <1>6, <2>1
  <2>4. \A d \in Creds : q.allow[d] <= device[d]
    BY <2>2, NothingAllowed DEF IInv
  <2>5. CountsUp
    BY <1>4, SameDevice DEF IInv
  <2> HIDE DEF c
  <2> QED
    BY <1>1, <1>3, <1>4, <2>2, <2>3, <2>4, <2>5, ProceedIInv, HeldTypes
<1> QED
  BY <1>5, <1>6

\* Of the record and the assertion the larger counter is stored: neither is
\* ahead of the authenticator.
LEMMA RefreshPasskeyIInv ==
    ASSUME IInv, NEW k \in Ceremonies, RefreshPasskey(k)
    PROVE  IInv'
<1> DEFINE c == req[k].cred
           n == UpdateCredential(req[k].copy, req[k].counter)
           found == RowsAffected(c)
<1>1. /\ c \in Creds
      /\ req[k].counter \in Counter /\ req[k].counter <= device[c]
      /\ req[k].copy \in Counter /\ req[k].copy <= device[c]
  BY HeldTypes DEF IInv, Behind, RefreshPasskey
<1>2. n \in Counter /\ n <= device[c]
  BY <1>1 DEF UpdateCredential
<1>3. /\ store' = [d \in Creds |-> IF d \in found THEN n ELSE store[d]]
      /\ IF found # {} THEN Proceed(k, req[k], "signed_in") ELSE Finish(k)
      /\ UNCHANGED <<backend, device>>
  BY DEF RefreshPasskey
<1>4. found \subseteq {c}
  BY DEF RowsAffected
<1> HIDE DEF n, found
<1>5. store' \in Rows /\ \A d \in Creds : store'[d] <= device[d]
  BY <1>2, <1>3, <1>4, HeldTypes DEF Rows
<1>6. CASE found = {}
  BY <1>3, <1>5, <1>6, FinishIInv
<1>7. CASE found # {}
  <2>1. /\ req[k] \in Ceremony
        /\ Proceed(k, req[k], "signed_in")
        /\ \A d \in Creds : req[k].allow[d] <= device[d]
    BY <1>3, <1>7, HeldTypes DEF IInv, Behind
  <2>2. CountsUp
    BY <1>3, SameDevice DEF IInv
  <2> QED
    BY <1>1, <1>3, <1>5, <2>1, <2>2, ProceedIInv
<1> QED
  BY <1>6, <1>7

\* A row that is gone is ahead of nothing.
LEMMA DeletePasskeyIInv ==
    ASSUME IInv, NEW c \in Creds, DeletePasskey(c)
    PROVE  IInv'
<1>1. store' \in Rows /\ \A d \in Creds : store'[d] <= device[d]
  BY HeldTypes DEF DeletePasskey, Rows, NoRow, Counter, IInv, TypeOK
<1>2. UNCHANGED <<backend, device, pc, req>>
  BY DEF DeletePasskey
<1>3. TypeOK'
  BY <1>1, <1>2 DEF IInv, TypeOK
<1>4. \A k \in Ceremonies : Behind(k)'
  BY <1>2, BehindFrame, SameDevice DEF IInv
<1> QED
  BY <1>3, <1>4 DEF IInv

\* A ceremony that is over holds nothing.
LEMMA EndIInv ==
    ASSUME IInv, NEW k \in Ceremonies, End(k)
    PROVE  IInv'
BY FinishIInv, HeldTypes DEF End

\* After a restart the store is empty and challenges are as they were.
LEMMA RestartIInv ==
    ASSUME IInv, Restart
    PROVE  IInv'
<1>1. /\ store' \in Rows /\ \A c \in Creds : store'[c] <= device[c]
      /\ UNCHANGED <<backend, device>>
  BY DEF Restart, Rows, NoRow, Counter, IInv, TypeOK
<1>2. /\ pc' \in [Ceremonies -> {"idle", "registering", "save", "authenticating",
                                 "find", "refresh", "signed_in"}]
      /\ req' \in [Ceremonies -> Ceremony]
  BY NoCeremonyType DEF Restart, IInv, TypeOK
<1>3. TypeOK'
  BY <1>1, <1>2 DEF IInv, TypeOK
<1>4. ASSUME NEW k \in Ceremonies
      PROVE  Behind(k)'
  <2>1. CASE pc[k] \in {"registering", "authenticating"}
    <3>1. req'[k] = req[k] /\ pc'[k] = pc[k]
      BY <2>1 DEF Restart
    <3> QED
      BY <1>1, <3>1, BehindFrame, SameDevice DEF IInv
  <2>2. CASE pc[k] \notin {"registering", "authenticating"}
    <3>1. req'[k] = NoCeremony /\ pc'[k] = "idle"
      BY <2>2 DEF Restart
    <3>2. \A c \in Creds : req'[k].allow[c] <= device'[c]
      BY <1>1, <3>1, NothingAllowed DEF IInv
    <3> QED
      BY <3>1, <3>2 DEF Behind
  <2> QED
    BY <2>1, <2>2
<1> QED
  BY <1>3, <1>4 DEF IInv

\* The invariant is inductive.
LEMMA NextIInv == IInv /\ [Next]_vars => IInv'
<1> SUFFICES ASSUME IInv, [Next]_vars
             PROVE  IInv'
  OBVIOUS
<1>1. CASE UNCHANGED vars
  BY <1>1 DEF vars, IInv, TypeOK, Behind
<1>2. CASE Next
  BY <1>2, StartRegistrationIInv, FinishRegistrationIInv, SavePasskeyIInv,
     StartAuthenticationIInv, FinishAuthenticationIInv, FindRecordIInv,
     RefreshPasskeyIInv, EndIInv, DeletePasskeyIInv, RestartIInv
     DEF Next
<1> QED
  BY <1>1, <1>2

-----------------------------------------------------------------------------
(* What a step does to the store and to who is signed in.                  *)

\* Nobody but the ceremonies of S signs in.
SignsIn(S) ==
    \A k \in Ceremonies : pc[k] # "signed_in" /\ pc'[k] = "signed_in" => k \in S

\* No ceremony leaves "save" but the ones of S.
LeavesSave(S) ==
    \A k \in Ceremonies : pc[k] = "save" /\ pc'[k] # "save" => k \in S

\* The store stays as it is, and nobody signs in.
Quiet == store' = store /\ SignsIn({})

\* A registration saves the counter of its credential.
Saved(k) ==
    /\ pc[k] = "save" /\ SignsIn({}) /\ LeavesSave({k})
    /\ Saves(req[k].cred)
    /\ store' = [store EXCEPT ![req[k].cred] = req[k].counter]

\* A row that is there gets the larger of two counters, and a user signs in.
Refreshed(k) ==
    /\ pc[k] = "refresh" /\ SignsIn({k}) /\ LeavesSave({})
    /\ req[k].cred \in Enrolled
    /\ store' = [store EXCEPT ![req[k].cred] =
                   UpdateCredential(req[k].copy, req[k].counter)]

\* Rows go, by deletion or by a restart of the in-memory store.
Lost ==
    /\ SignsIn({})
    /\ \A c \in Creds : store'[c] \in {store[c], NoRow}
    /\ LeavesSave({}) \/ backend = "memory"

Effect ==
    \/ Quiet
    \/ \E k \in Ceremonies : Saved(k) \/ Refreshed(k)
    \/ Lost

\* Ceremony k, and no other, moves on to a label.
Moves(k, label) == pc' = [pc EXCEPT ![k] = label]

\* A step of one ceremony moves that ceremony only.
LEMMA ProceedMoves ==
    ASSUME IInv, NEW k \in Ceremonies, NEW label, Moves(k, label)
    PROVE  /\ label # "signed_in" => SignsIn({})
           /\ SignsIn({k})
           /\ LeavesSave({k})
           /\ pc[k] # "save" => LeavesSave({})
<1>1. /\ pc'[k] = label
      /\ \A x \in Ceremonies \ {k} : pc'[x] = pc[x]
  BY DEF IInv, TypeOK, Moves
<1> QED
  BY <1>1 DEF SignsIn, LeavesSave

\* A ceremony that leaves the store alone and does not sign anybody in.
LEMMA ProceedQuietly ==
    ASSUME IInv, NEW k \in Ceremonies, NEW label, label # "signed_in",
           Moves(k, label), store' = store
    PROVE  Quiet
<1>1. /\ pc'[k] = label
      /\ \A x \in Ceremonies \ {k} : pc'[x] = pc[x]
  BY DEF IInv, TypeOK, Moves
<1> QED
  BY <1>1 DEF SignsIn, Quiet

\* Every step has one of these effects.
LEMMA EffectStep ==
    ASSUME IInv, Next
    PROVE  Effect
<1>1. ASSUME NEW k \in Ceremonies, StartRegistration(k)
      PROVE  Quiet
  BY <1>1, ProceedQuietly DEF StartRegistration, Proceed, Moves
<1>2. ASSUME NEW k \in Ceremonies, FinishRegistration(k)
      PROVE  Quiet
  BY <1>2, ProceedQuietly DEF FinishRegistration, Proceed, Moves
<1>3. ASSUME NEW k \in Ceremonies, SavePasskey(k)
      PROVE  Quiet \/ Saved(k)
  <2>1. pc[k] = "save" /\ Moves(k, "idle")
    BY <1>3 DEF SavePasskey, Finish, Proceed, Moves
  <2>2. SignsIn({}) /\ LeavesSave({k})
    BY <2>1, ProceedMoves
  <2> QED
    BY <1>3, <2>1, <2>2 DEF SavePasskey, Quiet, Saved
<1>4. ASSUME NEW k \in Ceremonies, StartAuthentication(k)
      PROVE  Quiet
  BY <1>4, ProceedQuietly DEF StartAuthentication, Proceed, Moves
<1>5. ASSUME NEW k \in Ceremonies, FinishAuthentication(k)
      PROVE  Quiet
  BY <1>5, ProceedQuietly DEF FinishAuthentication, Proceed, Moves
<1>6. ASSUME NEW k \in Ceremonies, FindRecord(k)
      PROVE  Quiet
  <2>1. PICK label \in {"idle", "refresh"} : Moves(k, label)
    BY <1>6 DEF FindRecord, Finish, Proceed, Moves
  <2> QED
    BY <1>6, <2>1, ProceedQuietly DEF FindRecord
<1>7. ASSUME NEW k \in Ceremonies, RefreshPasskey(k)
      PROVE  Quiet \/ Refreshed(k)
  <2> DEFINE found == RowsAffected(req[k].cred)
             n == UpdateCredential(req[k].copy, req[k].counter)
  <2>1. /\ pc[k] = "refresh"
        /\ store' = [c \in Creds |-> IF c \in found THEN n ELSE store[c]]
        /\ IF found # {} THEN Proceed(k, req[k], "signed_in") ELSE Finish(k)
    BY <1>7 DEF RefreshPasskey
  <2>2. CASE found = {}
    <3>1. store' = store
      BY <2>1, <2>2, HeldTypes DEF Rows
    <3>2. Moves(k, "idle")
      BY <2>1, <2>2 DEF Finish, Proceed, Moves
    <3> QED
      BY <3>1, <3>2, ProceedQuietly
  <2>3. CASE found # {}
    <3>1. req[k].cred \in Enrolled /\ found = {req[k].cred}
      BY <2>3 DEF RowsAffected
    <3>2. SignsIn({k}) /\ LeavesSave({})
      BY <2>1, <2>3, ProceedMoves DEF Proceed, Moves
    <3>3. store' = [store EXCEPT ![req[k].cred] = n]
      BY <2>1, <3>1, HeldTypes DEF Rows
    <3> QED
      BY <2>1, <3>1, <3>2, <3>3 DEF Refreshed
  <2> QED
    BY <2>2, <2>3
<1>8. ASSUME NEW k \in Ceremonies, End(k)
      PROVE  Quiet
  BY <1>8, ProceedQuietly DEF End, Finish, Proceed, Moves
<1>9. ASSUME NEW c \in Creds, DeletePasskey(c)
      PROVE  Lost
  BY <1>9 DEF DeletePasskey, Lost, SignsIn, LeavesSave, IInv, TypeOK, Rows
<1>10. ASSUME Restart
       PROVE  Lost
  BY <1>10 DEF Restart, Lost, SignsIn, LeavesSave
<1> QED
  BY <1>1, <1>2, <1>3, <1>4, <1>5, <1>6, <1>7, <1>8, <1>9, <1>10
     DEF Next, Effect

-----------------------------------------------------------------------------
(* Theorems.                                                               *)

\* Nothing a ceremony holds is ahead of an authenticator, in every reachable
\* state.
THEOREM IInvAlways == Spec => []IInv
BY InitIInv, NextIInv, PTL DEF Spec

\* Every variable keeps its type, and no stored counter is ahead of its
\* authenticator: the next assertion is never taken for a clone's.
THEOREM TypeCorrect == Spec => []TypeOK
<1>1. IInv => TypeOK
  BY DEF IInv
<1> QED
  BY <1>1, IInvAlways, PTL

\* update_passkey never inserts: a row that is gone comes back by save_passkey
\* only, however late an authentication that began before comes to its refresh.
THEOREM DeletedStays == Spec => DeletedStaysDeleted
<1>1. ASSUME IInv, Next, NEW c \in Creds, store[c] = NoRow, store'[c] # NoRow
      PROVE  \E k \in Ceremonies : pc[k] = "save" /\ req[k].cred = c
  <2>1. store \in [Creds -> {NoRow} \union Counter]
    BY <1>1 DEF IInv, TypeOK, Rows
  <2>2. ~Quiet /\ ~Lost
    BY <1>1 DEF Quiet, Lost
  <2>3. ASSUME NEW k \in Ceremonies, Refreshed(k)
        PROVE  FALSE
    BY <1>1, <2>1, <2>3 DEF Refreshed, Enrolled
  <2>4. ASSUME NEW k \in Ceremonies, Saved(k)
        PROVE  pc[k] = "save" /\ req[k].cred = c
    BY <1>1, <2>1, <2>4 DEF Saved
  <2> QED
    BY <1>1, <2>2, <2>3, <2>4, EffectStep DEF Effect
<1>2. IInv /\ [Next]_vars =>
        [\A c \in Creds : store[c] = NoRow /\ store'[c] # NoRow =>
           \E k \in Ceremonies : pc[k] = "save" /\ req[k].cred = c]_vars
  BY <1>1
<1> QED
  BY <1>2, IInvAlways, PTL DEF Spec, DeletedStaysDeleted

\* refresh_passkey tells a caller Ok, and a JWT is minted, only with a row that
\* is there and that covers the assertion from now on.
THEOREM SignInRecorded == Spec => SignInIsRecorded
<1>1. ASSUME IInv, Next, NEW k \in Ceremonies,
             pc[k] # "signed_in", pc'[k] = "signed_in"
      PROVE  store[req[k].cred] # NoRow /\ store'[req[k].cred] >= req[k].counter
  <2>1. Refreshed(k)
    BY <1>1, EffectStep DEF Effect, Quiet, Saved, Refreshed, Lost, SignsIn
  <2>2. /\ req[k].cred \in Creds
        /\ store[req[k].cred] # NoRow
        /\ store'[req[k].cred] = UpdateCredential(req[k].copy, req[k].counter)
    BY <1>1, <2>1 DEF Refreshed, Enrolled, IInv, TypeOK, Rows
  <2>3. req[k].copy \in Counter /\ req[k].counter \in Counter
    BY <1>1, HeldTypes
  <2> QED
    BY <2>2, <2>3 DEF UpdateCredential, Counter
<1>2. IInv /\ [Next]_vars =>
        [\A k \in Ceremonies : pc[k] # "signed_in" /\ pc'[k] = "signed_in" =>
           /\ store[req[k].cred] # NoRow
           /\ store'[req[k].cred] >= req[k].counter]_vars
  BY <1>1
<1> QED
  BY <1>2, IInvAlways, PTL DEF Spec, SignInIsRecorded

\* The INSERT of a registration fails on a credential that is already there,
\* also when two registrations of it race.
THEOREM NeverReplaces == Spec => RegistrationNeverReplaces
<1>1. ASSUME IInv, Next, NEW k \in Ceremonies,
             backend = "postgres", pc[k] = "save", pc'[k] # "save",
             NEW c \in Enrolled
      PROVE  store'[c] = store[c]
  <2>1. c \in Creds /\ store \in Rows
    BY <1>1 DEF Enrolled, IInv, TypeOK
  <2>2. CASE Quiet
    BY <2>2 DEF Quiet
  <2>3. ASSUME NEW x \in Ceremonies, Saved(x)
        PROVE  store'[c] = store[c]
    BY <1>1, <2>1, <2>3 DEF Saved, Saves, Rows
  <2>4. ASSUME NEW x \in Ceremonies, Refreshed(x)
        PROVE  FALSE
    BY <1>1, <2>4 DEF Refreshed, LeavesSave
  <2>5. ~Lost
    BY <1>1 DEF Lost, LeavesSave
  <2> QED
    BY <1>1, <2>2, <2>3, <2>4, <2>5, EffectStep DEF Effect
<1>2. IInv /\ [Next]_vars =>
        [\A k \in Ceremonies :
           backend = "postgres" /\ pc[k] = "save" /\ pc'[k] # "save" =>
               \A c \in Enrolled : store'[c] = store[c]]_vars
  BY <1>1
<1> QED
  BY <1>2, IInvAlways, PTL DEF Spec, RegistrationNeverReplaces

\* refresh_passkey is to be called "so the stored sign counter advances".  It does
\* not always: of two sign-ins with one credential the one that read its record
\* first may write it last.  This is how a counter goes back, and the only way,
\* but for the in-memory store's saving a credential anew.
CounterFallsByStaleCopyOnly ==
    [][\A c \in Creds : store'[c] # NoRow /\ store'[c] < store[c] =>
         \E k \in Ceremonies :
            /\ req[k].cred = c
            /\ \/ pc[k] = "refresh" /\ req[k].copy < store[c]
               \/ pc[k] = "save" /\ backend = "memory"]_vars

\* A stored counter goes back in one way only, or two with the in-memory store:
\* a handler writes back a record that another refresh has overtaken.
THEOREM CounterFalls == Spec => CounterFallsByStaleCopyOnly
<1>1. ASSUME IInv, Next, NEW c \in Creds, store'[c] # NoRow, store'[c] < store[c]
      PROVE  \E k \in Ceremonies :
               /\ req[k].cred = c
               /\ \/ pc[k] = "refresh" /\ req[k].copy < store[c]
                  \/ pc[k] = "save" /\ backend = "memory"
  <2>1. store \in Rows /\ store[c] \in {NoRow} \union Counter
    BY <1>1 DEF IInv, TypeOK, Rows
  <2>2. ~Quiet /\ ~Lost
    BY <1>1, <2>1 DEF Quiet, Lost, NoRow, Counter
  <2>3. ASSUME NEW k \in Ceremonies, Saved(k)
        PROVE  req[k].cred = c /\ pc[k] = "save" /\ backend = "memory"
    <3>1. req[k].counter \in Counter
      BY <1>1, HeldTypes
    <3>2. req[k].cred = c
      BY <1>1, <2>1, <2>3 DEF Saved, Rows, NoRow, Counter
    <3>3. store'[c] = req[k].counter
      BY <2>1, <2>3, <3>2 DEF Saved, Rows
    <3>4. c \in Enrolled
      BY <1>1, <2>1, <3>1, <3>3 DEF Enrolled, NoRow, Counter
    <3> QED
      BY <2>3, <3>2, <3>4 DEF Saved, Saves
  <2>4. ASSUME NEW k \in Ceremonies, Refreshed(k)
        PROVE  req[k].cred = c /\ pc[k] = "refresh" /\ req[k].copy < store[c]
    <3>1. req[k].counter \in Counter /\ req[k].copy \in Counter
      BY <1>1, HeldTypes
    <3>2. req[k].cred = c
      BY <1>1, <2>1, <2>4 DEF Refreshed, Rows, NoRow, Counter
    <3>3. store'[c] = UpdateCredential(req[k].copy, req[k].counter)
      BY <2>1, <2>4, <3>2 DEF Refreshed, Rows
    <3>4. store'[c] >= req[k].copy
      BY <3>1, <3>3 DEF UpdateCredential, Counter
    <3> QED
      BY <1>1, <2>1, <2>4, <3>1, <3>2, <3>3, <3>4
         DEF Refreshed, UpdateCredential, NoRow, Counter
  <2> QED
    BY <1>1, <2>2, <2>3, <2>4, EffectStep DEF Effect
<1>2. IInv /\ [Next]_vars =>
        [\A c \in Creds : store'[c] # NoRow /\ store'[c] < store[c] =>
           \E k \in Ceremonies :
              /\ req[k].cred = c
              /\ \/ pc[k] = "refresh" /\ req[k].copy < store[c]
                 \/ pc[k] = "save" /\ backend = "memory"]_vars
  BY <1>1
<1> QED
  BY <1>2, IInvAlways, PTL DEF Spec, CounterFallsByStaleCopyOnly
=============================================================================
