------------------------------ MODULE Passkeys ------------------------------
(***************************************************************************)
(* Passkeys: the PasskeyStore, in its Postgres and its in-memory form, and *)
(* the ceremonies of WebauthnManager (src/src/auth/webauthn.rs and         *)
(* src/src/auth/passkey_store_pg.rs).  No HTTP handler calls them yet; the *)
(* steps are taken in the order their types and the walkthrough of that    *)
(* file leave, each ceremony being two requests of a browser.              *)
(*                                                                         *)
(* One user: every operation of the store names the user, and rows of      *)
(* different users never meet.  Of a credential the sign counter is kept.  *)
(* What webauthn-rs checks of a signature, and the authenticator, are      *)
(* outside the repository: their part here is the counter alone.           *)
(***************************************************************************)
EXTENDS Integers

CONSTANTS
    Creds,       \* credential ids of the user's authenticators
    Ceremonies,  \* ceremonies that can be under way at the same time
    MaxCounter,  \* how far authenticators count (a bound for TLC)
    None

ASSUME MaxCounterAssumption == MaxCounter \in Nat
ASSUME NoneAssumption == None \notin Creds

VARIABLES
    backend,  \* webauthn.passkey_store, fixed at startup
    store,    \* store[c]: counter of the row of c, NoRow if it has none
    device,   \* device[c]: the authenticator's own counter
    pc,       \* pc[k]: what ceremony k does next
    req       \* req[k]: its challenge state and the locals of its handler

vars == <<backend, store, device, pc, req>>

NoRow == -1
Counter == 0..MaxCounter
Rows == [Creds -> {NoRow} \union Counter]
Enrolled == {c \in Creds : store[c] # NoRow}

\* exclude: credentials a registration was told of; allow: the passkeys an
\* authentication was started with; counter: what the authenticator said;
\* copy: the counter in the handler's PasskeyRecord.
Ceremony == [exclude: SUBSET Creds, allow: Rows, cred: Creds \union {None},
             counter: Counter, copy: Counter]
NoCeremony == [exclude |-> {}, allow |-> [c \in Creds |-> NoRow],
               cred |-> None, counter |-> 0, copy |-> 0]

\* Types, and that the store is never ahead of the authenticator, which would
\* lock the user out for good.
TypeOK ==
    /\ backend \in {"postgres", "memory"}
    /\ store \in Rows
    /\ device \in [Creds -> Counter]
    /\ pc \in [Ceremonies -> {"idle", "registering", "save", "authenticating",
                              "find", "refresh", "signed_in"}]
    /\ req \in [Ceremonies -> Ceremony]
    /\ \A c \in Creds : store[c] <= device[c]

Init ==
    /\ backend \in {"postgres", "memory"}
    /\ store = [c \in Creds |-> NoRow]
    /\ device = [c \in Creds |-> 0]
    /\ pc = [k \in Ceremonies |-> "idle"]
    /\ req = [k \in Ceremonies |-> NoCeremony]

Proceed(k, q, label) ==
    /\ req' = [req EXCEPT ![k] = q]
    /\ pc' = [pc EXCEPT ![k] = label]

Finish(k) == Proceed(k, NoCeremony, "idle")

-----------------------------------------------------------------------------
(* Registration.                                                           *)

\* get_passkeys for the exclude list, and start_passkey_registration.
StartRegistration(k) ==
    /\ pc[k] = "idle"
    /\ Proceed(k, [NoCeremony EXCEPT !.exclude = Enrolled], "registering")
    /\ UNCHANGED <<backend, store, device>>

\* finish_passkey_registration.  An authenticator on the exclude list refuses;
\* a browser that posts its answer twice makes two ceremonies of one credential.
FinishRegistration(k) ==
    /\ pc[k] = "registering"
    /\ \E c \in Creds \ req[k].exclude :
         Proceed(k, [NoCeremony EXCEPT !.cred = c, !.counter = device[c]],
                 "save")
    /\ UNCHANGED <<backend, store, device>>

\* Mutated form: INSERT ... ON CONFLICT DO UPDATE.
Saves_OnConflictUpdate(c) == c \in Creds

\* Does save_passkey write?  INSERT fails on a row that exists, HashMap::insert
\* replaces it.
Saves(c) == backend = "memory" \/ c \notin Enrolled

SavePasskey(k) ==
    /\ pc[k] = "save"
    /\ LET c == req[k].cred IN
       store' = IF Saves(c) THEN [store EXCEPT ![c] = req[k].counter] ELSE store
    /\ Finish(k)
    /\ UNCHANGED <<backend, device>>

-----------------------------------------------------------------------------
(* Authentication.                                                         *)

\* get_passkeys and start_passkey_authentication, which fails when there are
\* none.
StartAuthentication(k) ==
    /\ pc[k] = "idle"
    /\ Enrolled # {}
    /\ Proceed(k, [NoCeremony EXCEPT !.allow = store], "authenticating")
    /\ UNCHANGED <<backend, store, device>>

\* finish_passkey_authentication (webauthn-rs): the counter must have advanced
\* since the challenge, unless the authenticator does not count at all.
FinishAuthentication(k) ==
    /\ pc[k] = "authenticating"
    /\ \E c \in Creds, n \in Counter :
         /\ req[k].allow[c] # NoRow
         /\ n = device[c] + 1 \/ (n = 0 /\ device[c] = 0)
         /\ n > req[k].allow[c] \/ (n = 0 /\ req[k].allow[c] = 0)
         /\ device' = [device EXCEPT ![c] = n]
         /\ Proceed(k, [req[k] EXCEPT !.cred = c, !.counter = n], "find")
    /\ UNCHANGED <<backend, store>>

\* The record whose cred_id matches the assertion: one read for the challenge,
\* or one read now.
FindRecord(k) ==
    /\ pc[k] = "find"
    /\ \E n \in {req[k].allow[req[k].cred], store[req[k].cred]} :
         IF n = NoRow
         THEN Finish(k)
         ELSE Proceed(k, [NoCeremony EXCEPT !.cred = req[k].cred, !.copy = n,
                                            !.counter = req[k].counter],
                      "refresh")
    /\ UNCHANGED <<backend, store, device>>

\* Mutated forms: the next counter to come is stored; nothing is.
UpdateCredential_Next(copy, counter) == counter + 1
UpdateCredential_Dropped(copy, counter) == copy

\* Passkey::update_credential (webauthn-rs).
UpdateCredential(copy, counter) == IF counter > copy THEN counter ELSE copy

\* Mutated form: an upsert, which finds or makes its row.
RowsAffected_Upsert(c) == {c}

\* The rows update_passkey changes, or the occupied entry it finds.
RowsAffected(c) == {c} \intersect Enrolled

\* refresh_passkey, and mint_passkey_jwt if it returns Ok.
RefreshPasskey(k) ==
    /\ pc[k] = "refresh"
    /\ LET found == RowsAffected(req[k].cred) IN
       /\ store' = [c \in Creds |->
                      IF c \in found
                      THEN UpdateCredential(req[k].copy, req[k].counter)
                      ELSE store[c]]
       /\ IF found # {} THEN Proceed(k, req[k], "signed_in") ELSE Finish(k)
    /\ UNCHANGED <<backend, device>>

-----------------------------------------------------------------------------

\* delete_passkey.
DeletePasskey(c) ==
    /\ c \in Enrolled
    /\ store' = [store EXCEPT ![c] = NoRow]
    /\ UNCHANGED <<backend, device, pc, req>>

\* The answer is sent; or a ceremony is abandoned, times out or fails.
End(k) ==
    /\ pc[k] # "idle"
    /\ Finish(k)
    /\ UNCHANGED <<backend, store, device>>

\* The process restarts and takes the in-memory store with it.  Challenges may
\* be kept elsewhere, and survive.  (With Postgres it is several steps of End.)
Restart ==
    /\ backend = "memory"
    /\ store' = [c \in Creds |-> NoRow]
    /\ LET waiting == {k \in Ceremonies :
                         pc[k] \in {"registering", "authenticating"}} IN
       /\ pc' = [k \in Ceremonies |-> IF k \in waiting THEN pc[k] ELSE "idle"]
       /\ req' = [k \in Ceremonies |->
                    IF k \in waiting THEN req[k] ELSE NoCeremony]
    /\ UNCHANGED <<backend, device>>

Next ==
    \/ \E k \in Ceremonies :
         \/ StartRegistration(k) \/ FinishRegistration(k) \/ SavePasskey(k)
         \/ StartAuthentication(k) \/ FinishAuthentication(k)
         \/ FindRecord(k) \/ RefreshPasskey(k)
         \/ End(k)
    \/ \E c \in Creds : DeletePasskey(c)
    \/ Restart

Spec == Init /\ [][Next]_vars

-----------------------------------------------------------------------------
(* Properties.                                                             *)

\* A credential that is gone comes back by a registration of its own only: the
\* refresh of an authentication that was under way when it was deleted, or lost
\* in a restart, does not bring it back (update_passkey never inserts).
DeletedStaysDeleted ==
    [][\A c \in Creds : store[c] = NoRow /\ store'[c] # NoRow =>
         \E k \in Ceremonies : pc[k] = "save" /\ req[k].cred = c]_vars

\* Nobody signs in with a credential that has no row when it is refreshed, as
\* after a deletion or a restart since the challenge (saved anew meanwhile, it
\* has one); and a sign-in leaves a counter in the store that covers its own
\* assertion.  (That the stored counter only advances is not true: two sign-ins
\* may be written in the wrong order, see CounterFallsByStaleCopyOnly in
\* PasskeysProofs.)
SignInIsRecorded ==
    [][\A k \in Ceremonies : pc[k] # "signed_in" /\ pc'[k] = "signed_in" =>
         /\ store[req[k].cred] # NoRow
         /\ store'[req[k].cred] >= req[k].counter]_vars

\* In Postgres a registration never touches a row that is there, whenever it
\* was started: "rejects a duplicate credential with an error rather than
\* silently replacing the row".
RegistrationNeverReplaces ==
    [][\A k \in Ceremonies :
         backend = "postgres" /\ pc[k] = "save" /\ pc'[k] # "save" =>
             \A c \in Enrolled : store'[c] = store[c]]_vars
=============================================================================
