---------------------------- MODULE DeviceTrust ----------------------------
(***************************************************************************)
(* The devices table and what /auth/login does to it: the trust a device   *)
(* earns (src/src/auth/device.rs), kept by fingerprint (src/src/db/mod.rs) *)
(* and read, adjusted and written back by handle_login                     *)
(* (src/src/proxy/mod.rs).                                                 *)
(*                                                                         *)
(* A fingerprint is the hash of user agent, address and metadata: nothing  *)
(* in it is the user's, so two accounts used from one machine share one.   *)
(* The row is looked up by user AND fingerprint but inserted, or updated,  *)
(* on the fingerprint alone, which is what the table is UNIQUE by.         *)
(*                                                                         *)
(* Between the SELECT and the write the handler checks a password, a slow  *)
(* hash on purpose: other logins read and write the row meanwhile.         *)
(***************************************************************************)
EXTENDS Integers

CONSTANTS
    Users,         \* accounts
    Fingerprints,  \* values of fingerprint_hash
    Logins,        \* logins that can be in flight at the same time
    None

ASSUME NoneAssumption == None \notin Users /\ None \notin Fingerprints

VARIABLES
    rows,    \* rows[f]: the row of fingerprint f, or NoRow
    pc,      \* pc[l]: what login l does next
    req,     \* req[l]: its user, its fingerprint and its DeviceFingerprint
    \* History, read by no action.
    wins,    \* wins[f]: successful logins from f, counted up to MaxWins
    known    \* known[f]: accounts that have logged in from f

vars == <<rows, pc, req, wins, known>>

-----------------------------------------------------------------------------
(* DeviceFingerprint: a score from 0 to 100 and whether that is trust.     *)

Neutral == 50     \* trust_score of DeviceFingerprint::new
Threshold == 70   \* is_trusted from here on
Reward == 10      \* increase_trust, a login from a known device
Penalty == 15     \* decrease_trust, a wrong password
MaxWins == 3

Device == [score: 0..100, trusted: BOOLEAN]
NewDevice == [score |-> Neutral, trusted |-> FALSE]

\* Mutated form: u32 addition without .min(100).
Increased_Unbounded(d) ==
    [score |-> d.score + Reward,
     trusted |-> d.trusted \/ d.score + Reward >= Threshold]

\* increase_trust.
Increased(d) ==
    LET n == IF d.score + Reward < 100 THEN d.score + Reward ELSE 100
    IN  [score |-> n, trusted |-> d.trusted \/ n >= Threshold]

\* Mutated form: trust once earned is kept.
Decreased_KeepsTrust(d) ==
    [score |-> IF d.score > Penalty THEN d.score - Penalty ELSE 0,
     trusted |-> d.trusted]

\* decrease_trust, saturating.
Decreased(d) ==
    LET n == IF d.score > Penalty THEN d.score - Penalty ELSE 0
    IN  [score |-> n, trusted |-> d.trusted /\ n >= Threshold]

-----------------------------------------------------------------------------

NoRow == [user |-> None, device |-> NewDevice]
Row == [user: Users \union {None}, device: Device]

\* found: existing_device.is_some().
Login == [user: Users \union {None}, fp: Fingerprints \union {None},
          found: BOOLEAN, device: Device]
NoLogin == [user |-> None, fp |-> None, found |-> FALSE, device |-> NewDevice]

\* Types, and the CHECK of the trust_score column.
TypeOK ==
    /\ rows \in [Fingerprints -> Row]
    /\ pc \in [Logins -> {"idle", "find", "password"}]
    /\ req \in [Logins -> Login]
    /\ \A l \in Logins : pc[l] # "idle" => /\ req[l].user # None
                                           /\ req[l].fp # None
    /\ wins \in [Fingerprints -> 0..MaxWins]
    /\ known \in [Fingerprints -> SUBSET Users]

Init ==
    /\ rows = [f \in Fingerprints |-> NoRow]
    /\ pc = [l \in Logins |-> "idle"]
    /\ req = [l \in Logins |-> NoLogin]
    /\ wins = [f \in Fingerprints |-> 0]
    /\ known = [f \in Fingerprints |-> {}]

-----------------------------------------------------------------------------
(* db::find_device_by_fingerprint and db::upsert_device.                   *)

\* Mutated form: the user is left out of the lookup too.
Finds_AnyUser(u, f) == rows[f].user # None

Finds(u, f) == rows[f].user = u

\* INSERT ... ON CONFLICT (fingerprint_hash) DO UPDATE: of a row that exists,
\* the user stays.
Upsert(u, f, d) ==
    rows' = [rows EXCEPT ![f] =
               [user |-> IF @.user = None THEN u ELSE @.user, device |-> d]]

-----------------------------------------------------------------------------
(* handle_login, from find_user_by_username to the last upsert.            *)

\* The account exists and is active.
Begin(l, u, f) ==
    /\ pc[l] = "idle"
    /\ req' = [req EXCEPT ![l] = [NoLogin EXCEPT !.user = u, !.fp = f]]
    /\ pc' = [pc EXCEPT ![l] = "find"]
    /\ UNCHANGED <<rows, wins, known>>

Find(l) ==
    /\ pc[l] = "find"
    /\ LET u == req[l].user
           f == req[l].fp
       IN  req' = [req EXCEPT
                     ![l].found = Finds(u, f),
                     ![l].device = IF Finds(u, f) THEN rows[f].device
                                                  ELSE NewDevice]
    /\ pc' = [pc EXCEPT ![l] = "password"]
    /\ UNCHANGED <<rows, wins, known>>

Finish(l) ==
    /\ pc' = [pc EXCEPT ![l] = "idle"]
    /\ req' = [req EXCEPT ![l] = NoLogin]

\* verify_password is false: the device pays for it.
WrongPassword(l) ==
    /\ pc[l] = "password"
    /\ Upsert(req[l].user, req[l].fp, Decreased(req[l].device))
    /\ Finish(l)
    /\ UNCHANGED <<wins, known>>

\* A missing or wrong TOTP code, a failed command or a client that is gone:
\* the handler ends before it writes anything.
GiveUp(l) ==
    /\ pc[l] # "idle"
    /\ Finish(l)
    /\ UNCHANGED <<rows, wins, known>>

\* Mutated form: the first login from a device is rewarded already.
Rewarded_Always(l) == Increased(req[l].device)

Rewarded(l) ==
    IF req[l].found THEN Increased(req[l].device) ELSE req[l].device

\* Password and code are right.  What the risk engine makes of it comes after
\* the write.
Succeed(l) ==
    /\ pc[l] = "password"
    /\ LET f == req[l].fp IN
       /\ Upsert(req[l].user, f, Rewarded(l))
       /\ wins' = [wins EXCEPT ![f] = IF @ < MaxWins THEN @ + 1 ELSE MaxWins]
       /\ known' = [known EXCEPT ![f] = @ \union {req[l].user}]
    /\ Finish(l)

Next == \E l \in Logins :
    \/ \E u \in Users, f \in Fingerprints : Begin(l, u, f)
    \/ Find(l) \/ WrongPassword(l) \/ GiveUp(l) \/ Succeed(l)

Spec == Init /\ [][Next]_vars

-----------------------------------------------------------------------------
(* Properties.                                                             *)

\* The two columns agree, in the table and in every handler's copy: the flag
\* the risk engine reads is never a leftover of an earlier score.
TrustMatchesScore ==
    /\ \A f \in Fingerprints :
         rows[f].device.trusted <=> rows[f].device.score >= Threshold
    /\ \A l \in Logins :
         req[l].device.trusted <=> req[l].device.score >= Threshold

\* Trust takes three successful logins from the very device, in whatever order
\* concurrent logins read and overwrite its row.
TrustIsEarned ==
    \A f \in Fingerprints : rows[f].device.trusted => wins[f] >= MaxWins

\* The trust a login starts from is its own account's: the row it was read
\* from belongs to that account, and has not passed to another one since.
HistoryIsOwn ==
    \A l \in Logins : req[l].found => rows[req[l].fp].user = req[l].user

\* "A device seen before on this account nudges trust up further; a brand-new
\* fingerprint keeps the neutral default": an account that has logged in from
\* a device finds it there the next time.
IsFound(u, f) == u \in known[f] => Finds(u, f)

\* "Built before the password check so a failed attempt can decay this device's
\* trust score": it does not raise it.
Decays(f) == rows'[f].device.score <= rows[f].device.score

\* Of these two claims of handle_login at least one is kept: an account that has
\* logged in from a device finds it, or at any rate its wrong password does not
\* make the device more trusted.  A step that breaks both refutes them at once.
FailureDecaysKnownDevice ==
    [][\A l \in Logins : WrongPassword(l) =>
         IsFound(req[l].user, req[l].fp) \/ Decays(req[l].fp)]_vars
=============================================================================
