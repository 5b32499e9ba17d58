---------------------------- MODULE SessionLife ----------------------------
(***************************************************************************)
(* What the proxy promises of a session, without Redis, handlers or        *)
(* clocks: a session is a register that is opened once, may be upgraded,   *)
(* may be closed, and is over for good when its time has come.             *)
(*                                                                         *)
(* It is not an atomic register.  A handler that has read a session may    *)
(* write back what it read, or an upgrade of it: pending[s] holds the      *)
(* values that may still be written.  With nothing pending the register is *)
(* what its last writer left.                                              *)
(***************************************************************************)

CONSTANTS
    Users,
    Sessions,
    None

VARIABLES
    owner,    \* owner[s]: the account session s was opened for, or None
    life,     \* life[s]: what a request that presents s meets now
    pending,  \* pending[s]: what may yet be written to s
    earned    \* sessions for which a TOTP code of the owner was accepted

lifeVars == <<owner, life, pending, earned>>

Live == {"open", "verified"}
Lives == {"absent", "over"} \union Live

LifeTypeOK ==
    /\ owner \in [Sessions -> Users \union {None}]
    /\ life \in [Sessions -> Lives]
    /\ pending \in [Sessions -> SUBSET Live]
    /\ earned \in SUBSET Sessions

LifeInit ==
    /\ owner = [s \in Sessions |-> None]
    /\ life = [s \in Sessions |-> "absent"]
    /\ pending = [s \in Sessions |-> {}]
    /\ earned = {}

-----------------------------------------------------------------------------

\* What a handler of session s may bring about once it has read value v: v
\* again, and "verified" only with a code that has been accepted.
Writable(s, v) == {v} \union (IF s \in earned' THEN {"verified"} ELSE {})

\* A login: the session is about to be created.
Open(s) ==
    /\ owner[s] = None
    /\ \E u \in Users : owner' = [owner EXCEPT ![s] = u]
    /\ earned' \in {earned, earned \union {s}}
    /\ \E P \in SUBSET Writable(s, "open") :
         pending' = [pending EXCEPT ![s] = P]
    /\ UNCHANGED life

\* A code of the owner's is accepted for a session that has been opened.
Earn(s) ==
    /\ owner[s] # None
    /\ earned' = earned \union {s}
    /\ UNCHANGED <<owner, life, pending>>

\* A handler reads the session.
Read(s) ==
    /\ life[s] \in Live
    /\ \E P \in SUBSET Writable(s, life[s]) :
         pending' = [pending EXCEPT ![s] = @ \union P]
    /\ UNCHANGED <<owner, life, earned>>

\* A handler writes what it may, and with that, or instead of it, gives up
\* (some of) what it might have written.
Write(s) ==
    /\ life[s] # "over"
    /\ \E v \in pending[s] \union {life[s]}, P \in SUBSET pending[s] :
         /\ life' = [life EXCEPT ![s] = v]
         /\ pending' = [pending EXCEPT ![s] = P]
    /\ UNCHANGED <<owner, earned>>

\* A logout.
Close(s) ==
    /\ life[s] \in Live
    /\ life' = [life EXCEPT ![s] = "absent"]
    /\ UNCHANGED <<owner, pending, earned>>

\* Time passes; it is up for the sessions in S, all of which had been opened.
Expire(S) ==
    /\ \A s \in S : owner[s] # None
    /\ life' = [s \in Sessions |-> IF s \in S THEN "over" ELSE life[s]]
    /\ pending' = [s \in Sessions |-> IF s \in S THEN {} ELSE pending[s]]
    /\ UNCHANGED <<owner, earned>>

LifeNext ==
    \/ \E s \in Sessions : Open(s) \/ Earn(s) \/ Read(s) \/ Write(s) \/ Close(s)
    \/ \E S \in SUBSET Sessions : Expire(S)

LifeSpec == LifeInit /\ [][LifeNext]_lifeVars
=============================================================================
