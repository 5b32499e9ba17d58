-------------------------- MODULE MCProxySessions --------------------------
(***************************************************************************)
(* What the runs of ProxySessions share.                                   *)
(*                                                                         *)
(* Symmetry: users, session ids and request slots are treated alike by     *)
(* every action.  The liveness run does without.                           *)
(*                                                                         *)
(* NoPromises: a view that leaves out the history no action reads, for the *)
(* runs whose properties do not mention it.                                *)
(***************************************************************************)
EXTENDS SessionRefinement, TLC

Symmetry == Permutations(Users) \union Permutations(Sessions)
              \union Permutations(Requests)

NoPromises ==
    <<shared, pc, [r \in Requests |-> [req[r] EXCEPT !.goal = {}]], earned>>
=============================================================================
