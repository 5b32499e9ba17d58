----------------------------- MODULE MCAccounts -----------------------------
(***************************************************************************)
(* Accounts for TLC: ids, names, addresses, secrets and request slots are  *)
(* treated alike by every action.                                          *)
(***************************************************************************)
EXTENDS Accounts, TLC

Symmetry == Permutations(Accounts) \union Permutations(Names)
              \union Permutations(Emails) \union Permutations(Secrets)
              \union Permutations(Requests)
=============================================================================
