----------------------------- MODULE MCAccounts -----------------------------
(***************************************************************************)
(* Accounts on a small instance: operators are alike up to their address,  *)
(* and so are the passwords and the workers.                               *)
(***************************************************************************)
EXTENDS Accounts, TLC

Symmetry == Permutations(Workers)
=============================================================================
