----------------------------- MODULE MCAccounts -----------------------------
(* Constants for the model checking of Accounts. *)
EXTENDS Accounts, TLC

Symmetry == Permutations(UnixUsers) \cup Permutations(Requests)
=============================================================================
