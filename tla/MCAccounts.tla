----------------------------- MODULE MCAccounts -----------------------------
(* Instances of Accounts for TLC: two requests at a time, which is every   *)
(* pair of handlers, and two names.                                        *)
EXTENDS Accounts, TLC

Symmetry == Permutations(Proc) \cup Permutations(Password)
=============================================================================
