----------------------------- MODULE MCAccounts -----------------------------
(* A small instance of Accounts: three requests, two names, one password   *)
(* and the empty one.                                                      *)
EXTENDS Accounts, TLC

CONSTANTS r1, r2, r3, ann, bob, secretWord

MCRequests == {r1, r2, r3}
MCNames == {ann, bob}
MCPasswords == {secretWord}
Symmetry == Permutations(MCRequests) \union Permutations(MCNames)
=============================================================================
