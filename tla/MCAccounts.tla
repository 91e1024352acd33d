---------------------------- MODULE MCAccounts -----------------------------
(* Accounts on small instances.  Users, tokens, passwords and workers are    *)
(* interchangeable in every safety property.                                 *)
EXTENDS Accounts, TLC

Symmetry ==
  Permutations(Users) \cup Permutations(Tokens)
    \cup Permutations(Passwords) \cup Permutations(Workers)

=============================================================================
