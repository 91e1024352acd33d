---------------------------- MODULE MCWorkspaces ----------------------------
(* Users, businesses, browsers and requests are interchangeable in Workspaces. *)
EXTENDS Workspaces, TLC

Symmetry ==
  Permutations(Users) \cup Permutations(Businesses)
    \cup Permutations(Browsers) \cup Permutations(Requests)

=============================================================================
