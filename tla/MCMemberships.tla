--------------------------- MODULE MCMemberships ---------------------------
(* Memberships on small instances.  Users are interchangeable, and so are    *)
(* businesses and workers, in every safety property.                         *)
EXTENDS Memberships, TLC

Symmetry ==
  Permutations(Users) \cup Permutations(Workers) \cup Permutations(Businesses)

AllStatuses == Statuses \cup {Bogus}

GuardedStatuses == {"active", "removed"}
=============================================================================
