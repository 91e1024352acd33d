--------------------------- MODULE MCRequestGuards ---------------------------
EXTENDS RequestGuards

(* Two releases that differ in both roles. *)
MCGrants ==
  [v \in Releases |-> IF v = "old" THEN {<<"admin", "members">>, <<"staff", "leads">>}
                      ELSE {<<"admin", "leads">>, <<"staff", "members">>}]

=============================================================================
