------------------------- MODULE MCBusinessSettings -------------------------
(* Model values for BusinessSettings. *)
EXTENDS BusinessSettings, TLC

CONSTANTS v1, v2

MCFieldValues == {v1, v2}

MCSymmetry == Permutations(Workers) \cup Permutations(MCFieldValues)

=============================================================================
