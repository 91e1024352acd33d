------------------------------ MODULE MCSlugs ------------------------------
(* Model values for Slugs: the names "Acme" and "Acme 2", and a name of 255  *)
(* characters.                                                               *)
EXTENDS Slugs

MCNames == {<<"acme">>, <<"acme", 2>>}

MCLongNames == {<<"long">>}

MCAllNames == MCNames \cup MCLongNames

=============================================================================
