--------------------------- MODULE PermissionTable ---------------------------
(* What the tables roles, permissions and role_permissions promise to those   *)
(* who read them: at every moment the complete table of one release.          *)

CONSTANTS
  Releases,   \* versions of the code
  Grants      \* Grants[v]: ROLE_PERMISSION_KEYS of release v, as <<role, permission>>

VARIABLE table

Init == \E v \in Releases : table = Grants[v]

(* A process of release v has seeded. *)
Seed(v) == table' = Grants[v]

Next == \E v \in Releases : Seed(v)

Spec == Init /\ [][Next]_table

=============================================================================
