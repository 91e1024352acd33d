-------------------------- MODULE MembershipRows ---------------------------
(***************************************************************************)
(* The values of a row of business_memberships (BusinessMembership in      *)
(* app/businesses/models.py): the role it refers to, its lifecycle status,  *)
(* and whether joined_at has been set.  The other columns (who invited the  *)
(* user and when, the timestamps) decide nothing.                           *)
(***************************************************************************)

RoleKeys == {"owner", "admin", "staff", "support"}

Statuses == {"active", "invited", "suspended", "removed"}

Row == [role : RoleKeys \cup {"none"},
        status : Statuses \cup {"absent"},
        joined : BOOLEAN]

Columns == {"role", "status", "joined"}

(* There is no row for this user and business. *)
Absent == [role |-> "none", status |-> "absent", joined |-> FALSE]

(* The row create_owner_membership inserts. *)
Founder == [role |-> "owner", status |-> "active", joined |-> TRUE]

ActiveOwnerRow(row) == row.role = "owner" /\ row.status = "active"

=============================================================================
