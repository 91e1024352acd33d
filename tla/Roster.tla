------------------------------- MODULE Roster -------------------------------
(***************************************************************************)
(* What the membership tables promise, with every request atomic: the       *)
(* lifecycle of a membership and of the workspace a user works in.  One     *)
(* step is one committed request; it may change one membership and the      *)
(* requesting user's workspace together.                                    *)
(***************************************************************************)
EXTENDS MembershipRows

CONSTANTS Users, Businesses, NoBusiness

VARIABLES
  member,     \* member[b][u]: the membership of user u in business b
  current     \* current[u]: the workspace user u works in

vars == <<member, current>>

Init ==
  /\ member = [b \in Businesses |-> [u \in Users |-> Absent]]
  /\ current = [u \in Users |-> NoBusiness]

SetRow(b, u, row) == member' = [member EXCEPT ![b][u] = row]

(* A business is founded with its owner, who starts working in it. *)
Found(b, u) ==
  /\ \A v \in Users : member[b][v] = Absent
  /\ SetRow(b, u, Founder)
  /\ current' = [current EXCEPT ![u] = b]

(* Only someone who is not a member can be invited, and never as an owner. *)
Invite(b, u) ==
  /\ member[b][u].status \in {"absent", "removed"}
  /\ \E role \in RoleKeys \ {"owner"} :
       SetRow(b, u, [member[b][u] EXCEPT !.role = role, !.status = "invited"])

(* Only a pending invitation can be accepted, and only by a past member. *)
Accept(b, u) ==
  /\ member[b][u].status = "invited"
  /\ member[b][u].joined
  /\ SetRow(b, u, [member[b][u] EXCEPT !.status = "active"])

(* A manager may give an existing member any role and any status; a member  *)
(* made active for the first time joins.                                    *)
Administer(b, u) ==
  /\ member[b][u] # Absent
  /\ \E role \in RoleKeys, status \in Statuses :
       SetRow(b, u, [role |-> role, status |-> status,
                     joined |-> member[b][u].joined \/ status = "active"])

(* A user moves only to a workspace that has admitted them, or to none. *)
Move(u) ==
  \E b \in Businesses \cup {NoBusiness} :
    /\ b # NoBusiness => member[b][u].joined
    /\ current' = [current EXCEPT ![u] = b]

ChangeMember ==
  \E b \in Businesses, u \in Users :
    Invite(b, u) \/ Accept(b, u) \/ Administer(b, u)

Next ==
  \/ \E b \in Businesses, u \in Users : Found(b, u)
  \/ /\ ChangeMember \/ UNCHANGED member
     /\ (\E u \in Users : Move(u)) \/ UNCHANGED current

Spec == Init /\ [][Next]_vars

=============================================================================
