---------------------------- MODULE Memberships ----------------------------
(***************************************************************************)
(* The business_memberships table and the users.current_business column,   *)
(* as the HTTP handlers of app/businesses, app/auth and app/common change   *)
(* them.  Every request runs in a Gunicorn worker process inside ONE Pony   *)
(* db_session (the one login_required opens; the inner ones are nested and  *)
(* do nothing), over PostgreSQL at READ COMMITTED:                          *)
(*   - a SELECT sees what has been committed when it runs;                  *)
(*   - an entity already in the session is not read again by primary key,   *)
(*     and when a later SELECT brings a different value for an attribute    *)
(*     the request has read, Pony raises UnrepeatableReadError;             *)
(*   - an UPDATE writes the assigned columns only, and its WHERE clause     *)
(*     repeats the value of every attribute that was read before it was     *)
(*     assigned; no matching row raises OptimisticCheckError;               *)
(*   - leaving the session commits it, whatever the status of the response, *)
(*     and only an exception rolls it back.                                 *)
(* A request therefore takes the steps LoadUser, then (for a route with     *)
(* business_required) ResolveNamed or ResolveSole, then its handler, then   *)
(* Commit; Rollback may end it at any point.                                *)
(***************************************************************************)
EXTENDS Naturals, FiniteSets, MembershipRows

CONSTANTS
  Users,          \* registered, active users
  Businesses,     \* business ids, created or not
  Workers,        \* worker processes, each serving one request at a time
  Nobody,         \* no user
  NoBusiness,     \* NULL in users.current_business
  RoleInputs,     \* the roles clients name in requests
  StatusInputs    \* the statuses clients name in PATCH requests

Bogus == "bogus"        \* a status that MembershipStatus(...) refuses

Keep == "keep"          \* a key the PATCH body does not have

ASSUME SentinelAssumption ==
  /\ Nobody \notin Users
  /\ NoBusiness \notin Businesses

ASSUME InputAssumption ==
  /\ RoleInputs \subseteq RoleKeys
  /\ StatusInputs \subseteq Statuses \cup {Bogus}

(* The roles whose permissions include manage_members. *)
Managers == {"owner", "admin"}

(* Mutant: admin is seeded with manage_roles as well. *)
AdminsManageRoles == {"owner", "admin"}

(* The roles whose permissions include manage_roles. *)
RoleManagers == {"owner"}

VARIABLES
  member,     \* member[b][u]: the committed row of user u in business b
  current,    \* current[u]: the committed users.current_business
  req         \* req[w]: the request worker w is serving

vars == <<member, current, req>>

(* A request: the user row it loaded (actor, cur), the workspace and own    *)
(* membership it resolved (biz, me), the membership it changes (target, as  *)
(* loaded in old), the columns it assigned (dirty, valued in new) and those *)
(* it read before assigning them (read); likewise for current_business.     *)
Request ==
  [pc : {"idle", "user", "scoped", "checked"},
   op : {"none", "invite", "update", "remove", "accept", "switch", "default"},
   actor : Users \cup {Nobody},
   cur : Businesses \cup {NoBusiness},
   biz : Businesses \cup {NoBusiness},
   me : Row,
   target : Users \cup {Nobody},
   old : Row,
   new : Row,
   dirty : SUBSET Columns,
   read : SUBSET Columns,
   curDirty : BOOLEAN,
   curRead : BOOLEAN,
   curNew : Businesses \cup {NoBusiness},
   reply : {"ok", "refused"}]

Idle ==
  [pc |-> "idle", op |-> "none", actor |-> Nobody, cur |-> NoBusiness,
   biz |-> NoBusiness, me |-> Absent, target |-> Nobody, old |-> Absent,
   new |-> Absent, dirty |-> {}, read |-> {}, curDirty |-> FALSE,
   curRead |-> FALSE, curNew |-> NoBusiness, reply |-> "ok"]

-----------------------------------------------------------------------------
(* Pony's unit of work *)

(* Mutant: sessions without optimistic checks. *)
NoOptimisticCheck(read, old, now) == TRUE

(* The WHERE clause of an UPDATE: the columns read still hold what was read. *)
StillCurrent(read, old, now) ==
  /\ "role" \in read => old.role = now.role
  /\ "status" \in read => old.status = now.status
  /\ "joined" \in read => old.joined = now.joined

(* Mutant: an ORM that saves every column of a modified row. *)
WholeRow(dirty, new, now) == new

(* The SET clause: the assigned columns, and no other. *)
Applied(dirty, new, now) ==
  [role |-> IF "role" \in dirty THEN new.role ELSE now.role,
   status |-> IF "status" \in dirty THEN new.status ELSE now.status,
   joined |-> IF "joined" \in dirty THEN new.joined ELSE now.joined]

-----------------------------------------------------------------------------
(* Helpers of membership_service.py and tenant.py *)

(* Mutant: memberships of any status count as active. *)
AnyMemberships(u) == {b \in Businesses : member[b][u] # Absent}

ActiveBusinesses(u) == {b \in Businesses : member[b][u].status = "active"}

ActiveOwners(rows) == {u \in Users : ActiveOwnerRow(rows[u])}

Exists(b) == \E u \in Users : member[b][u] # Absent

(* The membership of t as the session of worker w has it: the actor's own   *)
(* row comes from the identity map.                                         *)
Loaded(w, t) ==
  IF t = req[w].actor THEN req[w].me ELSE member[req[w].biz][t]

(* The SELECT behind business.memberships meets the actor's row again.      *)
Repeatable(w) ==
  StillCurrent({"role", "status"}, req[w].me,
               member[req[w].biz][req[w].actor])

(* Mutant: count_active_owners forgets the status. *)
LastOfAnyOwners(w, t, row) ==
  Cardinality({u \in Users : member[req[w].biz][u].role = "owner"}) <= 1

LastOwner(w, t, row) ==
  Cardinality(ActiveOwners([member[req[w].biz] EXCEPT ![t] = row])) <= 1

(* ensure_can_remove_or_demote_owner returns None, or its message. *)
MayLose(w, t, row) ==
  ActiveOwnerRow(row) => Repeatable(w) /\ ~LastOwner(w, t, row)

LossRefused(w, t, row) ==
  ActiveOwnerRow(row) /\ Repeatable(w) /\ LastOwner(w, t, row)

(* The user's only active workspace, or none. *)
SoleBusiness(u) ==
  IF \E b \in Businesses : ActiveBusinesses(u) = {b}
    THEN CHOOSE b \in Businesses : ActiveBusinesses(u) = {b}
    ELSE NoBusiness

-----------------------------------------------------------------------------
(* login_required and business_required *)

Init ==
  /\ member = [b \in Businesses |-> [u \in Users |-> Absent]]
  /\ current = [u \in Users |-> NoBusiness]
  /\ req = [w \in Workers |-> Idle]

(* login_required (or login itself) loads the user row. *)
LoadUser(w, u) ==
  /\ req[w].pc = "idle"
  /\ req' = [req EXCEPT ![w] = [Idle EXCEPT !.pc = "user", !.actor = u,
                                            !.cur = current[u]]]
  /\ UNCHANGED <<member, current>>

(* One of the candidates (header, cookie, token, current_business) names an *)
(* active workspace.  The header may carry any id, so any may be named.     *)
ResolveNamed(w, b) ==
  LET r == req[w] IN
  /\ r.pc = "user"
  /\ b \in ActiveBusinesses(r.actor)
  /\ req' = [req EXCEPT ![w] = [r EXCEPT !.pc = "scoped", !.biz = b,
                                         !.me = member[b][r.actor]]]
  /\ UNCHANGED <<member, current>>

(* No candidate does, current_business included, and the user has exactly   *)
(* one active membership: it also becomes users.current_business.           *)
ResolveSole(w, b) ==
  LET r == req[w] IN
  /\ r.pc = "user"
  /\ r.cur \notin ActiveBusinesses(r.actor)
  /\ ActiveBusinesses(r.actor) = {b}
  /\ req' = [req EXCEPT ![w] = [r EXCEPT !.pc = "scoped", !.biz = b,
                                         !.me = member[b][r.actor],
                                         !.curDirty = TRUE, !.curRead = TRUE,
                                         !.curNew = b]]
  /\ UNCHANGED <<member, current>>

-----------------------------------------------------------------------------
(* Routes without business_required *)

(* POST /businesses: the new business, its owner membership and the user's  *)
(* workspace appear together at the commit; nothing it wrote was read.      *)
CreateBusiness(w, b) ==
  LET u == req[w].actor IN
  /\ req[w].pc = "user"
  /\ ~Exists(b)
  /\ member' = [member EXCEPT ![b][u] = Founder]
  /\ current' = [current EXCEPT ![u] = b]
  /\ req' = [req EXCEPT ![w] = Idle]

(* POST /businesses/switch: current_business is assigned without being read. *)
Switch(w, b) ==
  LET r == req[w] IN
  /\ r.pc = "user"
  /\ b \in ActiveBusinesses(r.actor)
  /\ req' = [req EXCEPT ![w] = [r EXCEPT !.pc = "checked", !.op = "switch",
                                         !.curDirty = TRUE, !.curNew = b]]
  /\ UNCHANGED <<member, current>>

(* login and me: ensure_default_current_business drops a workspace that is  *)
(* no longer active and falls back on the only active one.                  *)
EnsureDefault(w) ==
  LET r == req[w] IN
  /\ r.pc = "user"
  /\ r.cur \notin ActiveBusinesses(r.actor)
  /\ r.cur # SoleBusiness(r.actor)
  /\ req' = [req EXCEPT ![w] = [r EXCEPT !.pc = "checked", !.op = "default",
                                         !.curDirty = TRUE, !.curRead = TRUE,
                                         !.curNew = SoleBusiness(r.actor)]]
  /\ UNCHANGED <<member, current>>

(* POST /current/members/accept, for the workspace in users.current_business. *)
Accept(w) ==
  LET r == req[w]
      row == member[r.cur][r.actor]
  IN
  /\ r.pc = "user"
  /\ r.cur # NoBusiness
  /\ row.status = "invited"
  /\ req' = [req EXCEPT ![w] =
               [r EXCEPT !.pc = "checked", !.op = "accept", !.biz = r.cur,
                         !.target = r.actor, !.old = row,
                         !.new = [row EXCEPT !.status = "active",
                                             !.joined = TRUE],
                         !.dirty = {"status", "joined"},
                         !.read = {"status", "joined"}]]
  /\ UNCHANGED <<member, current>>

-----------------------------------------------------------------------------
(* Member management: business_required and permission_required(MANAGE_MEMBERS) *)

Managing(w) == req[w].pc = "scoped" /\ req[w].me.role \in Managers

(* What a handler hands to the commit: row t, as loaded and as assigned. *)
Prepare(w, op, t, old, new, dirty, read, reply) ==
  /\ req' = [req EXCEPT ![w] =
               [req[w] EXCEPT !.pc = "checked", !.op = op, !.target = t,
                              !.old = old, !.new = new, !.dirty = dirty,
                              !.read = read, !.reply = reply]]
  /\ UNCHANGED <<member, current>>

(* POST /current/members/invite.  A missing row is inserted (UNIQUE(user,   *)
(* business) refuses it if one has appeared), a removed one is invited      *)
(* again and keeps its joined_at; any other is a conflict.                  *)
Invite(w, t, role) ==
  LET row == member[req[w].biz][t] IN
  /\ Managing(w)
  /\ t # req[w].actor
  /\ role # "owner"
  /\ row.status \in {"absent", "removed"}
  /\ Prepare(w, "invite", t, row,
             [row EXCEPT !.role = role, !.status = "invited"],
             {"role", "status"}, {"status"}, "ok")

(* The tests of update_business_member and update_member_role on the role. *)
RoleAllowed(w, t, row, role) ==
  role # Keep =>
    /\ t = req[w].actor => role = row.role
    /\ role = "owner" => req[w].me.role \in RoleManagers
    /\ row.role = "owner" /\ role # "owner" => MayLose(w, t, row)

(* Mutant: a missing role is assigned like any other. *)
RoleAsSent(row, role) == [row EXCEPT !.role = role]

WithRole(row, role) == IF role = Keep THEN row ELSE [row EXCEPT !.role = role]

(* The columns of the target that a PATCH reads before it assigns them. *)
PatchReads(w, t, row, role, status) ==
  (IF t = req[w].actor THEN {"role", "status"} ELSE {})
  \cup (IF role # Keep \/ status = "removed" THEN {"role"} ELSE {})
  \cup (IF \/ role # Keep /\ row.role = "owner" /\ role # "owner"
           \/ status = "removed" /\ WithRole(row, role).role = "owner"
        THEN {"status"} ELSE {})
  \cup (IF status = "active" THEN {"joined"} ELSE {})

(* PATCH /current/members/<id>, accepted. *)
UpdateMember(w, t, role, status) ==
  LET row == Loaded(w, t)
      taken == WithRole(row, role)
      new == IF status = Keep THEN taken
             ELSE [taken EXCEPT !.status = status,
                                !.joined = @ \/ status = "active"]
      dirty == (IF role # Keep THEN {"role"} ELSE {})
               \cup (IF status # Keep THEN {"status"} ELSE {})
               \cup (IF status = "active" THEN {"joined"} ELSE {})
  IN
  /\ Managing(w)
  /\ row # Absent
  /\ RoleAllowed(w, t, row, role)
  /\ status # Bogus
  /\ status = "removed" /\ taken.role = "owner" => MayLose(w, t, taken)
  /\ Prepare(w, "update", t, row, new, dirty,
             PatchReads(w, t, row, role, status), "ok")

(* Mutant: the status is assigned before the owner guard refuses it. *)
StatusBeforeGuard(w, t, role, status) ==
  LET row == Loaded(w, t)
      taken == WithRole(row, role)
  IN
  /\ Managing(w)
  /\ RoleAllowed(w, t, row, role)
  /\ status = "removed"
  /\ LossRefused(w, t, taken)
  /\ Prepare(w, "update", t, row, [taken EXCEPT !.status = status],
             {"role", "status"}, PatchReads(w, t, row, role, status), "refused")

(* PATCH whose status is refused after its role has been assigned: the      *)
(* response is 400, the session still commits the role.                     *)
UpdateMemberHalf(w, t, role, status) ==
  LET row == Loaded(w, t)
      taken == WithRole(row, role)
  IN
  /\ Managing(w)
  /\ row # Absent
  /\ role # Keep
  /\ RoleAllowed(w, t, row, role)
  /\ \/ status = Bogus
     \/ /\ status = "removed"
        /\ LossRefused(w, t, taken)
  /\ Prepare(w, "update", t, row, taken, {"role"},
             PatchReads(w, t, row, role, status), "refused")

(* DELETE /current/members/<id>. *)
RemoveMember(w, t) ==
  LET row == Loaded(w, t) IN
  /\ Managing(w)
  /\ t # req[w].actor
  /\ row # Absent
  /\ row.role = "owner" => req[w].me.role = "owner"
  /\ MayLose(w, t, row)
  /\ Prepare(w, "remove", t, row, [row EXCEPT !.status = "removed"],
             {"status"},
             IF row.role = "owner" THEN {"role", "status"} ELSE {"role"}, "ok")

-----------------------------------------------------------------------------
(* The end of the db_session *)

(* A request that was only resolved, or refused before it assigned anything, *)
(* commits too: ResolveSole has assigned current_business.                   *)
Commit(w) ==
  LET r == req[w] IN
  /\ r.pc \in {"scoped", "checked"}
  /\ r.dirty # {} => StillCurrent(r.read, r.old, member[r.biz][r.target])
  /\ r.curDirty /\ r.curRead => current[r.actor] = r.cur
  /\ member' = IF r.dirty = {} THEN member
               ELSE [member EXCEPT ![r.biz][r.target] =
                                     Applied(r.dirty, r.new, @)]
  /\ current' = IF r.curDirty THEN [current EXCEPT ![r.actor] = r.curNew]
                ELSE current
  /\ req' = [req EXCEPT ![w] = Idle]

(* UnrepeatableReadError, OptimisticCheckError, a unique violation, a        *)
(* deadlock, a killed worker, or a request that had nothing to write.        *)
Rollback(w) ==
  /\ req[w].pc # "idle"
  /\ req' = [req EXCEPT ![w] = Idle]
  /\ UNCHANGED <<member, current>>

Manage(w, t) ==
  \/ \E role \in RoleInputs : Invite(w, t, role)
  \/ \E role \in RoleInputs \cup {Keep}, status \in StatusInputs \cup {Keep} :
       UpdateMember(w, t, role, status)
  \/ \E role \in RoleInputs, status \in StatusInputs :
       UpdateMemberHalf(w, t, role, status)
  \/ RemoveMember(w, t)

Next ==
  \E w \in Workers :
    \/ \E u \in Users : LoadUser(w, u)
    \/ \E b \in Businesses : ResolveNamed(w, b)
    \/ \E b \in Businesses : ResolveSole(w, b)
    \/ \E b \in Businesses : CreateBusiness(w, b)
    \/ \E b \in Businesses : Switch(w, b)
    \/ EnsureDefault(w)
    \/ Accept(w)
    \/ \E t \in Users : Manage(w, t)
    \/ Commit(w)
    \/ Rollback(w)

Spec == Init /\ [][Next]_vars

-----------------------------------------------------------------------------
(* Properties *)

(* Every variable keeps its type; in particular the text a client sends as  *)
(* a status reaches the table only through MembershipStatus(...).           *)
TypeOK ==
  /\ member \in [Businesses -> [Users -> Row]]
  /\ current \in [Users -> Businesses \cup {NoBusiness}]
  /\ req \in [Workers -> Request]

(* "Every business must have at least one owner": a business that exists has *)
(* an active owner, whatever its owners do to one another.                   *)
EveryBusinessHasOwner ==
  \A b \in Businesses : Exists(b) => ActiveOwners(member[b]) # {}

(* The request of worker w leaves its session in this step. *)
Ends(w) == req[w].pc # "idle" /\ req'[w].pc = "idle"

(* With one request at a time, the owner guard of update_member_role and    *)
(* remove_member misses one way only to take the last active owner away: a   *)
(* PATCH that suspends the owner or sends them back to invited.              *)
OwnerLossOnlyBySuspension ==
  [][\A b \in Businesses :
       ActiveOwners(member[b]) # {} /\ ActiveOwners(member'[b]) = {} =>
         \E u \in ActiveOwners(member[b]) :
           member'[b][u].status \in {"suspended", "invited"}]_vars

(* With one request at a time, a user is given the owner role in an existing *)
(* business only by someone who is an active owner of it at that moment.     *)
OwnerGrantedByOwner ==
  [][\A b \in Businesses, u \in Users :
       member[b][u].role # "owner" /\ member'[b][u].role = "owner" =>
         \/ ~Exists(b)
         \/ \E w \in Workers : Ends(w) /\ req[w].actor \in ActiveOwners(member[b])]_vars

(* A PATCH answered with 400 may have saved the role (the session commits),  *)
(* but never the status, nor joined_at.                                      *)
RefusedKeepsStatus ==
  [][\A w \in Workers :
       Ends(w) /\ req[w].reply = "refused" =>
         \A b \in Businesses, u \in Users :
           /\ member'[b][u].status = member[b][u].status
           /\ member'[b][u].joined = member[b][u].joined]_vars

(* An invitation is saved only over a missing or removed membership, and an  *)
(* acceptance only over a pending invitation, although both were decided on   *)
(* a row read earlier, which another worker may have changed since.           *)
StaleDecisionsAreRefused ==
  [][\A w \in Workers :
       Ends(w) /\ member' # member /\ req[w].op \in {"invite", "accept"} =>
         member[req[w].biz][req[w].target].status \in
           (IF req[w].op = "invite" THEN {"absent", "removed"}
                                    ELSE {"invited"})]_vars

(* A removed member comes back only by a new invitation or by a PATCH that   *)
(* sets the status: no request that was in flight when the member was        *)
(* removed brings them back by saving what it had read.                      *)
RemovalOutlivesStaleRequests ==
  [][\A b \in Businesses, u \in Users :
       member[b][u].status = "removed" /\ member'[b][u].status # "removed" =>
         \E w \in Workers :
           /\ Ends(w)
           /\ req[w].op \in {"invite", "update"}
           /\ "status" \in req[w].dirty]_vars

(* The workspace a user works in is one that has admitted them: no order of  *)
(* switches, logins, removals and invitations makes current_business point   *)
(* to a business the user never joined.                                      *)
WorkspaceWasJoined ==
  \A u \in Users : current[u] # NoBusiness => member[current[u]][u].joined

(* A user joins a business for the first time by founding it or through a    *)
(* manager's PATCH, never through the accept route: it acts on               *)
(* current_business, which cannot be a business not yet joined.              *)
FirstJoinNeedsManager ==
  [][\A b \in Businesses, u \in Users :
       ~member[b][u].joined /\ member'[b][u].joined =>
         \/ ~Exists(b)
         \/ \E w \in Workers : Ends(w) /\ req[w].op = "update"]_vars

(* The abstract specification, on the committed tables. *)
R == INSTANCE Roster WITH member <- member, current <- current

(* Interleaved requests change the tables as the atomic operations of the    *)
(* membership lifecycle would.                                               *)
ImplementsRoster == R!Spec

=============================================================================
