-------------------------------- MODULE Rbac --------------------------------
(***************************************************************************)
(* The seeding of the role-permission links by every process that starts      *)
(* (ensure_rbac_seeded) and the cache of them each process fills at its first  *)
(* permission check and keeps for life (_permission_keys_for_role).  Processes *)
(* of several releases may run and restart side by side.  The roles and        *)
(* permissions are there already; Migrations has the first seeding.            *)
(***************************************************************************)
CONSTANTS
  Processes,
  Nobody,     \* holds no lock
  Roles, Permissions,
  Releases,   \* versions of the code
  Grants      \* Grants[v]: ROLE_PERMISSION_KEYS of release v, as <<role, permission>>

ASSUME RbacAssumption ==
  /\ Nobody \notin Processes
  /\ Grants \in [Releases -> SUBSET (Roles \X Permissions)]

VARIABLES
  links,    \* role_permissions, as committed
  holder,   \* who has the row of the first permission locked
  proc      \* proc[p]: what process p is doing and what it has cached

rbacVars == <<links, holder, proc>>

Link == Roles \X Permissions

(* todo: the roles still to seed or to cache; inserted and deleted: the rows   *)
(* of the open transaction; cached: the cache, complete once todo is empty;    *)
(* seen: the releases whose table was there since p seeded, until its cache    *)
(* was complete.                                                               *)
Process ==
  [pc : {"down", "starting", "seeding", "up"},
   release : Releases,
   todo : SUBSET Roles,
   inserted : SUBSET Link,
   deleted : SUBSET Link,
   cached : SUBSET Link,
   seen : SUBSET Releases]

Begun(pc, v, todo) ==
  [pc |-> pc, release |-> v, todo |-> todo, inserted |-> {}, deleted |-> {},
   cached |-> {}, seen |-> {}]

RbacInit ==
  /\ \E v \in Releases : links = Grants[v]
  /\ holder = Nobody
  /\ proc \in [Processes -> {Begun("down", v, {}) : v \in Releases}]

LinksOf(role, table) == {l \in table : l[1] = role}

-----------------------------------------------------------------------------
(* ensure_rbac_seeded *)

(* clear_permission_cache, in a process of whatever release is deployed. *)
Start(p, v) ==
  /\ proc[p].pc = "down"
  /\ proc' = [proc EXCEPT ![p] = Begun("starting", v, {})]
  /\ UNCHANGED <<links, holder>>

(* Mutant: the permissions are only looked up, not updated. *)
SeedPermissionsUnlocked(p) ==
  /\ proc[p].pc = "starting"
  /\ holder' = p
  /\ proc' = [proc EXCEPT ![p] = Begun("seeding", proc[p].release, Roles)]
  /\ UNCHANGED links

(* The permissions and roles.  The UPDATE of the first permission locks its    *)
(* row to the end of the transaction, so a second seeding waits here.          *)
SeedPermissions(p) ==
  /\ proc[p].pc = "starting"
  /\ holder = Nobody
  /\ holder' = p
  /\ proc' = [proc EXCEPT ![p] = Begun("seeding", proc[p].release, Roles)]
  /\ UNCHANGED links

(* Mutant: links that are no longer desired stay. *)
SeedRoleOnlyInserts(p, role) ==
  LET desired == LinksOf(role, Grants[proc[p].release])
      existing == LinksOf(role, links)
  IN
  /\ proc[p].pc = "seeding"
  /\ role \in proc[p].todo
  /\ proc' = [proc EXCEPT
       ![p].todo = proc[p].todo \ {role},
       ![p].inserted = proc[p].inserted \cup (desired \ existing)]
  /\ UNCHANGED <<links, holder>>

(* The difference between what the role should have and what it has. *)
SeedRole(p, role) ==
  LET desired == LinksOf(role, Grants[proc[p].release])
      existing == LinksOf(role, links)
  IN
  /\ proc[p].pc = "seeding"
  /\ role \in proc[p].todo
  /\ proc' = [proc EXCEPT
       ![p].todo = proc[p].todo \ {role},
       ![p].inserted = proc[p].inserted \cup (desired \ existing),
       ![p].deleted = proc[p].deleted \cup (existing \ desired)]
  /\ UNCHANGED <<links, holder>>

(* Caches that are not complete may hold what is committed now. *)
SeedCommit(p) ==
  /\ proc[p].pc = "seeding"
  /\ proc[p].todo = {}
  /\ links' = (links \ proc[p].deleted) \cup proc[p].inserted
  /\ holder' = Nobody
  /\ proc' = [q \in Processes |->
       IF q = p
       THEN [Begun("up", proc[p].release, Roles) EXCEPT !.seen = {proc[p].release}]
       ELSE IF proc[q].pc = "up" /\ proc[q].todo # {}
       THEN [proc[q] EXCEPT !.seen = proc[q].seen \cup {proc[p].release}]
       ELSE proc[q]]

-----------------------------------------------------------------------------
(* _permission_keys_for_role *)

(* One role's links, each read for itself. *)
CacheRole(p, role) ==
  /\ proc[p].pc = "up"
  /\ role \in proc[p].todo
  /\ proc' = [proc EXCEPT
       ![p].todo = proc[p].todo \ {role},
       ![p].cached = proc[p].cached \cup LinksOf(role, links)]
  /\ UNCHANGED <<links, holder>>

(* A request that fails before the cache is complete leaves none. *)
DropCache(p) ==
  /\ proc[p].pc = "up"
  /\ proc[p].todo \notin {{}, Roles}
  /\ proc' = [proc EXCEPT ![p].todo = Roles, ![p].cached = {}]
  /\ UNCHANGED <<links, holder>>

(* An open transaction is rolled back. *)
Die(p) ==
  /\ proc[p].pc # "down"
  /\ proc' = [proc EXCEPT ![p] = Begun("down", proc[p].release, {})]
  /\ holder' = IF holder = p THEN Nobody ELSE holder
  /\ UNCHANGED links

Boot(p) ==
  \/ \E v \in Releases : Start(p, v)
  \/ SeedPermissions(p)
  \/ \E role \in Roles : SeedRole(p, role)
  \/ SeedCommit(p)

RbacNext ==
  \E p \in Processes :
    \/ Boot(p)
    \/ \E role \in Roles : CacheRole(p, role)
    \/ DropCache(p)
    \/ Die(p)

RbacSpec == RbacInit /\ [][RbacNext]_rbacVars

-----------------------------------------------------------------------------
(* Properties *)

RbacTypeOK ==
  /\ links \subseteq Link
  /\ proc \in [Processes -> Process]
  /\ holder # Nobody => holder \in Processes /\ proc[holder].pc = "seeding"

(* What a process believes a role may do, for the rest of its life, is what    *)
(* one release grants, and a release whose table was there between the         *)
(* process's own seeding and the end of its first permission check.  Unless    *)
(* another release seeded in that time it is therefore its own release; if one *)
(* did, two roles may be cached as of two releases.                            *)
CachedAsGranted ==
  \A p \in Processes :
    \A role \in Roles \ proc[p].todo :
      proc[p].pc = "up" =>
        \E v \in proc[p].seen : LinksOf(role, proc[p].cached) = LinksOf(role, Grants[v])

Table == INSTANCE PermissionTable WITH table <- links

(* However processes that start together, die half way or belong to different  *)
(* releases interleave, the committed links change from the complete table of  *)
(* one release to that of another.                                             *)
SeedsWholeTables == Table!Spec

=============================================================================
