----------------------------- MODULE Migrations -----------------------------
(***************************************************************************)
(* The start-up of a process on a database that exists: the API's            *)
(* entrypoint, the development server and the Celery worker migrate           *)
(* (run_pending_migrations) and then seed (ensure_rbac_seeded), the Gunicorn  *)
(* workers behind the entrypoint only seed.  A starter that migrates runs     *)
(*   - a transaction with ensure_table and every pending migration, up to     *)
(*     the commit() inside ensure_rbac_seeded, which 1779792000 calls half    *)
(*     way through;                                                          *)
(*   - a second transaction with the other half of 1779792000 and its mark;   *)
(*   - a third that seeds again.                                             *)
(* PostgreSQL's DDL is transactional, and an ALTER TABLE keeps its table      *)
(* locked until the transaction ends; a starter that waits in a cycle of      *)
(* locks is chosen as a deadlock victim.  The migrations are numbered 1 to 4  *)
(* for 1779788648, 1779790000, 1779791000 and 1779792000.                     *)
(* The locks on a table are one exclusive lock here: "version" stands for     *)
(* database_version, "members" for business_memberships, "rbac" for the rows  *)
(* of the three tables that the seeding writes and the foreign key locks.     *)
(***************************************************************************)
EXTENDS Naturals, FiniteSets

CONSTANTS
  Starters,      \* processes that start
  Skipping,      \* those of them that run with SKIP_MIGRATIONS=1
  Users,
  LegacyRoles,   \* users.role before memberships existed
  None,          \* no membership, no legacy business
  Nobody,        \* the holder of a free lock
  Install,       \* INSTALL_MODE=1: Pony creates the missing tables first
  MaxKills       \* bound: how many starters are killed

RoleKeys == {"owner", "admin", "staff", "support"}

ASSUME LegacyAssumption ==
  /\ LegacyRoles \subseteq RoleKeys \cup {"user", "unset"}
  /\ None \notin RoleKeys \cup {"user", "unset"}

ASSUME StarterAssumption ==
  /\ Skipping \subseteq Starters
  /\ Nobody \notin Starters
  /\ Install \in BOOLEAN
  /\ MaxKills \in Nat

Files == 1..4

Tables == {"version", "members", "rbac"}

VARIABLES
  db,       \* what is committed
  work,     \* work[p]: the fields p has written in its open transaction
  lock,     \* lock[t]: the starter whose transaction has table t locked
  st,       \* st[p]: where starter p is
  kills,    \* how many starters have been killed
  origin    \* origin[u]: the role of u in the business of the legacy users row

vars == <<db, work, lock, st, kills, origin>>

(* table: database_version exists.  users: with business and role columns    *)
(* ("legacy") or current_business.  members: with a composite primary key    *)
(* ("bare") or an id.  unique: UNIQUE(user, business).  role: the role of    *)
(* each user's membership in the legacy business.  current: the users whose  *)
(* current_business is that business.                                        *)
Database ==
  [table : BOOLEAN,
   versions : SUBSET Files,
   users : {"none", "legacy", "current"},
   members : {"none", "bare", "serial"},
   roleCol : {"none", "text", "fk"},
   unique : BOOLEAN,
   rbac : {"none", "empty", "seeded"},
   role : [Users -> RoleKeys \cup {"user", "unset", None}],
   current : SUBSET Users]

Blank ==
  [table |-> FALSE, versions |-> {}, users |-> "none", members |-> "none",
   roleCol |-> "none", unique |-> FALSE, rbac |-> "none",
   role |-> [u \in Users |-> None], current |-> {}]

Starter ==
  [pc : {"down", "ensure", "creating", "run", "seed", "seeding", "seeded",
         "decide", "alter", "link", "mark", "commit", "up", "failed"},
   saw : {"none", "empty", "seeded"},   \* rbac, as the seeding read it
   last : BOOLEAN]                      \* the seeding after the migrations

Down == [pc |-> "down", saw |-> "none", last |-> FALSE]

-----------------------------------------------------------------------------
(* The migrations, as the fields they change in the database v *)

(* 1779788648 *)
AddUsers(v) == [users |-> IF v.users = "none" THEN "current" ELSE v.users]

(* role or "owner" *)
RoleOrOwner(role) == IF role = "unset" THEN "owner" ELSE role

(* Mutant: the existence check is on the membership table, not on the row. *)
InsertNothing(v) == v.role

(* One membership for every users row with a business that has none yet. *)
InsertMemberships(v) ==
  [u \in Users |-> IF v.users = "legacy" /\ v.role[u] = None /\ origin[u] # None
                   THEN RoleOrOwner(origin[u]) ELSE v.role[u]]

(* 1779790000 *)
MoveToMemberships(v) ==
  [users |-> "current",
   members |-> IF v.members = "none" THEN "serial" ELSE v.members,
   roleCol |-> IF v.roleCol = "none" THEN "text" ELSE v.roleCol,
   unique |-> TRUE,
   role |-> InsertMemberships(v),
   current |-> IF v.users = "legacy" THEN {u \in Users : origin[u] # None}
               ELSE v.current]

(* Mutant: the unique constraint is added, the table not rebuilt. *)
AddUniqueOnly(v) ==
  [members |-> v.members, unique |-> v.unique \/ v.members # "none"]

(* 1779791000 *)
AddSerialId(v) ==
  [members |-> IF v.members = "bare" THEN "serial" ELSE v.members,
   unique |-> v.unique \/ v.members # "none"]

(* The first half of 1779792000. *)
CreateRbacTables(v) == [rbac |-> IF v.rbac = "none" THEN "empty" ELSE v.rbac]

(* column_data_type: db.select returns the values of a single column bare,   *)
(* so rows[0][0] is the first letter of the type.                            *)
ColumnDataType(roleCol) == IF roleCol = "fk" THEN "i" ELSE "t"

MembershipRoleUsesFk(v) ==
  ColumnDataType(v.roleCol) \in {"integer", "bigint", "smallint"}

(* Mutant: the aliases of earlier versions are forgotten. *)
LinkByKeyOnly(role) == IF role = "user" THEN "unset" ELSE role

(* The two UPDATEs that set role_id. *)
LinkedRole(role) == IF role = "user" THEN "staff" ELSE role

(* Mutant: role_id is not renamed. *)
LinkWithoutRename(v) ==
  [roleCol |-> "role_id", role |-> [u \in Users |-> LinkedRole(v.role[u])]]

(* The second half of 1779792000. *)
LinkRoles(v) ==
  [roleCol |-> "fk", role |-> [u \in Users |-> LinkedRole(v.role[u])]]

-----------------------------------------------------------------------------
(* Transactions and locks *)

(* What p sees: the committed database under its own writes. *)
Visible(p) ==
  [f \in DOMAIN db |-> IF f \in DOMAIN work[p] THEN work[p][f] ELSE db[f]]

NoWrites == [f \in {} |-> None]

Available(p, t) == lock[t] \in {p, Nobody}

Released(p) == [t \in Tables |-> IF lock[t] = p THEN Nobody ELSE lock[t]]

Goto(p, pc) == st' = [st EXCEPT ![p].pc = pc]

Write(p, changes) ==
  work' = [work EXCEPT ![p] =
             [f \in DOMAIN changes \cup DOMAIN work[p] |->
                IF f \in DOMAIN changes THEN changes[f] ELSE work[p][f]]]

CommitWork(p) ==
  /\ db' = Visible(p)
  /\ work' = [work EXCEPT ![p] = NoWrites]
  /\ lock' = Released(p)

(* An exception leaves run_pending_migrations: rollback, and the process ends. *)
Fail(p) ==
  /\ work' = [work EXCEPT ![p] = NoWrites]
  /\ lock' = Released(p)
  /\ st' = [st EXCEPT ![p] = [Down EXCEPT !.pc = "failed"]]
  /\ UNCHANGED db

-----------------------------------------------------------------------------

(* Databases this code may meet: a new one, and those of its earlier versions. *)
Inherited(was) ==
  LET rows == [u \in Users |-> IF was[u] = None THEN None ELSE RoleOrOwner(was[u])]
      moved == [Blank EXCEPT !.table = TRUE, !.users = "current", !.roleCol = "text",
                             !.role = rows, !.current = {u \in Users : was[u] # None}]
  IN
  {[Blank EXCEPT !.table = TRUE, !.versions = {1}, !.users = "legacy"],
   [moved EXCEPT !.versions = {1, 2}, !.members = "bare"],
   [moved EXCEPT !.versions = {1, 2}, !.members = "serial", !.unique = TRUE],
   [moved EXCEPT !.versions = {1, 2, 3}, !.members = "serial", !.unique = TRUE]}

Init ==
  /\ origin \in [Users -> LegacyRoles \cup {None}]
  /\ Install => \A u \in Users : origin[u] = None
  /\ db \in IF \A u \in Users : origin[u] = None THEN {Blank} ELSE Inherited(origin)
  /\ work = [p \in Starters |-> NoWrites]
  /\ lock = [t \in Tables |-> Nobody]
  /\ st = [p \in Starters |-> Down]
  /\ kills = 0

(* generate_mapping(create_tables=True), in a transaction of its own. *)
CreateTables ==
  [db EXCEPT !.users = IF db.users = "none" THEN "current" ELSE db.users,
             !.members = IF db.members = "none" THEN "serial" ELSE db.members,
             !.roleCol = IF db.roleCol = "none" THEN "fk" ELSE db.roleCol,
             !.rbac = IF db.rbac = "none" THEN "empty" ELSE db.rbac]

(* init_database up to the migrations; a failed starter is started again. *)
Start(p) ==
  /\ p \notin Skipping
  /\ st[p].pc \in {"down", "failed"}
  /\ db' = IF Install THEN CreateTables ELSE db
  /\ st' = [st EXCEPT ![p] = [Down EXCEPT !.pc = "ensure"]]
  /\ UNCHANGED <<work, lock, kills, origin>>

(* Mutant: the workers do not wait for the entrypoint. *)
EntrypointIgnored == TRUE

EntrypointIsUp == \E q \in Starters \ Skipping : st[q].pc = "up"

(* The entrypoint runs Gunicorn only after it has migrated itself; the       *)
(* workers then go straight to the seeding.                                  *)
StartWorker(p) ==
  /\ p \in Skipping
  /\ st[p].pc \in {"down", "failed"}
  /\ EntrypointIsUp
  /\ st' = [st EXCEPT ![p] = [Down EXCEPT !.pc = "seed", !.last = TRUE]]
  /\ UNCHANGED <<db, work, lock, kills, origin>>

(* ensure_table: its ALTER TABLEs lock database_version even when the        *)
(* columns exist, so another starter waits here.                             *)
EnsureTable(p) ==
  /\ st[p].pc = "ensure"
  /\ Available(p, "version")
  /\ lock' = [lock EXCEPT !["version"] = p]
  /\ Write(p, [table |-> TRUE])
  /\ Goto(p, "run")
  /\ UNCHANGED <<db, kills, origin>>

(* Another transaction has created the table and not committed: CREATE TABLE *)
(* waits for it,                                                             *)
WaitForCreation(p) ==
  /\ st[p].pc = "ensure"
  /\ ~db.table
  /\ ~Available(p, "version")
  /\ Goto(p, "creating")
  /\ UNCHANGED <<db, work, lock, kills, origin>>

(* and creates the table after all when that transaction rolled back,        *)
CreationFree(p) ==
  /\ st[p].pc = "creating"
  /\ ~db.table
  /\ Available(p, "version")
  /\ lock' = [lock EXCEPT !["version"] = p]
  /\ Write(p, [table |-> TRUE])
  /\ Goto(p, "run")
  /\ UNCHANGED <<db, kills, origin>>

(* or fails on a duplicate key of the catalogue when it committed.           *)
CreationTaken(p) ==
  /\ st[p].pc = "creating"
  /\ db.table
  /\ Fail(p)
  /\ UNCHANGED <<kills, origin>>

Pending(v, n) == n \notin v.versions /\ \A m \in 1..(n - 1) : m \in v.versions

(* A pending migration and mark_executed, in the transaction that has        *)
(* database_version locked.                                                  *)
RunMigration(p, n) ==
  LET v == Visible(p)
      up == CASE n = 1 -> AddUsers(v)
              [] n = 2 -> MoveToMemberships(v)
              [] n = 3 -> AddSerialId(v)
  IN
  /\ st[p].pc = "run"
  /\ n # 4
  /\ Pending(v, n)
  /\ Write(p, [f \in DOMAIN up \cup {"versions"} |->
                 IF f = "versions" THEN v.versions \cup {n} ELSE up[f]])
  /\ UNCHANGED <<db, lock, st, kills, origin>>

(* Mutant: the tables are created without asking whether they exist. *)
RunRbacMigrationOnce(p) ==
  /\ st[p].pc = "run"
  /\ Pending(Visible(p), 4)
  /\ IF Visible(p).rbac # "none"
     THEN Fail(p)
     ELSE /\ Write(p, CreateRbacTables(Visible(p)))
          /\ Goto(p, "seed")
          /\ UNCHANGED <<db, lock>>
  /\ UNCHANGED <<kills, origin>>

(* 1779792000 up to its ensure_rbac_seeded. *)
RunRbacMigration(p) ==
  /\ st[p].pc = "run"
  /\ Pending(Visible(p), 4)
  /\ Write(p, CreateRbacTables(Visible(p)))
  /\ Goto(p, "seed")
  /\ UNCHANGED <<db, lock, kills, origin>>

NonePending(p) ==
  /\ st[p].pc = "run"
  /\ Visible(p).versions = Files
  /\ Goto(p, "commit")
  /\ UNCHANGED <<db, work, lock, kills, origin>>

-----------------------------------------------------------------------------
(* ensure_rbac_seeded *)

(* The first Permission.get, before anything is written. *)
SeedRead(p) ==
  /\ st[p].pc = "seed"
  /\ st' = [st EXCEPT ![p].pc = "seeding", ![p].saw = Visible(p).rbac]
  /\ UNCHANGED <<db, work, lock, kills, origin>>

(* Inserts what was missing and updates the rest.  Rows that were missing    *)
(* and have been inserted meanwhile violate the unique key.                  *)
SeedWrite(p) ==
  /\ st[p].pc = "seeding"
  /\ Available(p, "rbac")
  /\ IF st[p].saw = "empty" /\ Visible(p).rbac = "seeded"
     THEN Fail(p)
     ELSE /\ lock' = [lock EXCEPT !["rbac"] = p]
          /\ Write(p, [rbac |-> "seeded"])
          /\ Goto(p, "seeded")
          /\ UNCHANGED db
  /\ UNCHANGED <<kills, origin>>

(* Mutant: the last seeding leaves its transaction open. *)
SeedWithoutCommit(p) ==
  /\ st[p].pc = "seeded"
  /\ IF st[p].last THEN UNCHANGED <<db, work, lock>> ELSE CommitWork(p)
  /\ Goto(p, IF st[p].last THEN "up" ELSE "decide")
  /\ UNCHANGED <<kills, origin>>

(* commit(), whatever transaction the seeding was called in. *)
SeedCommit(p) ==
  /\ st[p].pc = "seeded"
  /\ CommitWork(p)
  /\ Goto(p, IF st[p].last THEN "up" ELSE "decide")
  /\ UNCHANGED <<kills, origin>>

-----------------------------------------------------------------------------
(* _migrate_membership_role_text_to_fk and the end of the migrations.  The   *)
(* table and its role column exist, and role_id never outlives a transaction. *)

Decide(p) ==
  /\ st[p].pc = "decide"
  /\ Goto(p, IF MembershipRoleUsesFk(Visible(p)) THEN "mark" ELSE "alter")
  /\ UNCHANGED <<db, work, lock, kills, origin>>

(* add_fk_column, first the column, *)
AddRoleId(p) ==
  /\ st[p].pc = "alter"
  /\ Available(p, "members")
  /\ lock' = [lock EXCEPT !["members"] = p]
  /\ Goto(p, "link")
  /\ UNCHANGED <<db, work, kills, origin>>

(* Mutant: the helper commits, before the mark. *)
LinkAndCommit(p) ==
  LET v == Visible(p) IN
  /\ st[p].pc = "link"
  /\ Available(p, "rbac")
  /\ IF \/ v.roleCol = "fk"
        \/ \E u \in Users : LinkedRole(v.role[u]) = "unset"
     THEN Fail(p)
     ELSE /\ db' = [v EXCEPT !.roleCol = "fk", !.role = LinkRoles(v).role]
          /\ lock' = Released(p)
          /\ Goto(p, "mark")
          /\ UNCHANGED work
  /\ UNCHANGED <<kills, origin>>

(* then the constraint, which locks roles; the UPDATEs, the old column       *)
(* dropped, the new one renamed and set NOT NULL.  The UPDATE compares       *)
(* bm.role with r.key, which an integer column does not allow.               *)
LinkMemberships(p) ==
  LET v == Visible(p) IN
  /\ st[p].pc = "link"
  /\ Available(p, "rbac")
  /\ IF \/ v.roleCol = "fk"
        \/ \E u \in Users : LinkedRole(v.role[u]) = "unset"
     THEN Fail(p)
     ELSE /\ lock' = [lock EXCEPT !["rbac"] = p]
          /\ Write(p, LinkRoles(v))
          /\ Goto(p, "mark")
          /\ UNCHANGED db
  /\ UNCHANGED <<kills, origin>>

MarkExecuted(p) ==
  /\ st[p].pc = "mark"
  /\ Available(p, "version")
  /\ lock' = [lock EXCEPT !["version"] = p]
  /\ Write(p, [versions |-> Visible(p).versions \cup {4}])
  /\ Goto(p, "commit")
  /\ UNCHANGED <<db, kills, origin>>

(* The db_session of run_pending_migrations ends; init_database seeds.       *)
CommitMigrations(p) ==
  /\ st[p].pc = "commit"
  /\ CommitWork(p)
  /\ st' = [st EXCEPT ![p] = [pc |-> "seed", saw |-> "none", last |-> TRUE]]
  /\ UNCHANGED <<kills, origin>>

-----------------------------------------------------------------------------
(* Failures *)

(* The lock p is waiting for. *)
Wants(p, t) ==
  /\ \/ st[p].pc \in {"ensure", "creating", "mark"} /\ t = "version"
     \/ st[p].pc = "alter" /\ t = "members"
     \/ st[p].pc \in {"seeding", "link"} /\ t = "rbac"
  /\ ~Available(p, t)

Deadlocked(p) ==
  \E q \in Starters \ {p}, t, s \in Tables :
    Wants(p, t) /\ lock[t] = q /\ Wants(q, s) /\ lock[s] = p

(* deadlock_timeout: PostgreSQL aborts one of two starters that wait for     *)
(* each other.                                                               *)
DeadlockVictim(p) ==
  /\ Deadlocked(p)
  /\ Fail(p)
  /\ UNCHANGED <<kills, origin>>

Migrating(p) == st[p].pc \notin {"down", "failed", "up"}

(* Processes or their connections die: one, or all when the server goes. *)
Kill(dead) ==
  /\ dead # {}
  /\ \A p \in dead : Migrating(p)
  /\ kills < MaxKills
  /\ kills' = kills + 1
  /\ work' = [p \in Starters |-> IF p \in dead THEN NoWrites ELSE work[p]]
  /\ lock' = [t \in Tables |-> IF lock[t] \in dead THEN Nobody ELSE lock[t]]
  /\ st' = [p \in Starters |-> IF p \in dead THEN [Down EXCEPT !.pc = "failed"]
                               ELSE st[p]]
  /\ UNCHANGED <<db, origin>>

Step(p) ==
  \/ Start(p) \/ StartWorker(p)
  \/ EnsureTable(p) \/ WaitForCreation(p) \/ CreationFree(p) \/ CreationTaken(p)
  \/ \E n \in Files : RunMigration(p, n)
  \/ RunRbacMigration(p) \/ NonePending(p)
  \/ SeedRead(p) \/ SeedWrite(p) \/ SeedCommit(p)
  \/ Decide(p) \/ AddRoleId(p) \/ LinkMemberships(p) \/ MarkExecuted(p)
  \/ CommitMigrations(p)
  \/ DeadlockVictim(p)

Next == (\E p \in Starters : Step(p)) \/ \E dead \in SUBSET Starters : Kill(dead)

Spec == Init /\ [][Next]_vars

(* The steps that wait for a lock. *)
TakeLock(p) ==
  EnsureTable(p) \/ SeedWrite(p) \/ AddRoleId(p) \/ LinkMemberships(p) \/ MarkExecuted(p)

-----------------------------------------------------------------------------
(* Properties *)

TypeOK ==
  /\ db \in Database
  /\ \A p \in Starters : Visible(p) \in Database
  /\ lock \in [Tables -> Starters \cup {Nobody}]
  /\ st \in [Starters -> Starter]
  /\ kills \in 0..MaxKills
  /\ origin \in [Users -> LegacyRoles \cup {None}]

Migrated ==
  /\ db.versions = Files
  /\ db.users = "current"
  /\ db.members = "serial" /\ db.unique
  /\ db.rbac = "seeded"
  /\ db.roleCol = "fk" /\ \A u \in Users : db.role[u] \in RoleKeys \cup {None}

(* What database_version says has been executed has been, whatever commits   *)
(* half way through, is killed or runs twice: a marked migration's effect is *)
(* there, and no migration is marked before those it builds on.              *)
MarksAreTrue ==
  /\ \A n \in db.versions : 1..n \subseteq db.versions
  /\ 1 \in db.versions => db.users # "none"
  /\ 2 \in db.versions => db.users = "current" /\ db.members # "none"
  /\ 3 \in db.versions => db.members = "serial" /\ db.unique
  /\ 4 \in db.versions => Migrated

(* No crash, rerun or race loses the business of a legacy user: either the   *)
(* users row still has it or a membership and the user's workspace do, with  *)
(* the role the user had.                                                    *)
MembershipsSurvive ==
  \A u \in Users :
    origin[u] # None /\ db.users # "legacy" =>
      /\ u \in db.current
      /\ db.role[u] = IF db.roleCol = "fk" THEN LinkedRole(RoleOrOwner(origin[u]))
                      ELSE RoleOrOwner(origin[u])

(* Starters that get in one another's way do not all give up: when every     *)
(* starter that migrates has ended and none was killed, the database is      *)
(* migrated.                                                                 *)
SomeStarterSucceeds ==
  kills = 0 /\ (\A p \in Starters \ Skipping : st[p].pc \in {"failed", "up"}) =>
    Migrated

(* A starter that is up has a migrated database under it. *)
UpMeansMigrated == \A p \in Starters : st[p].pc = "up" => Migrated

=============================================================================
