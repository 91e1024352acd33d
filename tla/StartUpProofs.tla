---------------------------- MODULE StartUpProofs ----------------------------
(***************************************************************************)
(* Theorems about StartUp, for every set of starters, of users and of legacy *)
(* roles, with and without INSTALL_MODE, whoever dies in the migrations or the  *)
(* seeding, and however often.                                               *)
(***************************************************************************)
EXTENDS StartUp, TLAPS

Fields == {"table", "versions", "users", "members", "roleCol", "unique", "rbac",
           "role", "current"}

(* Migrated and MarksAreTrue, of any view of the database. *)
Done(v) ==
  /\ v.versions = Files
  /\ v.users = "current"
  /\ v.members = "serial" /\ v.unique
  /\ v.rbac = "seeded"
  /\ v.roleCol = "fk" /\ \A u \in Users : v.role[u] \in RoleKeys \cup {None}

Marks(v) ==
  /\ \A n \in v.versions : 1..n \subseteq v.versions
  /\ 1 \in v.versions => v.users # "none"
  /\ 2 \in v.versions => v.users = "current" /\ v.members # "none"
  /\ 3 \in v.versions => v.members = "serial" /\ v.unique
  /\ 4 \in v.versions => Done(v)

Seeding(p) == st[p].pc \in {"seed", "seeding", "seeded"}

(* The transaction that runs the migrations, *)
First(p) == st[p].pc = "run" \/ (Seeding(p) /\ ~st[p].last)

(* the one that links the memberships, up to the mark. *)
Second(p) == st[p].pc \in {"decide", "alter", "link", "mark"}

(* Whoever writes the versions, or what the marks speak of, holds the lock of *)
(* database_version; the others have written as little as this.               *)
Wrote(p) ==
  CASE First(p) \/ st[p].pc = "commit" -> Fields
    [] st[p].pc = "mark" -> {"roleCol", "role"}
    [] st[p].pc = "seeded" /\ st[p].last -> {"rbac"}
    [] OTHER -> {}

WorkInv(p) ==
  /\ DOMAIN work[p] \subseteq Wrote(p)
  /\ st[p].last => Seeding(p) \/ st[p].pc = "up"
  /\ First(p) \/ st[p].pc = "commit" =>
       lock["version"] = p /\ db.versions \subseteq Visible(p).versions
  /\ First(p) => Marks(Visible(p))
  /\ Seeding(p) /\ ~st[p].last =>
       1..3 \subseteq Visible(p).versions /\ 4 \notin Visible(p).versions
  /\ st[p].pc = "seeded" => Visible(p).rbac = "seeded"
  /\ Second(p) => 1..3 \subseteq db.versions /\ db.rbac = "seeded"
  /\ st[p].pc = "mark" =>
       /\ {"roleCol", "role"} \subseteq DOMAIN work[p]
       /\ work[p]["roleCol"] = "fk"
       /\ \A u \in Users : work[p]["role"][u] \in RoleKeys \cup {None}
  /\ st[p].pc = "commit" => Done(Visible(p))
  /\ (Seeding(p) /\ st[p].last) \/ st[p].pc = "up" => Done(db)

IInv ==
  /\ TypeOK
  /\ work = [p \in Starters |-> work[p]]
  /\ Marks(db)
  /\ \A p \in Starters : WorkInv(p)

(* A view in which more has been created and seeded. *)
Grown(v, w) ==
  /\ w.versions = v.versions /\ w.unique = v.unique /\ w.role = v.role
  /\ w.users = v.users \/ (v.users = "none" /\ w.users # "none")
  /\ w.members = v.members \/ (v.members = "none" /\ w.members # "none")
  /\ w.roleCol = v.roleCol \/ v.roleCol = "none"
  /\ w.rbac = v.rbac \/ v.rbac = "none" \/ w.rbac = "seeded"

Types ==
  [table |-> BOOLEAN,
   versions |-> SUBSET Files,
   users |-> {"none", "legacy", "current"},
   members |-> {"none", "bare", "serial"},
   roleCol |-> {"none", "text", "fk"},
   unique |-> BOOLEAN,
   rbac |-> {"none", "empty", "seeded"},
   role |-> [Users -> RoleKeys \cup {"user", "unset", None}],
   current |-> SUBSET Users]

-----------------------------------------------------------------------------
(* Views of the database *)

LEMMA DatabaseFields ==
  ASSUME NEW v \in Database
  PROVE  v = [f \in Fields |-> v[f]] /\ DOMAIN v = Fields /\ \A f \in Fields : v[f] \in Types[f]
BY DEF Database, Fields, Types

LEMMA DatabaseTypes ==
  ASSUME NEW v \in Database
  PROVE  /\ v.versions \subseteq Files
         /\ v.users \in {"none", "legacy", "current"}
         /\ v.members \in {"none", "bare", "serial"}
         /\ v.roleCol \in {"none", "text", "fk"}
         /\ v.rbac \in {"none", "empty", "seeded"}
         /\ v.unique \in BOOLEAN
         /\ v.role \in [Users -> RoleKeys \cup {"user", "unset", None}]
BY DEF Database

LEMMA TypedView ==
  ASSUME NEW v, v = [f \in Fields |-> v[f]], \A f \in Fields : v[f] \in Types[f]
  PROVE  v \in Database
BY DEF Database, Fields, Types

(* What a starter has written is typed like the view it gives. *)
LEMMA VisibleNow ==
  ASSUME TypeOK, NEW q \in Starters
  PROVE  /\ DOMAIN Visible(q) = Fields
         /\ \A f \in Fields :
              Visible(q)[f] = IF f \in DOMAIN work[q] THEN work[q][f] ELSE db[f]
         /\ \A f \in Fields : f \in DOMAIN work[q] => work[q][f] \in Types[f]
<1>1. DOMAIN db = Fields /\ Visible(q) \in Database
  BY DatabaseFields DEF TypeOK
<1>2. /\ DOMAIN Visible(q) = Fields
      /\ \A f \in Fields :
           Visible(q)[f] = IF f \in DOMAIN work[q] THEN work[q][f] ELSE db[f]
  BY <1>1 DEF Visible
<1>3. \A f \in Fields : Visible(q)[f] \in Types[f]
  BY <1>1, DatabaseFields
<1> QED
  BY <1>2, <1>3

LEMMA VisibleNext ==
  ASSUME db' \in Database, NEW q \in Starters,
         \A f \in Fields : f \in DOMAIN work'[q] => work'[q][f] \in Types[f]
  PROVE  /\ Visible(q)' \in Database
         /\ \A f \in Fields :
              Visible(q)'[f] = IF f \in DOMAIN work'[q] THEN work'[q][f] ELSE db'[f]
<1> DEFINE v == [f \in Fields |-> IF f \in DOMAIN work'[q] THEN work'[q][f] ELSE db'[f]]
<1>1. DOMAIN db' = Fields /\ \A f \in Fields : db'[f] \in Types[f]
  BY DatabaseFields
<1>2. Visible(q)' = v
  BY <1>1 DEF Visible
<1>3. v \in Database
  <2>1. v = [f \in Fields |-> v[f]] /\ \A f \in Fields : v[f] \in Types[f]
    BY <1>1
  <2> HIDE DEF v
  <2> QED
    BY <2>1, TypedView
<1> QED
  BY <1>2, <1>3

LEMMA Typed ==
  ASSUME NEW changes, DOMAIN changes \subseteq Fields,
         "table" \in DOMAIN changes => changes["table"] \in BOOLEAN,
         "unique" \in DOMAIN changes => changes["unique"] \in BOOLEAN,
         "versions" \in DOMAIN changes => changes["versions"] \in SUBSET Files,
         "users" \in DOMAIN changes => changes["users"] \in {"none", "legacy", "current"},
         "members" \in DOMAIN changes => changes["members"] \in {"none", "bare", "serial"},
         "roleCol" \in DOMAIN changes => changes["roleCol"] \in {"none", "text", "fk"},
         "rbac" \in DOMAIN changes => changes["rbac"] \in {"none", "empty", "seeded"},
         "role" \in DOMAIN changes =>
           changes["role"] \in [Users -> RoleKeys \cup {"user", "unset", None}],
         "current" \in DOMAIN changes => changes["current"] \in SUBSET Users
  PROVE  \A f \in DOMAIN changes : changes[f] \in Types[f]
BY DEF Fields, Types

LEMMA GrownMarks ==
  ASSUME NEW v \in Database, NEW w \in Database, Grown(v, w)
  PROVE  (Marks(v) => Marks(w)) /\ (Done(v) => Done(w))
BY DEF Grown, Marks, Done

LEMMA GrownView ==
  ASSUME TypeOK, db' \in Database, Grown(db, db'),
         NEW q \in Starters, work'[q] = work[q]
  PROVE  Visible(q)' \in Database /\ Grown(Visible(q), Visible(q)')
<1>1. \A f \in Fields : f \in DOMAIN work'[q] => work'[q][f] \in Types[f]
  BY VisibleNow
<1>2. /\ Visible(q)' \in Database
      /\ \A f \in Fields :
           Visible(q)'[f] = IF f \in DOMAIN work'[q] THEN work'[q][f] ELSE db'[f]
  BY <1>1, VisibleNext
<1> QED
  BY <1>2, VisibleNow DEF Grown, Fields

LEMMA WriteView ==
  ASSUME TypeOK, work = [q \in Starters |-> work[q]], NEW p \in Starters, NEW changes,
         Write(p, changes)
  PROVE  /\ work' = [q \in Starters |-> work'[q]]
         /\ \A q \in Starters \ {p} : work'[q] = work[q]
         /\ DOMAIN work'[p] = DOMAIN changes \cup DOMAIN work[p]
         /\ \A f \in DOMAIN work'[p] :
              work'[p][f] = IF f \in DOMAIN changes THEN changes[f] ELSE work[p][f]
BY DEF Write

-----------------------------------------------------------------------------
(* Steps *)

(* What a step of one starter leaves to another, when the database has only   *)
(* grown.                                                                     *)
LEMMA OtherKeeps ==
  ASSUME IInv, NEW q \in Starters, db' \in Database, Grown(db, db'),
         work'[q] = work[q], st'[q] = st[q],
         lock["version"] = q => lock'["version"] = q
  PROVE  Visible(q)' \in Database /\ WorkInv(q)'
<1>1. TypeOK /\ WorkInv(q)
  BY DEF IInv
<1>2. Visible(q) \in Database /\ Visible(q)' \in Database /\ Grown(Visible(q), Visible(q)')
  BY <1>1, GrownView DEF TypeOK
<1>3. /\ Marks(Visible(q)) => Marks(Visible(q)')
      /\ Done(Visible(q)) => Done(Visible(q)')
      /\ Done(db) => Done(db')
  BY <1>1, <1>2, GrownMarks DEF TypeOK
<1>4. /\ db'.versions = db.versions /\ Visible(q)'.versions = Visible(q).versions
      /\ db.rbac = "seeded" => db'.rbac = "seeded"
      /\ Visible(q).rbac = "seeded" => Visible(q)'.rbac = "seeded"
  BY <1>2 DEF Grown
<1> QED
  BY <1>1, <1>2, <1>3, <1>4 DEF WorkInv, Wrote, First, Second, Seeding, Done, Marks

LEMMA Frame ==
  ASSUME IInv, NEW p \in Starters, NEW s \in Starter,
         st' = [st EXCEPT ![p] = s],
         work' = [q \in Starters |-> work'[q]],
         \A q \in Starters \ {p} : work'[q] = work[q],
         \A f \in Fields : f \in DOMAIN work'[p] => work'[p][f] \in Types[f],
         lock' \in [Tables -> Starters \cup {Nobody}],
         \A q \in Starters \ {p} : lock["version"] = q => lock'["version"] = q,
         db' \in Database, Grown(db, db'), UNCHANGED <<kills, origin>>,
         WorkInv(p)'
  PROVE  IInv'
<1>1. /\ Visible(p)' \in Database
      /\ \A q \in Starters \ {p} : Visible(q)' \in Database /\ WorkInv(q)'
  BY VisibleNext, OtherKeeps DEF IInv, TypeOK
<1>2. Marks(db')
  BY GrownMarks DEF IInv, TypeOK
<1>3. TypeOK'
  BY <1>1 DEF IInv, TypeOK
<1> QED
  BY <1>1, <1>2, <1>3 DEF IInv

(* A step that writes nothing. *)
LEMMA MoveKeeps ==
  ASSUME IInv, NEW p \in Starters, NEW s \in Starter,
         st' = [st EXCEPT ![p] = s], UNCHANGED <<db, work, kills, origin>>,
         lock' \in [Tables -> Starters \cup {Nobody}],
         \A q \in Starters \ {p} : lock["version"] = q => lock'["version"] = q,
         WorkInv(p)'
  PROVE  IInv'
<1>1. Grown(db, db')
  BY DEF Grown
<1>2. \A f \in Fields : f \in DOMAIN work'[p] => work'[p][f] \in Types[f]
  BY VisibleNow DEF IInv
<1> QED
  BY <1>1, <1>2, Frame DEF IInv, TypeOK

LEMMA SameView == ASSUME UNCHANGED <<db, work>>, NEW p \in Starters PROVE Visible(p)' = Visible(p)
BY DEF Visible

(* A step that writes in the open transaction. *)
LEMMA WriteKeeps ==
  ASSUME IInv, NEW p \in Starters, NEW s \in Starter, NEW changes,
         st' = [st EXCEPT ![p] = s], Write(p, changes),
         DOMAIN changes \subseteq Fields,
         \A f \in DOMAIN changes : changes[f] \in Types[f],
         UNCHANGED <<db, kills, origin>>,
         lock' \in [Tables -> Starters \cup {Nobody}],
         \A q \in Starters \ {p} : lock["version"] = q => lock'["version"] = q,
         /\ Visible(p)' \in Database
         /\ DOMAIN work'[p] = DOMAIN changes \cup DOMAIN work[p]
         /\ \A f \in DOMAIN changes : work'[p][f] = changes[f]
         /\ \A f \in Fields : Visible(p)'[f] = IF f \in DOMAIN changes THEN changes[f]
                                               ELSE Visible(p)[f]
         => WorkInv(p)'
  PROVE  IInv'
<1>1. Grown(db, db') /\ db' \in Database
  BY DEF Grown, IInv, TypeOK
<1>2. /\ work' = [q \in Starters |-> work'[q]]
      /\ \A q \in Starters \ {p} : work'[q] = work[q]
      /\ DOMAIN work'[p] = DOMAIN changes \cup DOMAIN work[p]
      /\ \A f \in DOMAIN work'[p] :
           work'[p][f] = IF f \in DOMAIN changes THEN changes[f] ELSE work[p][f]
  BY WriteView DEF IInv
<1>3. \A f \in Fields : f \in DOMAIN work'[p] => work'[p][f] \in Types[f]
  BY <1>2, VisibleNow DEF IInv
<1>4. /\ Visible(p)' \in Database
      /\ \A f \in Fields :
           Visible(p)'[f] = IF f \in DOMAIN work'[p] THEN work'[p][f] ELSE db'[f]
  BY <1>1, <1>3, VisibleNext
<1>5. \A f \in Fields : Visible(p)'[f] = IF f \in DOMAIN changes THEN changes[f]
                                         ELSE Visible(p)[f]
  BY <1>2, <1>4, VisibleNow DEF IInv
<1>6. WorkInv(p)'
  BY <1>2, <1>4, <1>5
<1> QED
  BY <1>1, <1>2, <1>3, <1>6, Frame

(* Starters that have lost their transaction. *)
LEMMA LostWork ==
  ASSUME NEW p \in Starters, work'[p] = NoWrites, st'[p].pc = "failed", ~st'[p].last
  PROVE  WorkInv(p)'
BY DEF WorkInv, Wrote, First, Second, Seeding, NoWrites

LEMMA FailKeeps ==
  ASSUME IInv, NEW p \in Starters, Fail(p), UNCHANGED <<kills, origin>>
  PROVE  IInv'
<1> DEFINE s == [Down EXCEPT !.pc = "failed"]
<1>1. s \in Starter /\ s.pc = "failed" /\ ~s.last
  BY DEF Down, Starter
<1>2. st'[p] = s
  BY DEF Fail, IInv, TypeOK
<1> HIDE DEF s
<1>3. st' = [st EXCEPT ![p] = s]
  BY DEF Fail, s
<1>4. /\ work' = [q \in Starters |-> work'[q]]
      /\ \A q \in Starters \ {p} : work'[q] = work[q]
      /\ work'[p] = NoWrites
  BY DEF Fail, IInv
<1>5. \A f \in Fields : f \notin DOMAIN work'[p]
  BY <1>4 DEF NoWrites
<1>6. /\ lock' \in [Tables -> Starters \cup {Nobody}]
      /\ \A q \in Starters \ {p} : lock["version"] = q => lock'["version"] = q
  BY DEF Fail, Released, IInv, TypeOK, Tables
<1>7. Grown(db, db') /\ db' \in Database
  BY DEF Fail, Grown, IInv, TypeOK
<1>8. WorkInv(p)'
  BY <1>1, <1>2, <1>4, LostWork
<1> QED
  BY <1>1, <1>3, <1>4, <1>5, <1>6, <1>7, <1>8, Frame

LEMMA StartKeeps == ASSUME IInv, NEW p \in Starters, Start(p) PROVE IInv'
<1> DEFINE s == [Down EXCEPT !.pc = "ensure"]
<1>1. s \in Starter /\ s.pc = "ensure" /\ ~s.last
  BY DEF Down, Starter
<1>2. st' = [st EXCEPT ![p] = s] /\ UNCHANGED <<work, lock, kills, origin>>
  BY DEF Start
<1> HIDE DEF s
<1>3. db \in Database /\ DOMAIN db = Fields
  BY DatabaseFields DEF IInv, TypeOK
<1>4. Grown(db, db') /\ db' \in Database
  <2>1. CASE db' = db
    BY <1>3, <2>1 DEF Grown
  <2>2. CASE db' = CreateTables
    BY <1>3, <2>2 DEF CreateTables, Grown, Database
  <2> QED
    BY <2>1, <2>2 DEF Start
<1>5. \A f \in Fields : f \in DOMAIN work'[p] => work'[p][f] \in Types[f]
  BY <1>2, VisibleNow DEF IInv
<1>6. WorkInv(p)'
  <2>1. st'[p].pc = "ensure" /\ ~st'[p].last
    BY <1>1, <1>2 DEF IInv, TypeOK
  <2>2. DOMAIN work'[p] = {}
    BY <1>2 DEF Start, IInv, WorkInv, Wrote, First, Seeding
  <2> QED
    BY <2>1, <2>2 DEF WorkInv, Wrote, First, Second, Seeding
<1> QED
  BY <1>1, <1>2, <1>4, <1>5, <1>6, Frame DEF IInv, TypeOK

LEMMA StartWorkerKeeps == ASSUME IInv, NEW p \in Starters, StartWorker(p) PROVE IInv'
<1> DEFINE s == [Down EXCEPT !.pc = "seed", !.last = TRUE]
<1>1. s \in Starter /\ s.pc = "seed" /\ s.last = TRUE
  BY DEF Down, Starter
<1>2. st' = [st EXCEPT ![p] = s] /\ UNCHANGED <<db, work, lock, kills, origin>>
  BY DEF StartWorker
<1> HIDE DEF s
<1>3. Done(db)
  BY DEF StartWorker, EntrypointIsUp, IInv, WorkInv
<1>4. DOMAIN work'[p] = {}
  BY <1>2 DEF StartWorker, IInv, WorkInv, Wrote, First, Seeding
<1>5. st'[p] = s
  BY <1>2 DEF IInv, TypeOK
<1>6. WorkInv(p)'
  BY <1>1, <1>2, <1>3, <1>4, <1>5 DEF WorkInv, Wrote, First, Second, Seeding, Done
<1> QED
  BY <1>1, <1>2, <1>6, MoveKeeps DEF IInv, TypeOK

(* The record of a starter whose pc alone changes. *)
LEMMA Moved ==
  ASSUME IInv, NEW p \in Starters, NEW pc, Goto(p, pc),
         pc \in {"down", "ensure", "creating", "run", "seed", "seeding", "seeded",
                 "decide", "alter", "link", "mark", "commit", "up", "failed"}
  PROVE  \E s \in Starter :
           /\ st' = [st EXCEPT ![p] = s] /\ st'[p] = s
           /\ s.pc = pc /\ s.last = st[p].last
<1> DEFINE s == [st[p] EXCEPT !.pc = pc]
<1>1. st[p] \in Starter
  BY DEF IInv, TypeOK
<1>2. s \in Starter /\ s.pc = pc /\ s.last = st[p].last
  BY <1>1 DEF Starter
<1>3. st' = [st EXCEPT ![p] = s] /\ st'[p] = s
  BY DEF Goto, IInv, TypeOK
<1> HIDE DEF s
<1> QED
  BY <1>2, <1>3

LEMMA LockTaken ==
  ASSUME IInv, NEW p \in Starters, NEW t \in Tables, Available(p, t),
         lock' = [lock EXCEPT ![t] = p]
  PROVE  /\ lock' \in [Tables -> Starters \cup {Nobody}]
         /\ \A q \in Starters \ {p} : lock["version"] = q => lock'["version"] = q
         /\ t = "version" => lock'["version"] = p
         /\ lock["version"] = p => lock'["version"] = p
BY StarterAssumption DEF IInv, TypeOK, Available, Tables

LEMMA MovesKeep ==
  ASSUME IInv, NEW p \in Starters,
         \/ WaitForCreation(p) \/ NonePending(p) \/ Decide(p) \/ AddRoleId(p)
  PROVE  IInv'
<1>1. TypeOK /\ WorkInv(p) /\ Visible(p) \in Database
  BY DEF IInv, TypeOK
<1>2. ASSUME WaitForCreation(p) PROVE IInv'
  <2>1. PICK s \in Starter : /\ st' = [st EXCEPT ![p] = s] /\ st'[p] = s
                             /\ s.pc = "creating" /\ s.last = st[p].last
    BY <1>2, Moved DEF WaitForCreation
  <2>2. WorkInv(p)'
    BY <1>1, <1>2, <2>1 DEF WaitForCreation, WorkInv, Wrote, First, Second, Seeding
  <2> QED
    BY <1>1, <1>2, <2>1, <2>2, MoveKeeps DEF WaitForCreation, TypeOK
<1>3. ASSUME NonePending(p) PROVE IInv'
  <2>1. PICK s \in Starter : /\ st' = [st EXCEPT ![p] = s] /\ st'[p] = s
                             /\ s.pc = "commit" /\ s.last = st[p].last
    BY <1>3, Moved DEF NonePending
  <2>2. Done(Visible(p)) /\ Visible(p)' = Visible(p)
    BY <1>1, <1>3, SameView DEF NonePending, WorkInv, First, Marks, Files
  <2>3. WorkInv(p)'
    BY <1>1, <1>3, <2>1, <2>2
       DEF NonePending, WorkInv, Wrote, First, Second, Seeding, Done
  <2> QED
    BY <1>1, <1>3, <2>1, <2>3, MoveKeeps DEF NonePending, TypeOK
<1>4. ASSUME Decide(p) PROVE IInv'
  <2>1. ~MembershipRoleUsesFk(Visible(p))
    BY DEF MembershipRoleUsesFk, ColumnDataType
  <2>2. PICK s \in Starter : /\ st' = [st EXCEPT ![p] = s] /\ st'[p] = s
                             /\ s.pc = "alter" /\ s.last = st[p].last
    BY <1>4, <2>1, Moved DEF Decide
  <2>3. WorkInv(p)'
    BY <1>1, <1>4, <2>2 DEF Decide, WorkInv, Wrote, First, Second, Seeding
  <2> QED
    BY <1>1, <1>4, <2>2, <2>3, MoveKeeps DEF Decide, TypeOK
<1>5. ASSUME AddRoleId(p) PROVE IInv'
  <2>1. PICK s \in Starter : /\ st' = [st EXCEPT ![p] = s] /\ st'[p] = s
                             /\ s.pc = "link" /\ s.last = st[p].last
    BY <1>5, Moved DEF AddRoleId
  <2>2. WorkInv(p)'
    BY <1>1, <1>5, <2>1 DEF AddRoleId, WorkInv, Wrote, First, Second, Seeding
  <2>3. /\ lock' \in [Tables -> Starters \cup {Nobody}]
        /\ \A q \in Starters \ {p} : lock["version"] = q => lock'["version"] = q
    BY <1>5, LockTaken DEF AddRoleId, Tables
  <2> QED
    BY <1>1, <1>5, <2>1, <2>2, <2>3, MoveKeeps DEF AddRoleId
<1> QED
  BY <1>2, <1>3, <1>4, <1>5

LEMMA SeedReadKeeps == ASSUME IInv, NEW p \in Starters, SeedRead(p) PROVE IInv'
<1> DEFINE s == [st[p] EXCEPT !.pc = "seeding", !.saw = Visible(p).rbac]
<1>1. TypeOK /\ WorkInv(p) /\ Visible(p) \in Database /\ st[p] \in Starter
  BY DEF IInv, TypeOK
<1>2. s \in Starter /\ s.pc = "seeding" /\ s.last = st[p].last
  BY <1>1, DatabaseTypes DEF Starter
<1>3. st' = [st EXCEPT ![p] = s] /\ st'[p] = s /\ UNCHANGED <<db, work, lock, kills, origin>>
  BY <1>1 DEF SeedRead, TypeOK
<1> HIDE DEF s
<1>4. Visible(p)' = Visible(p)
  BY <1>3, SameView
<1>5. WorkInv(p)'
  BY <1>1, <1>2, <1>3, <1>4 DEF SeedRead, WorkInv, Wrote, First, Second, Seeding, Marks, Done
<1> QED
  BY <1>1, <1>2, <1>3, <1>5, MoveKeeps DEF TypeOK

(* ensure_table, however the starter came to it: nothing is written yet. *)
LEMMA EnsureKeeps ==
  ASSUME IInv, NEW p \in Starters, EnsureTable(p) \/ CreationFree(p)
  PROVE  IInv'
<1> DEFINE changes == [table |-> TRUE]
<1>1. TypeOK /\ WorkInv(p) /\ Marks(db)
  BY DEF IInv
<1>2. PICK s \in Starter : /\ st' = [st EXCEPT ![p] = s] /\ st'[p] = s
                           /\ s.pc = "run" /\ s.last = st[p].last
  BY Moved DEF EnsureTable, CreationFree
<1>3. /\ lock' \in [Tables -> Starters \cup {Nobody}] /\ lock'["version"] = p
      /\ \A q \in Starters \ {p} : lock["version"] = q => lock'["version"] = q
  BY LockTaken DEF EnsureTable, CreationFree, Tables
<1>4. /\ Write(p, changes) /\ UNCHANGED <<db, kills, origin>>
      /\ DOMAIN changes = {"table"} /\ changes["table"] \in BOOLEAN
  BY DEF EnsureTable, CreationFree
<1> HIDE DEF changes
<1>5. DOMAIN changes \subseteq Fields /\ \A f \in DOMAIN changes : changes[f] \in Types[f]
  BY <1>4, Typed DEF Fields
<1>6. DOMAIN work[p] = {} /\ \A f \in Fields : Visible(p)[f] = db[f]
  BY <1>1, VisibleNow DEF EnsureTable, CreationFree, WorkInv, Wrote, First, Seeding
<1>7. ASSUME /\ Visible(p)' \in Database
             /\ DOMAIN work'[p] = DOMAIN changes \cup DOMAIN work[p]
             /\ \A f \in DOMAIN changes : work'[p][f] = changes[f]
             /\ \A f \in Fields : Visible(p)'[f] = IF f \in DOMAIN changes THEN changes[f]
                                                   ELSE Visible(p)[f]
      PROVE  WorkInv(p)'
  <2>1. Grown(db, Visible(p)')
    BY <1>4, <1>6, <1>7 DEF Grown, Fields
  <2>2. Marks(Visible(p)') /\ db'.versions = Visible(p)'.versions
    BY <1>1, <1>4, <1>7, <2>1, GrownMarks DEF TypeOK, Grown
  <2>3. ~s.last
    BY <1>1, <1>2 DEF EnsureTable, CreationFree, WorkInv, Seeding
  <2> QED
    BY <1>2, <1>3, <1>4, <1>5, <1>6, <1>7, <2>2, <2>3
       DEF WorkInv, Wrote, First, Second, Seeding
<1> QED
  BY <1>2, <1>3, <1>4, <1>5, <1>7, WriteKeeps

(* A migration in the first transaction adds its mark and what it stands for. *)
LEMMA MigrationKeeps ==
  ASSUME IInv, NEW p \in Starters, NEW changes, NEW n \in 1..3,
         st[p].pc = "run", Pending(Visible(p), n),
         Write(p, changes), UNCHANGED <<db, lock, st, kills, origin>>,
         {"versions"} \subseteq DOMAIN changes, DOMAIN changes \subseteq Fields,
         \A f \in DOMAIN changes : changes[f] \in Types[f],
         changes["versions"] = Visible(p).versions \cup {n},
         NEW w \in Database,
         \A f \in Fields : w[f] = IF f \in DOMAIN changes THEN changes[f]
                                  ELSE Visible(p)[f],
         1 \in w.versions => w.users # "none",
         2 \in w.versions => w.users = "current" /\ w.members # "none",
         3 \in w.versions => w.members = "serial" /\ w.unique
  PROVE  IInv'
<1>1. TypeOK /\ WorkInv(p) /\ Visible(p) \in Database
  BY DEF IInv, TypeOK
<1>2. st[p] \in Starter /\ st' = [st EXCEPT ![p] = st[p]] /\ st'[p] = st[p]
  BY <1>1 DEF TypeOK
<1>3. Marks(w)
  <2>1. w.versions = Visible(p).versions \cup {n} /\ Visible(p).versions \subseteq Files
    BY <1>1, DatabaseTypes DEF Fields
  <2>2. Marks(Visible(p))
    BY <1>1 DEF WorkInv, First
  <2>3. 4 \notin Visible(p).versions
    BY <2>2 DEF Pending, Marks, Done, Files
  <2>4. \A m \in w.versions : 1..m \subseteq w.versions
    BY <2>1, <2>2 DEF Marks, Pending, Files
  <2> QED
    BY <2>1, <2>3, <2>4 DEF Marks
<1>4. ASSUME /\ Visible(p)' \in Database
             /\ DOMAIN work'[p] = DOMAIN changes \cup DOMAIN work[p]
             /\ \A f \in Fields : Visible(p)'[f] = IF f \in DOMAIN changes THEN changes[f]
                                                   ELSE Visible(p)[f]
      PROVE  WorkInv(p)'
  <2>1. Grown(w, Visible(p)')
    BY <1>4 DEF Grown, Fields
  <2>2. Marks(Visible(p)') /\ Visible(p)'.versions = Visible(p).versions \cup {n}
    BY <1>3, <1>4, <2>1, GrownMarks DEF Grown, Fields
  <2> QED
    BY <1>1, <1>2, <1>4, <2>2 DEF WorkInv, Wrote, First, Second, Seeding, Marks, Done
<1> QED
  BY <1>1, <1>2, <1>4, WriteKeeps DEF TypeOK

(* The view that a migration leaves. *)
LEMMA MigratedView ==
  ASSUME NEW v \in Database, NEW changes, DOMAIN changes \subseteq Fields,
         \A f \in DOMAIN changes : changes[f] \in Types[f]
  PROVE  \E w \in Database :
           \A f \in Fields : w[f] = IF f \in DOMAIN changes THEN changes[f] ELSE v[f]
<1> DEFINE w == [f \in Fields |-> IF f \in DOMAIN changes THEN changes[f] ELSE v[f]]
<1>1. w = [f \in Fields |-> w[f]] /\ \A f \in Fields : w[f] \in Types[f]
  BY DatabaseFields
<1>2. \A f \in Fields : w[f] = IF f \in DOMAIN changes THEN changes[f] ELSE v[f]
  OBVIOUS
<1> HIDE DEF w
<1>3. w \in Database
  BY <1>1, TypedView
<1> QED
  BY <1>2, <1>3

LEMMA AddUsersKeeps == ASSUME IInv, NEW p \in Starters, RunMigration(p, 1) PROVE IInv'
<1> DEFINE v == Visible(p)
           changes == [f \in {"users", "versions"} |->
                         IF f = "versions" THEN v.versions \cup {1} ELSE AddUsers(v)[f]]
<1>1. v \in Database /\ Marks(v)
  BY DEF IInv, TypeOK, RunMigration, WorkInv, First
<1>2. DOMAIN AddUsers(v) \cup {"versions"} = {"users", "versions"}
  BY DEF AddUsers
<1>3. /\ Write(p, changes) /\ UNCHANGED <<db, lock, st, kills, origin>>
      /\ st[p].pc = "run" /\ Pending(v, 1)
  BY <1>2 DEF RunMigration
<1>4. /\ DOMAIN changes = {"users", "versions"}
      /\ changes["versions"] = v.versions \cup {1}
      /\ changes["users"] = IF v.users = "none" THEN "current" ELSE v.users
  BY DEF AddUsers
<1> HIDE DEF changes
<1>5. DOMAIN changes \subseteq Fields /\ \A f \in DOMAIN changes : changes[f] \in Types[f]
  BY <1>1, <1>4, DatabaseTypes DEF Fields, Types, Files
<1>6. PICK w \in Database :
        \A f \in Fields : w[f] = IF f \in DOMAIN changes THEN changes[f] ELSE v[f]
  BY <1>1, <1>5, MigratedView
<1>7. /\ 1 \in w.versions => w.users # "none"
      /\ 2 \in w.versions => w.users = "current" /\ w.members # "none"
      /\ 3 \in w.versions => w.members = "serial" /\ w.unique
  BY <1>1, <1>4, <1>6 DEF Fields, Marks
<1> HIDE DEF v
<1> QED
  BY <1>3, <1>4, <1>5, <1>6, <1>7, MigrationKeeps DEF v

LEMMA MoveToMembershipsKeeps ==
  ASSUME IInv, NEW p \in Starters, RunMigration(p, 2)
  PROVE  IInv'
<1> DEFINE v == Visible(p)
           moved == {"users", "members", "roleCol", "unique", "role", "current"}
           changes == [f \in moved \cup {"versions"} |->
                         IF f = "versions" THEN v.versions \cup {2}
                         ELSE MoveToMemberships(v)[f]]
<1>1. /\ v \in Database /\ Marks(v)
      /\ origin \in [Users -> LegacyRoles \cup {None}]
  BY DEF IInv, TypeOK, RunMigration, WorkInv, First
<1>2. DOMAIN MoveToMemberships(v) = moved
  BY DEF MoveToMemberships
<1>3. /\ Write(p, changes) /\ UNCHANGED <<db, lock, st, kills, origin>>
      /\ st[p].pc = "run" /\ Pending(v, 2)
  BY <1>2 DEF RunMigration
<1>4. /\ DOMAIN changes = moved \cup {"versions"}
      /\ changes["versions"] = v.versions \cup {2}
      /\ changes["users"] = "current"
      /\ changes["members"] = IF v.members = "none" THEN "serial" ELSE v.members
      /\ changes["roleCol"] = IF v.roleCol = "none" THEN "text" ELSE v.roleCol
      /\ changes["unique"] = TRUE
      /\ changes["role"] = InsertMemberships(v)
      /\ changes["current"] = IF v.users = "legacy" THEN {u \in Users : origin[u] # None}
                              ELSE v.current
  BY DEF MoveToMemberships
<1> HIDE DEF changes
<1>5. InsertMemberships(v) \in [Users -> RoleKeys \cup {"user", "unset", None}]
  BY <1>1, LegacyAssumption, DatabaseTypes DEF InsertMemberships, RoleOrOwner, RoleKeys
<1>6. v.current \subseteq Users
  BY <1>1 DEF Database
<1>7. DOMAIN changes \subseteq Fields /\ \A f \in DOMAIN changes : changes[f] \in Types[f]
  <2>1. DOMAIN changes \subseteq Fields
    BY <1>4 DEF Fields
  <2>2. \A f \in DOMAIN changes : changes[f] \in Types[f]
    <3>1. /\ changes["versions"] \in SUBSET Files
          /\ changes["members"] \in {"none", "bare", "serial"}
          /\ changes["roleCol"] \in {"none", "text", "fk"}
          /\ changes["current"] \in SUBSET Users
      BY <1>1, <1>4, <1>6, DatabaseTypes DEF Files
    <3>2. changes["unique"] \in BOOLEAN
      BY <1>4
    <3>3. "table" \notin DOMAIN changes /\ "rbac" \notin DOMAIN changes
      BY <1>4
    <3> QED
      BY <1>4, <1>5, <2>1, <3>1, <3>2, <3>3, Typed
  <2> QED
    BY <2>1, <2>2
<1>8. PICK w \in Database :
        \A f \in Fields : w[f] = IF f \in DOMAIN changes THEN changes[f] ELSE v[f]
  BY <1>1, <1>7, MigratedView
<1>9. /\ w.users = "current" /\ w.members # "none"
      /\ 3 \notin w.versions
  <2>1. w.users = "current" /\ w.members # "none" /\ w.versions = v.versions \cup {2}
    BY <1>4, <1>8 DEF Fields
  <2> QED
    BY <1>1, <1>3, <2>1 DEF Marks, Pending
<1> HIDE DEF v
<1> QED
  BY <1>3, <1>4, <1>7, <1>8, <1>9, MigrationKeeps DEF v

LEMMA AddSerialIdKeeps == ASSUME IInv, NEW p \in Starters, RunMigration(p, 3) PROVE IInv'
<1> DEFINE v == Visible(p)
           changes == [f \in {"members", "unique", "versions"} |->
                         IF f = "versions" THEN v.versions \cup {3} ELSE AddSerialId(v)[f]]
<1>1. v \in Database /\ Marks(v)
  BY DEF IInv, TypeOK, RunMigration, WorkInv, First
<1>2. DOMAIN AddSerialId(v) \cup {"versions"} = {"members", "unique", "versions"}
  BY DEF AddSerialId
<1>3. /\ Write(p, changes) /\ UNCHANGED <<db, lock, st, kills, origin>>
      /\ st[p].pc = "run" /\ Pending(v, 3)
  BY <1>2 DEF RunMigration
<1>4. /\ DOMAIN changes = {"members", "unique", "versions"}
      /\ changes["versions"] = v.versions \cup {3}
      /\ changes["members"] = IF v.members = "bare" THEN "serial" ELSE v.members
      /\ changes["unique"] = (v.unique \/ v.members # "none")
      /\ changes["unique"] \in BOOLEAN
  BY DEF AddSerialId
<1> HIDE DEF changes
<1>5. DOMAIN changes \subseteq Fields /\ \A f \in DOMAIN changes : changes[f] \in Types[f]
  <2>1. /\ changes["versions"] \in SUBSET Files
        /\ changes["members"] \in {"none", "bare", "serial"}
    BY <1>1, <1>4, DatabaseTypes DEF Files
  <2>2. DOMAIN changes \subseteq Fields
    BY <1>4 DEF Fields
  <2> QED
    BY <1>4, <2>1, <2>2, Typed
<1>6. PICK w \in Database :
        \A f \in Fields : w[f] = IF f \in DOMAIN changes THEN changes[f] ELSE v[f]
  BY <1>1, <1>5, MigratedView
<1>7. v.users = "current" /\ v.members # "none"
  BY <1>1, <1>3 DEF Pending, Marks
<1>8. w.users = "current" /\ w.members = "serial" /\ w.unique
  BY <1>1, <1>4, <1>6, <1>7, DatabaseTypes DEF Fields
<1> HIDE DEF v
<1> QED
  BY <1>3, <1>4, <1>5, <1>6, <1>8, MigrationKeeps DEF v

(* The first half of 1779792000. *)
LEMMA RunRbacKeeps == ASSUME IInv, NEW p \in Starters, RunRbacMigration(p) PROVE IInv'
<1> DEFINE v == Visible(p)
           changes == CreateRbacTables(v)
<1>1. TypeOK /\ WorkInv(p) /\ v \in Database
  BY DEF IInv, TypeOK
<1>2. PICK s \in Starter : /\ st' = [st EXCEPT ![p] = s] /\ st'[p] = s
                           /\ s.pc = "seed" /\ s.last = st[p].last
  BY Moved DEF RunRbacMigration
<1>3. /\ Write(p, changes) /\ UNCHANGED <<db, lock, kills, origin>>
      /\ DOMAIN changes = {"rbac"} /\ changes["rbac"] \in {"none", "empty", "seeded"}
  BY <1>1, DatabaseTypes DEF RunRbacMigration, CreateRbacTables
<1>4. v.rbac = "none" \/ changes["rbac"] = v.rbac
  BY DEF CreateRbacTables
<1> HIDE DEF changes
<1>5. DOMAIN changes \subseteq Fields /\ \A f \in DOMAIN changes : changes[f] \in Types[f]
  BY <1>3 DEF Fields, Types
<1>6. /\ st[p].pc = "run" /\ Marks(v) /\ 4 \notin v.versions
      /\ 1..3 \subseteq v.versions
  <2>1. Pending(v, 4) /\ st[p].pc = "run"
    BY DEF RunRbacMigration
  <2> QED
    BY <1>1, <2>1 DEF Pending, WorkInv, First
<1>7. ASSUME /\ Visible(p)' \in Database
             /\ DOMAIN work'[p] = DOMAIN changes \cup DOMAIN work[p]
             /\ \A f \in Fields : Visible(p)'[f] = IF f \in DOMAIN changes THEN changes[f]
                                                   ELSE Visible(p)[f]
      PROVE  WorkInv(p)'
  <2>1. Grown(v, Visible(p)')
    BY <1>3, <1>4, <1>7 DEF Grown, Fields
  <2>2. Marks(Visible(p)') /\ Visible(p)'.versions = v.versions
    BY <1>1, <1>6, <1>7, <2>1, GrownMarks DEF Grown
  <2>3. /\ lock'["version"] = p /\ db'.versions \subseteq Visible(p)'.versions
        /\ DOMAIN work'[p] \subseteq Fields
    BY <1>1, <1>3, <1>5, <1>6, <1>7, <2>2 DEF WorkInv, First, Wrote
  <2> HIDE DEF v
  <2> QED
    BY <1>1, <1>2, <1>6, <2>2, <2>3 DEF WorkInv, Wrote, First, Second, Seeding
<1> QED
  BY <1>1, <1>2, <1>3, <1>5, <1>7, WriteKeeps DEF TypeOK

LEMMA SeedWriteKeeps == ASSUME IInv, NEW p \in Starters, SeedWrite(p) PROVE IInv'
<1> DEFINE changes == [rbac |-> "seeded"]
<1>1. TypeOK /\ WorkInv(p)
  BY DEF IInv
<1>2. CASE Fail(p)
  BY <1>2, FailKeeps DEF SeedWrite
<1>3. CASE ~Fail(p)
  <2>1. /\ Write(p, changes) /\ Goto(p, "seeded") /\ lock' = [lock EXCEPT !["rbac"] = p]
        /\ UNCHANGED <<db, kills, origin>> /\ Available(p, "rbac")
        /\ DOMAIN changes = {"rbac"} /\ changes["rbac"] = "seeded"
    BY <1>3 DEF SeedWrite
  <2>2. PICK s \in Starter : /\ st' = [st EXCEPT ![p] = s] /\ st'[p] = s
                             /\ s.pc = "seeded" /\ s.last = st[p].last
    BY <2>1, Moved
  <2>3. /\ lock' \in [Tables -> Starters \cup {Nobody}]
        /\ \A q \in Starters \ {p} : lock["version"] = q => lock'["version"] = q
        /\ lock["version"] = p => lock'["version"] = p
    BY <2>1, LockTaken DEF Tables
  <2> HIDE DEF changes
  <2>4. DOMAIN changes \subseteq Fields /\ \A f \in DOMAIN changes : changes[f] \in Types[f]
    BY <2>1, Typed DEF Fields
  <2>5. ASSUME /\ Visible(p)' \in Database
               /\ DOMAIN work'[p] = DOMAIN changes \cup DOMAIN work[p]
               /\ \A f \in Fields : Visible(p)'[f] = IF f \in DOMAIN changes THEN changes[f]
                                                     ELSE Visible(p)[f]
        PROVE  WorkInv(p)'
    <3>1. Grown(Visible(p), Visible(p)') /\ Visible(p)'.rbac = "seeded"
      BY <2>1, <2>5 DEF Grown, Fields
    <3>2. /\ Marks(Visible(p)) => Marks(Visible(p)')
          /\ Visible(p)'.versions = Visible(p).versions
      BY <1>1, <2>5, <3>1, GrownMarks DEF TypeOK, Grown
    <3>3. st[p].pc = "seeding"
      BY DEF SeedWrite
    <3>4. CASE st[p].last
      <4>1. DOMAIN work[p] = {} /\ Done(db)
        BY <1>1, <3>3, <3>4 DEF WorkInv, Wrote, First, Seeding
      <4> QED
        BY <1>1, <2>1, <2>2, <2>5, <3>1, <3>3, <3>4, <4>1
           DEF WorkInv, Wrote, First, Second, Seeding, Done
    <3>5. CASE ~st[p].last
      BY <1>1, <2>1, <2>2, <2>3, <2>4, <2>5, <3>1, <3>2, <3>3, <3>5
         DEF WorkInv, Wrote, First, Second, Seeding
    <3> QED
      BY <3>4, <3>5
  <2> QED
    BY <2>1, <2>2, <2>3, <2>4, <2>5, WriteKeeps
<1> QED
  BY <1>2, <1>3

LEMMA LinkKeeps == ASSUME IInv, NEW p \in Starters, LinkMemberships(p) PROVE IInv'
<1> DEFINE v == Visible(p)
           changes == LinkRoles(v)
<1>1. TypeOK /\ WorkInv(p) /\ v \in Database
  BY DEF IInv, TypeOK
<1>2. CASE Fail(p)
  BY <1>2, FailKeeps DEF LinkMemberships
<1>3. CASE ~Fail(p)
  <2>1. /\ Write(p, changes) /\ Goto(p, "mark") /\ lock' = [lock EXCEPT !["rbac"] = p]
        /\ UNCHANGED <<db, kills, origin>> /\ Available(p, "rbac")
        /\ \A u \in Users : LinkedRole(v.role[u]) # "unset"
    BY <1>3 DEF LinkMemberships
  <2>2. /\ DOMAIN changes = {"roleCol", "role"} /\ changes["roleCol"] = "fk"
        /\ changes["role"] = [u \in Users |-> LinkedRole(v.role[u])]
    BY DEF LinkRoles
  <2>3. \A u \in Users : changes["role"][u] \in RoleKeys \cup {None}
    BY <1>1, <2>1, <2>2, DatabaseTypes DEF LinkedRole, RoleKeys
  <2>4. PICK s \in Starter : /\ st' = [st EXCEPT ![p] = s] /\ st'[p] = s
                             /\ s.pc = "mark" /\ s.last = st[p].last
    BY <2>1, Moved
  <2>5. /\ lock' \in [Tables -> Starters \cup {Nobody}]
        /\ \A q \in Starters \ {p} : lock["version"] = q => lock'["version"] = q
    BY <2>1, LockTaken DEF Tables
  <2> HIDE DEF changes
  <2>6. DOMAIN changes \subseteq Fields /\ \A f \in DOMAIN changes : changes[f] \in Types[f]
    <3>1. DOMAIN changes \subseteq Fields
      BY <2>2 DEF Fields
    <3>2. changes["role"] \in [Users -> RoleKeys \cup {"user", "unset", None}]
      BY <2>2, <2>3
    <3> QED
      BY <2>2, <3>1, <3>2, Typed
  <2>7. ASSUME /\ DOMAIN work'[p] = DOMAIN changes \cup DOMAIN work[p]
               /\ \A f \in DOMAIN changes : work'[p][f] = changes[f]
        PROVE  WorkInv(p)'
    <3>1. st[p].pc = "link" /\ DOMAIN work[p] = {}
      BY <1>1 DEF LinkMemberships, WorkInv, Wrote, First, Seeding
    <3>2. DOMAIN work'[p] = {"roleCol", "role"} /\ work'[p]["roleCol"] = "fk"
      BY <2>2, <2>7, <3>1
    <3>3. \A u \in Users : work'[p]["role"][u] \in RoleKeys \cup {None}
      BY <2>2, <2>3, <2>7
    <3> QED
      BY <1>1, <2>1, <2>4, <3>1, <3>2, <3>3
         DEF WorkInv, Wrote, First, Second, Seeding
  <2> QED
    BY <2>1, <2>4, <2>5, <2>6, <2>7, WriteKeeps
<1> QED
  BY <1>2, <1>3

(* The mark of 1779792000: all it stands for is there, under the lock. *)
LEMMA MarkKeeps == ASSUME IInv, NEW p \in Starters, MarkExecuted(p) PROVE IInv'
<1> DEFINE v == Visible(p)
           changes == [versions |-> v.versions \cup {4}]
<1>1. TypeOK /\ WorkInv(p) /\ v \in Database /\ db \in Database /\ Marks(db)
  BY DEF IInv, TypeOK
<1>2. /\ Write(p, changes) /\ Goto(p, "commit") /\ lock' = [lock EXCEPT !["version"] = p]
      /\ UNCHANGED <<db, kills, origin>> /\ Available(p, "version") /\ st[p].pc = "mark"
  BY DEF MarkExecuted
<1>3. DOMAIN changes = {"versions"} /\ changes["versions"] = v.versions \cup {4}
  OBVIOUS
<1>4. PICK s \in Starter : /\ st' = [st EXCEPT ![p] = s] /\ st'[p] = s
                           /\ s.pc = "commit" /\ s.last = st[p].last
  BY <1>2, Moved
<1>5. /\ lock' \in [Tables -> Starters \cup {Nobody}] /\ lock'["version"] = p
      /\ \A q \in Starters \ {p} : lock["version"] = q => lock'["version"] = q
  BY <1>2, LockTaken DEF Tables
<1> HIDE DEF changes
<1>6. DOMAIN changes \subseteq Fields /\ \A f \in DOMAIN changes : changes[f] \in Types[f]
  <2>1. changes["versions"] \in SUBSET Files
    BY <1>1, <1>3, DatabaseTypes DEF Files
  <2> QED
    BY <1>3, <2>1, Typed DEF Fields
<1>7. /\ DOMAIN work[p] = {"roleCol", "role"} /\ work[p]["roleCol"] = "fk"
      /\ \A u \in Users : work[p]["role"][u] \in RoleKeys \cup {None}
      /\ 1..3 \subseteq db.versions /\ db.rbac = "seeded" /\ ~st[p].last
  BY <1>1, <1>2 DEF WorkInv, Wrote, First, Second, Seeding
<1>8. /\ v.versions = db.versions /\ v.users = db.users /\ v.members = db.members
      /\ v.unique = db.unique /\ v.rbac = db.rbac
      /\ v.roleCol = "fk" /\ \A u \in Users : v.role[u] \in RoleKeys \cup {None}
  BY <1>1, <1>7, VisibleNow DEF Fields
<1>9. db.users = "current" /\ db.members = "serial" /\ db.unique
  BY <1>1, <1>7 DEF Marks
<1>10. ASSUME /\ DOMAIN work'[p] = DOMAIN changes \cup DOMAIN work[p]
              /\ \A f \in Fields : Visible(p)'[f] = IF f \in DOMAIN changes THEN changes[f]
                                                    ELSE Visible(p)[f]
       PROVE  WorkInv(p)'
  <2>1. /\ Visible(p)'.versions = v.versions \cup {4}
        /\ \A f \in {"users", "members", "unique", "rbac", "roleCol", "role"} :
             Visible(p)'[f] = v[f]
    BY <1>3, <1>10 DEF Fields
  <2>2. Visible(p)'.versions = Files
    BY <1>1, <1>7, <1>8, <2>1, DatabaseTypes DEF Files
  <2>3. Done(Visible(p)')
    BY <1>7, <1>8, <1>9, <2>1, <2>2 DEF Done
  <2>4. DOMAIN work'[p] \subseteq Fields /\ db'.versions \subseteq Visible(p)'.versions
    BY <1>2, <1>3, <1>6, <1>7, <1>8, <1>10, <2>1 DEF Fields
  <2> QED
    BY <1>4, <1>5, <1>7, <2>3, <2>4 DEF WorkInv, Wrote, First, Second, Seeding, Done
<1> QED
  BY <1>2, <1>4, <1>5, <1>6, <1>10, WriteKeeps

(* The commit of whoever holds the lock of database_version: no other open    *)
(* transaction rests on what it changes.                                      *)
LEMMA HolderCommits ==
  ASSUME IInv, NEW p \in Starters, NEW s \in Starter, CommitWork(p),
         st' = [st EXCEPT ![p] = s], UNCHANGED <<kills, origin>>,
         lock["version"] = p, db.versions \subseteq Visible(p).versions,
         Visible(p).rbac = "seeded", Marks(Visible(p)), Done(db) => Done(Visible(p)),
         \/ s.pc = "decide" /\ ~s.last /\ 1..3 \subseteq Visible(p).versions
         \/ s.pc = "seed" /\ s.last /\ Done(Visible(p))
  PROVE  IInv'
<1>1. TypeOK /\ WorkInv(p)
  BY DEF IInv
<1>2. /\ db' = Visible(p) /\ db' \in Database
      /\ work' = [q \in Starters |-> work'[q]]
      /\ \A q \in Starters \ {p} : work'[q] = work[q] /\ st'[q] = st[q]
      /\ DOMAIN work'[p] = {} /\ st'[p] = s /\ st' \in [Starters -> Starter]
      /\ lock' \in [Tables -> Starters \cup {Nobody}]
  BY <1>1 DEF CommitWork, NoWrites, Released, IInv, TypeOK
<1>3. WorkInv(p)'
  BY <1>2 DEF WorkInv, Wrote, First, Second, Seeding, Done
<1>4. \A q \in Starters : Visible(q)' \in Database
  BY <1>1, <1>2, VisibleNow, VisibleNext
<1>5. ASSUME NEW q \in Starters, q # p
      PROVE  WorkInv(q)'
  <2>1. ~First(q) /\ st[q].pc # "commit" /\ WorkInv(q)
    BY <1>5 DEF IInv, WorkInv
  <2>2. DOMAIN work[q] \subseteq Fields
    BY <2>1 DEF WorkInv, Wrote, Fields
  <2>3. st[q].pc = "seeded" => Visible(q)'.rbac = "seeded"
    <3>1. /\ \A f \in Fields : f \in DOMAIN work'[q] => work'[q][f] \in Types[f]
          /\ Visible(q)["rbac"] = IF "rbac" \in DOMAIN work[q] THEN work[q]["rbac"] ELSE db["rbac"]
      BY <1>1, <1>2, <1>5, VisibleNow DEF Fields
    <3>2. Visible(q)'["rbac"] = IF "rbac" \in DOMAIN work'[q] THEN work'[q]["rbac"]
                                ELSE db'["rbac"]
      BY <1>2, <3>1, VisibleNext DEF Fields
    <3> QED
      BY <1>2, <1>5, <2>1, <3>1, <3>2 DEF WorkInv
  <2>4. db'.rbac = "seeded" /\ db.versions \subseteq db'.versions /\ (Done(db) => Done(db'))
    BY <1>2
  <2> QED
    BY <1>2, <1>5, <2>1, <2>3, <2>4 DEF WorkInv, Wrote, First, Second, Seeding
<1>6. TypeOK'
  BY <1>1, <1>2, <1>4 DEF TypeOK
<1> QED
  BY <1>2, <1>3, <1>5, <1>6 DEF IInv

LEMMA SeedCommitKeeps == ASSUME IInv, NEW p \in Starters, SeedCommit(p) PROVE IInv'
<1>1. /\ TypeOK /\ WorkInv(p) /\ st[p].pc = "seeded"
      /\ db \in Database /\ Visible(p) \in Database
  BY DEF IInv, TypeOK, SeedCommit
<1>2. CASE ~st[p].last
  <2>1. PICK s \in Starter : /\ st' = [st EXCEPT ![p] = s] /\ st'[p] = s
                             /\ s.pc = "decide" /\ s.last = st[p].last
    BY <1>2, Moved DEF SeedCommit
  <2>2. /\ lock["version"] = p /\ db.versions \subseteq Visible(p).versions
        /\ Visible(p).rbac = "seeded" /\ Marks(Visible(p))
        /\ 1..3 \subseteq Visible(p).versions /\ 4 \notin Visible(p).versions
    BY <1>1, <1>2 DEF WorkInv, First, Seeding
  <2>3. ~Done(db)
    BY <2>2 DEF Done, Files
  <2>4. CommitWork(p) /\ UNCHANGED <<kills, origin>> /\ ~s.last
    BY <1>2, <2>1 DEF SeedCommit
  <2> QED
    BY <2>1, <2>2, <2>3, <2>4, HolderCommits
<1>3. CASE st[p].last
  <2>1. PICK s \in Starter : /\ st' = [st EXCEPT ![p] = s] /\ st'[p] = s
                             /\ s.pc = "up" /\ s.last = st[p].last
    BY <1>3, Moved DEF SeedCommit
  <2>2. /\ DOMAIN work[p] \subseteq {"rbac"} /\ Visible(p).rbac = "seeded" /\ Done(db)
    BY <1>1, <1>3 DEF WorkInv, Wrote, First, Seeding
  <2>3. /\ db' = Visible(p)
        /\ work' = [q \in Starters |-> work'[q]]
        /\ \A q \in Starters \ {p} : work'[q] = work[q]
        /\ DOMAIN work'[p] = {}
        /\ lock' \in [Tables -> Starters \cup {Nobody}]
        /\ \A q \in Starters \ {p} : lock["version"] = q => lock'["version"] = q
        /\ UNCHANGED <<kills, origin>>
    BY <1>1 DEF SeedCommit, CommitWork, NoWrites, Released, IInv, TypeOK, Tables
  <2>4. Grown(db, db')
    BY <1>1, <2>2, <2>3, VisibleNow DEF Grown, Fields
  <2>5. Done(db')
    BY <1>1, <2>2, <2>3, <2>4, GrownMarks
  <2>6. WorkInv(p)'
    BY <2>1, <2>3, <2>5 DEF WorkInv, Wrote, First, Second, Seeding
  <2> QED
    BY <1>1, <2>1, <2>3, <2>4, <2>6, Frame
<1> QED
  BY <1>2, <1>3

LEMMA CommitKeeps == ASSUME IInv, NEW p \in Starters, CommitMigrations(p) PROVE IInv'
<1> DEFINE s == [pc |-> "seed", saw |-> "none", last |-> TRUE]
<1>1. s \in Starter /\ s.pc = "seed" /\ s.last
  BY DEF Starter
<1>2. /\ st' = [st EXCEPT ![p] = s] /\ CommitWork(p) /\ UNCHANGED <<kills, origin>>
      /\ st[p].pc = "commit" /\ WorkInv(p)
  BY DEF CommitMigrations, IInv
<1> HIDE DEF s
<1>3. /\ lock["version"] = p /\ db.versions \subseteq Visible(p).versions
      /\ Done(Visible(p))
  BY <1>2 DEF WorkInv
<1>4. Marks(Visible(p)) /\ Visible(p).rbac = "seeded"
  BY <1>3 DEF Done, Marks, Files
<1> QED
  BY <1>1, <1>2, <1>3, <1>4, HolderCommits

(* Those who die lose their transactions; nobody else notices. *)
LEMMA KillKeeps == ASSUME IInv, NEW dead \in SUBSET Starters, Kill(dead) PROVE IInv'
<1> DEFINE s == [Down EXCEPT !.pc = "failed"]
<1>1. s \in Starter /\ s.pc = "failed" /\ ~s.last
  BY DEF Down, Starter
<1>2. /\ work' = [p \in Starters |-> work'[p]]
      /\ \A p \in Starters : /\ work'[p] = IF p \in dead THEN NoWrites ELSE work[p]
                             /\ st'[p] = IF p \in dead THEN s ELSE st[p]
      /\ st' \in [Starters -> Starter]
      /\ UNCHANGED <<db, origin>>
  BY <1>1 DEF Kill, IInv, TypeOK
<1>3. /\ lock' \in [Tables -> Starters \cup {Nobody}]
      /\ \A q \in Starters \ dead : lock["version"] = q => lock'["version"] = q
  BY DEF Kill, IInv, TypeOK, Tables
<1>4. kills' \in 0..MaxKills
  BY StarterAssumption DEF Kill, IInv, TypeOK
<1> HIDE DEF s
<1>5. db' \in Database /\ Grown(db, db') /\ Marks(db')
  BY <1>2 DEF Grown, IInv, TypeOK
<1>6. ASSUME NEW q \in Starters
      PROVE  Visible(q)' \in Database /\ WorkInv(q)'
  <2>1. CASE q \in dead
    <3>1. \A f \in Fields : f \notin DOMAIN work'[q]
      BY <1>2, <2>1 DEF NoWrites
    <3> QED
      BY <1>1, <1>2, <1>5, <2>1, <3>1, VisibleNext, LostWork
  <2>2. CASE q \notin dead
    BY <1>2, <1>3, <1>5, <2>2, OtherKeeps
  <2> QED
    BY <2>1, <2>2
<1>7. TypeOK'
  BY <1>2, <1>3, <1>4, <1>5, <1>6 DEF IInv, TypeOK
<1> QED
  BY <1>2, <1>5, <1>6, <1>7 DEF IInv

LEMMA StepKeeps == ASSUME IInv, NEW p \in Starters, Step(p) PROVE IInv'
<1>1. ASSUME NEW n \in Files, RunMigration(p, n) PROVE IInv'
  <2>1. n = 1 \/ n = 2 \/ n = 3
    BY <1>1 DEF RunMigration, Files
  <2> QED
    BY <1>1, <2>1, AddUsersKeeps, MoveToMembershipsKeeps, AddSerialIdKeeps
<1>2. ASSUME CreationTaken(p) \/ DeadlockVictim(p) PROVE IInv'
  BY <1>2, FailKeeps DEF CreationTaken, DeadlockVictim
<1> QED
  BY <1>1, <1>2, StartKeeps, StartWorkerKeeps, EnsureKeeps, MovesKeep, RunRbacKeeps,
     SeedReadKeeps, SeedWriteKeeps, SeedCommitKeeps, LinkKeeps, MarkKeeps, CommitKeeps
     DEF Step

LEMMA SameKeeps == ASSUME IInv, UNCHANGED vars PROVE IInv'
<1>1. \A p \in Starters : Visible(p)' = Visible(p)
  BY SameView DEF vars
<1> QED
  BY <1>1 DEF vars, IInv, TypeOK, Marks, Done, WorkInv, Wrote, First, Second, Seeding

LEMMA InitialDatabase == ASSUME Init PROVE db \in Database /\ Marks(db)
<1>1. Blank \in Database /\ Marks(Blank)
  BY DEF Blank, Database, Marks, Files
<1>2. ASSUME db \in Inherited(origin)
      PROVE  db \in Database /\ Marks(db)
  <2> DEFINE rows == [u \in Users |-> IF origin[u] = None THEN None ELSE RoleOrOwner(origin[u])]
             moved == [Blank EXCEPT !.table = TRUE, !.users = "current", !.roleCol = "text",
                             !.role = rows, !.current = {u \in Users : origin[u] # None}]
  <2>1. origin \in [Users -> LegacyRoles \cup {None}]
    BY DEF Init
  <2>2. rows \in [Users -> RoleKeys \cup {"user", "unset", None}]
    BY <2>1, LegacyAssumption DEF RoleOrOwner, RoleKeys
  <2> HIDE DEF rows
  <2>3. moved \in Database /\ moved.users = "current"
    BY <2>2 DEF Blank, Database
  <2>4. db = [Blank EXCEPT !.table = TRUE, !.versions = {1}, !.users = "legacy"]
          \/ db = [moved EXCEPT !.versions = {1, 2}, !.members = "bare"]
          \/ db = [moved EXCEPT !.versions = {1, 2}, !.members = "serial", !.unique = TRUE]
          \/ db = [moved EXCEPT !.versions = {1, 2, 3}, !.members = "serial", !.unique = TRUE]
    BY <1>2 DEF Inherited, rows
  <2> HIDE DEF moved
  <2>5. {{1}, {1, 2}, {1, 2, 3}} \subseteq SUBSET Files
    BY DEF Files
  <2>6. CASE db = [Blank EXCEPT !.table = TRUE, !.versions = {1}, !.users = "legacy"]
    <3>1. db \in Database
      BY <1>1, <2>5, <2>6 DEF Database
    <3>2. db.versions = {1} /\ db.users = "legacy"
      BY <1>1, <2>6 DEF Blank
    <3> QED
      BY <3>1, <3>2 DEF Marks
  <2>7. CASE db = [moved EXCEPT !.versions = {1, 2}, !.members = "bare"]
    <3>1. db \in Database
      BY <2>3, <2>5, <2>7 DEF Database
    <3>2. db.versions = {1, 2} /\ db.users = "current" /\ db.members = "bare"
      BY <2>3, <2>7 DEF Database
    <3> QED
      BY <3>1, <3>2 DEF Marks
  <2>8. CASE db = [moved EXCEPT !.versions = {1, 2}, !.members = "serial", !.unique = TRUE]
    <3>1. db \in Database
      BY <2>3, <2>5, <2>8 DEF Database
    <3>2. db.versions = {1, 2} /\ db.users = "current" /\ db.members = "serial"
      BY <2>3, <2>8 DEF Database
    <3> QED
      BY <3>1, <3>2 DEF Marks
  <2>9. CASE db = [moved EXCEPT !.versions = {1, 2, 3}, !.members = "serial", !.unique = TRUE]
    <3>1. db \in Database
      BY <2>3, <2>5, <2>9 DEF Database
    <3>2. db.versions = {1, 2, 3} /\ db.users = "current" /\ db.members = "serial" /\ db.unique
      BY <2>3, <2>9 DEF Database
    <3> QED
      BY <3>1, <3>2 DEF Marks
  <2> QED
    BY <2>4, <2>6, <2>7, <2>8, <2>9
<1> QED
  BY <1>1, <1>2 DEF Init

LEMMA Starting == Init => IInv
<1> SUFFICES ASSUME Init PROVE IInv
  OBVIOUS
<1>1. /\ db \in Database /\ DOMAIN db = Fields /\ Marks(db)
  BY InitialDatabase, DatabaseFields
<1>2. \A p \in Starters : work[p] = NoWrites /\ DOMAIN work[p] = {} /\ st[p] = Down
  BY DEF Init, NoWrites
<1>3. \A p \in Starters : Visible(p) = db
  <2>1. db = [f \in Fields |-> db[f]]
    BY <1>1, DatabaseFields
  <2> QED
    BY <1>1, <1>2, <2>1 DEF Visible
<1>4. Down \in Starter /\ Down.pc = "down" /\ ~Down.last
  BY DEF Down, Starter
<1>5. TypeOK
  BY <1>1, <1>3, <1>4, StarterAssumption DEF Init, TypeOK
<1>6. \A p \in Starters : WorkInv(p)
  BY <1>2, <1>4 DEF WorkInv, Wrote, First, Second, Seeding
<1> QED
  BY <1>1, <1>5, <1>6 DEF IInv, Init

-----------------------------------------------------------------------------
(* The rows of the legacy users *)

(* MembershipsSurvive of a view, for the legacy roles was; before the rows    *)
(* are moved there are none.                                                  *)
Kept(v, was) ==
  /\ \A u \in Users :
       was[u] # None /\ v.users # "legacy" =>
         /\ u \in v.current
         /\ v.role[u] = IF v.roleCol = "fk" THEN LinkedRole(RoleOrOwner(was[u]))
                        ELSE RoleOrOwner(was[u])
  /\ v.users = "legacy" => v.roleCol = "none" /\ \A u \in Users : v.role[u] = None

KeptBy(p) ==
  /\ First(p) \/ st[p].pc = "commit" => Kept(Visible(p), origin)
  /\ st[p].pc = "mark" =>
       \A u \in Users :
         origin[u] # None => work[p]["role"][u] = LinkedRole(RoleOrOwner(origin[u]))

RowsInv == ~Install /\ Kept(db, origin) /\ \A p \in Starters : KeptBy(p)

NoLegacy == \A u \in Users : origin[u] = None

SameRows(v, w) ==
  /\ w.users = v.users /\ w.role = v.role
  /\ w.roleCol = v.roleCol /\ w.current = v.current

LEMMA SameKept ==
  ASSUME NEW v, NEW w, NEW was, SameRows(v, w), Kept(v, was)
  PROVE  Kept(w, was)
BY DEF SameRows, Kept

LEMMA ReadNext ==
  ASSUME DOMAIN db' = Fields, NEW q \in Starters
  PROVE  \A f \in Fields :
           Visible(q)'[f] = IF f \in DOMAIN work'[q] THEN work'[q][f] ELSE db'[f]
BY DEF Visible

(* A step of p that leaves the committed rows alone. *)
LEMMA RowsFrame ==
  ASSUME IInv, IInv', RowsInv, NEW p \in Starters, UNCHANGED origin, SameRows(db, db'),
         \A q \in Starters \ {p} : work'[q] = work[q] /\ st'[q] = st[q],
         KeptBy(p)'
  PROVE  RowsInv'
<1>1. DOMAIN db' = Fields /\ TypeOK
  BY DatabaseFields DEF IInv, TypeOK
<1>2. ASSUME NEW q \in Starters, q # p PROVE KeptBy(q)'
  <2>1. SameRows(Visible(q), Visible(q)')
    BY <1>1, <1>2, ReadNext, VisibleNow DEF SameRows, Fields
  <2>2. Kept(Visible(q), origin) => Kept(Visible(q)', origin)
    BY <2>1, SameKept
  <2> QED
    BY <1>2, <2>2 DEF RowsInv, KeptBy, First, Seeding
<1>3. Kept(db', origin')
  BY SameKept DEF RowsInv
<1> QED
  BY <1>2, <1>3 DEF RowsInv

(* What a step of p that does not commit does to the others. *)
LEMMA Apart ==
  ASSUME IInv, NEW p \in Starters, Step(p), st[p].pc \notin {"seeded", "commit"},
         ~Install
  PROVE  /\ UNCHANGED <<db, origin>>
         /\ \A q \in Starters \ {p} : work'[q] = work[q] /\ st'[q] = st[q]
<1>1. UNCHANGED <<db, origin>>
  BY DEF Step, Start, StartWorker, EnsureTable, WaitForCreation, CreationFree,
         CreationTaken, RunMigration, RunRbacMigration, NonePending, SeedRead, SeedWrite,
         SeedCommit, Decide, AddRoleId, LinkMemberships, MarkExecuted, CommitMigrations,
         DeadlockVictim, Fail
<1>2. \A q \in Starters \ {p} : st'[q] = st[q]
  BY DEF Step, Start, StartWorker, EnsureTable, WaitForCreation, CreationFree,
         CreationTaken, RunMigration, RunRbacMigration, NonePending, SeedRead, SeedWrite,
         SeedCommit, Decide, AddRoleId, LinkMemberships, MarkExecuted, CommitMigrations,
         DeadlockVictim, Fail, Goto, IInv, TypeOK
<1>3. \A q \in Starters \ {p} : work'[q] = work[q]
  BY DEF Step, Start, StartWorker, EnsureTable, WaitForCreation, CreationFree,
         CreationTaken, RunMigration, RunRbacMigration, NonePending, SeedRead, SeedWrite,
         SeedCommit, Decide, AddRoleId, LinkMemberships, MarkExecuted, CommitMigrations,
         DeadlockVictim, Fail, Write, IInv
<1> QED
  BY <1>1, <1>2, <1>3

(* Nobody rests on the rows in the places a failure, a start or a decision    *)
(* leads to.                                                                  *)
LEMMA Resting ==
  ASSUME IInv, NEW p \in Starters,
         \/ Start(p) \/ StartWorker(p) \/ WaitForCreation(p) \/ CreationTaken(p)
         \/ Decide(p) \/ AddRoleId(p) \/ Fail(p)
  PROVE  KeptBy(p)'
<1>1. CASE Start(p) \/ CreationTaken(p) \/ Fail(p)
  <2>1. [Down EXCEPT !.pc = "ensure"].pc = "ensure" /\ [Down EXCEPT !.pc = "failed"].pc = "failed"
    BY DEF Down
  <2>2. st'[p].pc \in {"ensure", "failed"}
    BY <1>1, <2>1 DEF Start, CreationTaken, Fail, IInv, TypeOK
  <2> QED
    BY <2>2 DEF KeptBy, First, Seeding
<1>2. CASE StartWorker(p)
  <2>1. /\ [Down EXCEPT !.pc = "seed", !.last = TRUE].pc = "seed"
        /\ [Down EXCEPT !.pc = "seed", !.last = TRUE].last
    BY DEF Down
  <2>2. st'[p].pc = "seed" /\ st'[p].last
    BY <1>2, <2>1 DEF StartWorker, IInv, TypeOK
  <2> QED
    BY <2>2 DEF KeptBy, First, Seeding
<1>3. CASE WaitForCreation(p) \/ Decide(p) \/ AddRoleId(p)
  <2>1. ~MembershipRoleUsesFk(Visible(p))
    BY DEF MembershipRoleUsesFk, ColumnDataType
  <2>2. Goto(p, "creating") \/ Goto(p, "alter") \/ Goto(p, "link")
    BY <1>3, <2>1 DEF WaitForCreation, Decide, AddRoleId
  <2>3. st'[p].pc \in {"creating", "alter", "link"}
    BY <2>2, Moved
  <2> QED
    BY <2>3 DEF KeptBy, First, Seeding
<1> QED
  BY <1>1, <1>2, <1>3

LEMMA EnsureRows ==
  ASSUME IInv, IInv', RowsInv, NEW p \in Starters, EnsureTable(p) \/ CreationFree(p)
  PROVE  KeptBy(p)'
<1>1. DOMAIN db' = Fields /\ TypeOK /\ WorkInv(p) /\ UNCHANGED <<db, origin>>
  BY DatabaseFields DEF IInv, TypeOK, EnsureTable, CreationFree
<1>2. DOMAIN work[p] = {} /\ st'[p].pc = "run"
  <2>1. DOMAIN work[p] = {}
    BY <1>1 DEF EnsureTable, CreationFree, WorkInv, Wrote, First, Seeding
  <2> QED
    BY <2>1, Moved DEF EnsureTable, CreationFree
<1>3. DOMAIN work'[p] = {"table"}
  BY <1>2 DEF EnsureTable, CreationFree, Write, IInv
<1>4. SameRows(db, Visible(p)')
  BY <1>1, <1>3, ReadNext DEF SameRows, Fields
<1>5. Kept(Visible(p)', origin)
  BY <1>4, SameKept DEF RowsInv
<1> QED
  BY <1>1, <1>2, <1>5 DEF KeptBy

(* What a write makes of the view. *)
LEMMA WrittenView ==
  ASSUME IInv, IInv', NEW p \in Starters, NEW changes, Write(p, changes), UNCHANGED db
  PROVE  /\ \A f \in Fields : Visible(p)'[f] = IF f \in DOMAIN changes THEN changes[f]
                                               ELSE Visible(p)[f]
         /\ \A f \in DOMAIN changes : work'[p][f] = changes[f]
<1>1. /\ DOMAIN work'[p] = DOMAIN changes \cup DOMAIN work[p]
      /\ \A f \in DOMAIN work'[p] :
           work'[p][f] = IF f \in DOMAIN changes THEN changes[f] ELSE work[p][f]
  BY WriteView DEF IInv
<1>2. DOMAIN db' = Fields
  BY DatabaseFields DEF IInv, TypeOK
<1> QED
  BY <1>1, <1>2, ReadNext, VisibleNow DEF IInv

LEMMA MigrationRows ==
  ASSUME IInv, IInv', RowsInv, NEW p \in Starters, NEW n \in Files, RunMigration(p, n)
  PROVE  KeptBy(p)'
<1> DEFINE v == Visible(p)
           up == CASE n = 1 -> AddUsers(v)
                   [] n = 2 -> MoveToMemberships(v)
                   [] n = 3 -> AddSerialId(v)
           changes == [f \in DOMAIN up \cup {"versions"} |->
                         IF f = "versions" THEN v.versions \cup {n} ELSE up[f]]
<1>1. /\ Write(p, changes) /\ UNCHANGED <<db, st, origin>> /\ st[p].pc = "run"
      /\ v \in Database /\ Kept(v, origin)
  BY DEF RunMigration, IInv, TypeOK, RowsInv, KeptBy, First
<1> DEFINE w == Visible(p)'
<1>2. \A f \in Fields : w[f] = IF f \in DOMAIN changes THEN changes[f] ELSE v[f]
  <2> HIDE DEF changes
  <2> QED
    BY <1>1, WrittenView
<1>3. CASE n = 1
  <2>1. DOMAIN changes = {"users", "versions"} /\ changes["users"] = AddUsers(v)["users"]
    BY <1>3 DEF AddUsers
  <2> HIDE DEF changes
  <2>2. /\ w.users = IF v.users = "none" THEN "current" ELSE v.users
        /\ w.role = v.role /\ w.roleCol = v.roleCol /\ w.current = v.current
    BY <1>2, <2>1 DEF AddUsers, Fields
  <2> HIDE DEF w, v
  <2> QED
    BY <1>1, <2>2 DEF Kept, KeptBy, w
<1>4. CASE n = 2
  <2>1. /\ DOMAIN changes = {"users", "members", "roleCol", "unique", "role", "current",
                             "versions"}
        /\ \A f \in {"users", "roleCol", "role", "current"} :
             changes[f] = MoveToMemberships(v)[f]
    BY <1>4 DEF MoveToMemberships
  <2> HIDE DEF changes
  <2>2. /\ w.users = "current" /\ w.role = InsertMemberships(v)
        /\ w.roleCol = IF v.roleCol = "none" THEN "text" ELSE v.roleCol
        /\ w.current = IF v.users = "legacy" THEN {u \in Users : origin[u] # None}
                       ELSE v.current
    BY <1>2, <2>1 DEF MoveToMemberships, Fields
  <2> HIDE DEF w, v
  <2>3. Kept(w, origin)
    BY <1>1, <2>2 DEF Kept, InsertMemberships
  <2> QED
    BY <1>1, <2>3 DEF KeptBy, w
<1>5. CASE n = 3
  <2>1. DOMAIN changes = {"members", "unique", "versions"}
    BY <1>5 DEF AddSerialId
  <2> HIDE DEF changes
  <2>2. SameRows(v, w)
    BY <1>2, <2>1 DEF SameRows, Fields
  <2>3. Kept(w, origin)
    BY <1>1, <2>2, SameKept
  <2> QED
    BY <1>1, <2>3 DEF KeptBy
<1> QED
  BY <1>3, <1>4, <1>5 DEF RunMigration, Files

(* Writes that do not concern the rows. *)
LEMMA OtherWrites ==
  ASSUME IInv, IInv', RowsInv, NEW p \in Starters, RunRbacMigration(p) \/ SeedWrite(p)
  PROVE  KeptBy(p)'
<1>1. CASE Fail(p)
  BY <1>1, Resting
<1>2. CASE ~Fail(p)
  <2>1. PICK changes : /\ Write(p, changes) /\ UNCHANGED <<db, origin>>
                       /\ DOMAIN changes = {"rbac"}
    <3>1. DOMAIN CreateRbacTables(Visible(p)) = {"rbac"} /\ DOMAIN [rbac |-> "seeded"] = {"rbac"}
      BY DEF CreateRbacTables
    <3> QED
      BY <1>2, <3>1 DEF RunRbacMigration, SeedWrite
  <2>2. SameRows(Visible(p), Visible(p)')
    BY <2>1, WrittenView DEF SameRows, Fields
  <2>3. Kept(Visible(p), origin) => Kept(Visible(p)', origin)
    BY <2>2, SameKept
  <2>4. /\ st'[p].last = st[p].last /\ st'[p].pc \in {"seed", "seeded"}
        /\ st[p].pc \in {"run", "seeding"}
    BY <1>2 DEF RunRbacMigration, SeedWrite, Goto, IInv, TypeOK, Starter
  <2> QED
    BY <2>1, <2>3, <2>4 DEF RowsInv, KeptBy, First, Seeding
<1> QED
  BY <1>1, <1>2

LEMMA StillRows ==
  ASSUME IInv, RowsInv, NEW p \in Starters, NonePending(p) \/ SeedRead(p)
  PROVE  KeptBy(p)'
<1>1. Visible(p)' = Visible(p) /\ UNCHANGED origin
  BY SameView DEF NonePending, SeedRead
<1>2. \/ st[p].pc = "run" /\ st'[p].pc = "commit"
      \/ st[p].pc = "seed" /\ st'[p].pc = "seeding" /\ st'[p].last = st[p].last
  BY DEF NonePending, SeedRead, Goto, IInv, TypeOK, Starter
<1> QED
  BY <1>1, <1>2 DEF RowsInv, KeptBy, First, Seeding

LEMMA LinkRows ==
  ASSUME IInv, IInv', RowsInv, NEW p \in Starters, LinkMemberships(p)
  PROVE  KeptBy(p)'
<1>1. CASE Fail(p)
  BY <1>1, Resting
<1>2. CASE ~Fail(p)
  <2> DEFINE v == Visible(p)
             changes == LinkRoles(v)
  <2>1. /\ Write(p, changes) /\ Goto(p, "mark") /\ UNCHANGED <<db, origin>>
        /\ v.roleCol # "fk" /\ st[p].pc = "link"
    BY <1>2 DEF LinkMemberships
  <2>2. "role" \in DOMAIN changes /\ changes["role"] = [u \in Users |-> LinkedRole(v.role[u])]
    BY DEF LinkRoles
  <2> HIDE DEF changes
  <2>3. work'[p]["role"] = [u \in Users |-> LinkedRole(v.role[u])]
    BY <2>1, <2>2, WrittenView
  <2>4. DOMAIN work[p] = {} /\ db.users = "current"
    BY <2>1 DEF IInv, WorkInv, Wrote, First, Second, Seeding, Marks
  <2>5. SameRows(db, v)
    BY <2>4, VisibleNow DEF SameRows, Fields, IInv
  <2>6. Kept(v, origin) /\ v.users = "current"
    BY <2>4, <2>5, SameKept DEF RowsInv, SameRows
  <2>7. st'[p].pc = "mark"
    BY <2>1, Moved
  <2> HIDE DEF v
  <2> QED
    BY <2>1, <2>3, <2>6, <2>7 DEF KeptBy, Kept, First, Seeding
<1> QED
  BY <1>1, <1>2

LEMMA MarkRows ==
  ASSUME IInv, IInv', RowsInv, NEW p \in Starters, MarkExecuted(p)
  PROVE  KeptBy(p)'
<1> DEFINE v == Visible(p)
           w == Visible(p)'
           changes == [versions |-> v.versions \cup {4}]
<1>1. /\ Write(p, changes) /\ Goto(p, "commit") /\ UNCHANGED <<db, origin>>
      /\ st[p].pc = "mark" /\ WorkInv(p) /\ KeptBy(p) /\ Kept(db, origin) /\ Marks(db)
  BY DEF MarkExecuted, IInv, RowsInv
<1>2. DOMAIN changes = {"versions"}
  OBVIOUS
<1> HIDE DEF changes
<1>3. SameRows(v, w)
  BY <1>1, <1>2, WrittenView DEF SameRows, Fields
<1>4. /\ DOMAIN work[p] = {"roleCol", "role"} /\ work[p]["roleCol"] = "fk"
      /\ db.users = "current"
  BY <1>1 DEF WorkInv, Wrote, First, Second, Seeding, Marks
<1>5. /\ v.roleCol = "fk" /\ v.users = "current" /\ v.current = db.current
      /\ v.role = work[p]["role"]
  BY <1>4, VisibleNow DEF Fields, IInv
<1> HIDE DEF v, w
<1>6. Kept(v, origin)
  BY <1>1, <1>4, <1>5 DEF Kept, KeptBy
<1>7. Kept(w, origin)
  BY <1>3, <1>6, SameKept
<1>8. st'[p].pc = "commit"
  BY <1>1, Moved
<1> QED
  BY <1>1, <1>7, <1>8 DEF KeptBy, w

LEMMA CommitRows ==
  ASSUME IInv, IInv', RowsInv, NEW p \in Starters, SeedCommit(p) \/ CommitMigrations(p)
  PROVE  RowsInv'
<1>1. /\ db' = Visible(p) /\ UNCHANGED origin /\ TypeOK /\ WorkInv(p)
      /\ \A q \in Starters \ {p} : work'[q] = work[q] /\ st'[q] = st[q]
  BY DEF SeedCommit, CommitMigrations, CommitWork, Goto, IInv, TypeOK
<1>2. KeptBy(p)'
  <2>1. CASE SeedCommit(p)
    <3>1. st'[p].pc \in {"up", "decide"}
      BY <2>1, Moved DEF SeedCommit
    <3> QED
      BY <3>1 DEF KeptBy, First, Seeding
  <2>2. CASE CommitMigrations(p)
    <3>1. st'[p].pc = "seed" /\ st'[p].last
      BY <2>2 DEF CommitMigrations, IInv, TypeOK
    <3> QED
      BY <3>1 DEF KeptBy, First, Seeding
  <2> QED
    BY <2>1, <2>2
<1>3. CASE st[p].pc = "seeded" /\ st[p].last
  <2>1. DOMAIN work[p] \subseteq {"rbac"}
    BY <1>1, <1>3 DEF WorkInv, Wrote, First, Seeding
  <2>2. SameRows(db, db')
    BY <1>1, <2>1, VisibleNow DEF SameRows, Fields
  <2> QED
    BY <1>1, <1>2, <2>2, RowsFrame
<1>4. CASE ~(st[p].pc = "seeded" /\ st[p].last)
  <2>1. lock["version"] = p /\ (First(p) \/ st[p].pc = "commit")
    BY <1>1, <1>4 DEF SeedCommit, CommitMigrations, WorkInv, First, Seeding
  <2>2. Kept(db', origin')
    BY <1>1, <2>1 DEF RowsInv, KeptBy
  <2>3. ASSUME NEW q \in Starters, q # p PROVE KeptBy(q)'
    <3>1. ~First(q) /\ st[q].pc # "commit"
      BY <2>1, <2>3 DEF IInv, WorkInv
    <3> QED
      BY <1>1, <2>3, <3>1 DEF RowsInv, KeptBy, First, Seeding
  <2> QED
    BY <1>2, <2>2, <2>3 DEF RowsInv
<1> QED
  BY <1>3, <1>4

LEMMA RowsStep ==
  ASSUME IInv, IInv', RowsInv, NEW p \in Starters, Step(p)
  PROVE  RowsInv'
<1>1. CASE SeedCommit(p) \/ CommitMigrations(p)
  BY <1>1, CommitRows
<1>2. CASE ~(SeedCommit(p) \/ CommitMigrations(p))
  <2>1. CASE DeadlockVictim(p)
    <3>1. Fail(p) /\ UNCHANGED <<db, origin>>
      BY <2>1 DEF DeadlockVictim, Fail
    <3>2. \A q \in Starters \ {p} : work'[q] = work[q] /\ st'[q] = st[q]
      BY <3>1 DEF Fail, IInv, TypeOK
    <3>3. SameRows(db, db')
      BY <3>1 DEF SameRows
    <3> QED
      BY <3>1, <3>2, <3>3, Resting, RowsFrame
  <2>2. CASE ~DeadlockVictim(p)
    <3>1. st[p].pc \notin {"seeded", "commit"}
      BY <1>2, <2>2 DEF Step, Start, StartWorker, EnsureTable, WaitForCreation, CreationFree,
         CreationTaken, RunMigration, RunRbacMigration, NonePending, SeedRead, SeedWrite,
         Decide, AddRoleId, LinkMemberships, MarkExecuted
    <3>2. /\ UNCHANGED <<db, origin>>
          /\ \A q \in Starters \ {p} : work'[q] = work[q] /\ st'[q] = st[q]
      BY <3>1, Apart DEF RowsInv
    <3>3. KeptBy(p)'
      BY <1>2, <2>2, Resting, EnsureRows, MigrationRows, OtherWrites, StillRows, LinkRows,
         MarkRows DEF Step
    <3>4. SameRows(db, db')
      BY <3>2 DEF SameRows
    <3> QED
      BY <3>2, <3>3, <3>4, RowsFrame
  <2> QED
    BY <2>1, <2>2
<1> QED
  BY <1>1, <1>2

LEMMA KillRows ==
  ASSUME IInv, IInv', RowsInv, NEW dead \in SUBSET Starters, Kill(dead)
  PROVE  RowsInv'
<1>1. [Down EXCEPT !.pc = "failed"].pc = "failed"
  BY DEF Down
<1>2. /\ UNCHANGED <<db, origin>> /\ DOMAIN db' = Fields /\ TypeOK
      /\ \A p \in Starters : p \in dead => st'[p].pc = "failed"
      /\ \A p \in Starters \ dead : work'[p] = work[p] /\ st'[p] = st[p]
  BY <1>1, DatabaseFields DEF Kill, IInv, TypeOK
<1>3. ASSUME NEW q \in Starters PROVE KeptBy(q)'
  <2>1. CASE q \in dead
    BY <1>2, <2>1 DEF KeptBy, First, Seeding
  <2>2. CASE q \notin dead
    <3>1. SameRows(Visible(q), Visible(q)')
      BY <1>2, <2>2, ReadNext, VisibleNow DEF SameRows, Fields
    <3>2. Kept(Visible(q), origin) => Kept(Visible(q)', origin)
      BY <3>1, SameKept
    <3> QED
      BY <1>2, <2>2, <3>2 DEF RowsInv, KeptBy, First, Seeding
  <2> QED
    BY <2>1, <2>2
<1> QED
  BY <1>2, <1>3 DEF RowsInv

LEMMA SameAgain == ASSUME RowsInv, UNCHANGED vars PROVE RowsInv'
<1>1. \A p \in Starters : Visible(p)' = Visible(p)
  BY SameView DEF vars
<1> QED
  BY <1>1 DEF vars, RowsInv, KeptBy, Kept, First, Seeding

LEMMA RowsStart == Init => RowsInv \/ NoLegacy
<1> SUFFICES ASSUME Init, ~NoLegacy PROVE RowsInv
  OBVIOUS
<1>1. ~Install /\ db \in Inherited(origin)
  BY DEF Init, NoLegacy
<1>2. \A p \in Starters : st[p].pc = "down"
  BY DEF Init, Down
<1>3. Kept(db, origin)
  <2> DEFINE rows == [u \in Users |-> IF origin[u] = None THEN None ELSE RoleOrOwner(origin[u])]
             moved == [Blank EXCEPT !.table = TRUE, !.users = "current", !.roleCol = "text",
                             !.role = rows, !.current = {u \in Users : origin[u] # None}]
  <2>1. CASE db = [Blank EXCEPT !.table = TRUE, !.versions = {1}, !.users = "legacy"]
    <3>1. db.users = "legacy" /\ db.roleCol = "none" /\ db.role = [u \in Users |-> None]
      BY <2>1 DEF Blank
    <3> QED
      BY <3>1 DEF Kept
  <2>2. CASE \/ db = [moved EXCEPT !.versions = {1, 2}, !.members = "bare"]
             \/ db = [moved EXCEPT !.versions = {1, 2}, !.members = "serial", !.unique = TRUE]
             \/ db = [moved EXCEPT !.versions = {1, 2, 3}, !.members = "serial", !.unique = TRUE]
    <3>1. /\ db.users = "current" /\ db.roleCol = "text" /\ db.role = rows
          /\ db.current = {u \in Users : origin[u] # None}
      BY <2>2 DEF Blank
    <3> QED
      BY <3>1 DEF Kept
  <2> QED
    BY <1>1, <2>1, <2>2 DEF Inherited
<1> QED
  BY <1>1, <1>2, <1>3 DEF RowsInv, KeptBy, First, Seeding

-----------------------------------------------------------------------------
(* Locks, with and without INSTALL_MODE *)

(* Which locks a starter has where it is. *)
Holding(p) ==
  /\ lock["version"] = p => First(p) \/ st[p].pc = "commit"
  /\ lock["members"] = p => st[p].pc \in {"link", "mark", "commit"}
  /\ lock["rbac"] = p => st[p].pc \in {"seeded", "mark", "commit"}
  /\ st[p].pc \in {"link", "mark"} => lock["members"] = p
  /\ st[p].pc = "mark" => lock["rbac"] = p

HoldingInv == \A p \in Starters : Holding(p)

(* A step of p leaves the others where they are, with the locks they have. *)
LEMMA OthersStay ==
  ASSUME IInv, NEW p \in Starters, Step(p)
  PROVE  \A q \in Starters \ {p} :
           st'[q] = st[q] /\ \A t \in Tables : lock'[t] = q <=> lock[t] = q
<1>1. \A q \in Starters \ {p} : st'[q] = st[q]
  BY DEF Step, Start, StartWorker, EnsureTable, WaitForCreation, CreationFree,
         CreationTaken, RunMigration, RunRbacMigration, NonePending, SeedRead, SeedWrite,
         SeedCommit, Decide, AddRoleId, LinkMemberships, MarkExecuted, CommitMigrations,
         DeadlockVictim, Fail, Goto, IInv, TypeOK
<1>2. \/ lock' = lock \/ lock' = Released(p)
      \/ \E t \in Tables : Available(p, t) /\ lock' = [lock EXCEPT ![t] = p]
  BY DEF Step, Start, StartWorker, EnsureTable, WaitForCreation, CreationFree,
         CreationTaken, RunMigration, RunRbacMigration, NonePending, SeedRead, SeedWrite,
         SeedCommit, Decide, AddRoleId, LinkMemberships, MarkExecuted, CommitMigrations,
         DeadlockVictim, Fail, CommitWork, Tables
<1>3. \A q \in Starters \ {p}, t \in Tables : lock'[t] = q <=> lock[t] = q
  BY <1>2, StarterAssumption DEF Available, Released, IInv, TypeOK
<1> QED
  BY <1>1, <1>3

LEMMA HoldingStep ==
  ASSUME IInv, HoldingInv, NEW p \in Starters, Step(p)
  PROVE  HoldingInv'
<1>1. TypeOK /\ Holding(p) /\ WorkInv(p) /\ lock \in [Tables -> Starters \cup {Nobody}]
  BY DEF IInv, HoldingInv, TypeOK
<1>2. ASSUME NEW q \in Starters, q # p PROVE Holding(q)'
  BY <1>2, OthersStay DEF HoldingInv, Holding, First, Seeding, Tables
<1> SUFFICES Holding(p)'
  BY <1>2 DEF HoldingInv
<1>3. CASE lock' = Released(p) /\ st'[p].pc \notin {"link", "mark"}
  BY <1>3, StarterAssumption DEF Holding, Released, Tables
<1>4. CASE Fail(p) \/ SeedCommit(p) \/ CommitMigrations(p)
  <2>1. Fail(p) => st'[p].pc = "failed"
    BY <1>1 DEF Fail, Down, TypeOK
  <2>2. SeedCommit(p) => Goto(p, "up") \/ Goto(p, "decide")
    BY DEF SeedCommit
  <2>3. SeedCommit(p) => st'[p].pc \in {"up", "decide"}
    BY <2>2, Moved
  <2>4. CommitMigrations(p) => st'[p].pc = "seed"
    BY <1>1 DEF CommitMigrations, TypeOK
  <2>5. lock' = Released(p)
    BY <1>4 DEF Fail, SeedCommit, CommitMigrations, CommitWork
  <2> QED
    BY <1>3, <1>4, <2>1, <2>3, <2>4, <2>5
<1>5. CASE Start(p) \/ StartWorker(p)
  <2>1. st'[p].pc \in {"ensure", "seed"} /\ lock' = lock
    BY <1>1, <1>5 DEF Start, StartWorker, Down, TypeOK
  <2> QED
    BY <1>1, <1>5, <2>1 DEF Start, StartWorker, Holding, First, Seeding
<1>6. CASE EnsureTable(p) \/ CreationFree(p)
  <2>1. Goto(p, "run") /\ lock' = [lock EXCEPT !["version"] = p]
    BY <1>6 DEF EnsureTable, CreationFree
  <2>2. st'[p].pc = "run"
    BY <2>1, Moved
  <2> QED
    BY <1>1, <1>6, <2>1, <2>2
       DEF EnsureTable, CreationFree, Holding, First, Seeding, Tables
<1>7. CASE WaitForCreation(p) \/ NonePending(p) \/ RunRbacMigration(p) \/ Decide(p)
  <2>1. ~MembershipRoleUsesFk(Visible(p))
    BY DEF MembershipRoleUsesFk, ColumnDataType
  <2>2. /\ lock' = lock
        /\ \/ Goto(p, "creating") /\ st[p].pc = "ensure"
           \/ Goto(p, "commit") /\ st[p].pc = "run"
           \/ Goto(p, "seed") /\ st[p].pc = "run"
           \/ Goto(p, "alter") /\ st[p].pc = "decide"
    BY <1>7, <2>1 DEF WaitForCreation, NonePending, RunRbacMigration, Decide
  <2>3. /\ st'[p].last = st[p].last
        /\ \/ st'[p].pc = "creating" /\ st[p].pc = "ensure"
           \/ st'[p].pc = "commit" /\ st[p].pc = "run"
           \/ st'[p].pc = "seed" /\ st[p].pc = "run"
           \/ st'[p].pc = "alter" /\ st[p].pc = "decide"
    BY <2>2, Moved
  <2> QED
    BY <1>1, <2>2, <2>3 DEF Holding, WorkInv, First, Seeding
<1>8. CASE SeedRead(p) \/ \E n \in Files : RunMigration(p, n)
  <2>1. /\ lock' = lock
        /\ \/ st'[p] = st[p]
           \/ st[p].pc = "seed" /\ st'[p].pc = "seeding" /\ st'[p].last = st[p].last
    <3>1. CASE SeedRead(p)
      BY <1>1, <3>1 DEF SeedRead, TypeOK, Starter
    <3>2. CASE \E n \in Files : RunMigration(p, n)
      <4>1. UNCHANGED <<st, lock>>
        BY <3>2 DEF RunMigration
      <4> QED
        BY <4>1
    <3> QED
      BY <1>8, <3>1, <3>2
  <2> QED
    BY <1>1, <2>1 DEF Holding, First, Seeding
<1>9. CASE ~Fail(p) /\ (\/ SeedWrite(p) \/ AddRoleId(p) \/ LinkMemberships(p)
                       \/ MarkExecuted(p))
  <2>1. \/ /\ Goto(p, "seeded") /\ st[p].pc = "seeding"
           /\ lock' = [lock EXCEPT !["rbac"] = p]
        \/ /\ Goto(p, "link") /\ st[p].pc = "alter"
           /\ lock' = [lock EXCEPT !["members"] = p]
        \/ /\ Goto(p, "mark") /\ st[p].pc = "link"
           /\ lock' = [lock EXCEPT !["rbac"] = p]
        \/ /\ Goto(p, "commit") /\ st[p].pc = "mark"
           /\ lock' = [lock EXCEPT !["version"] = p]
    BY <1>9 DEF SeedWrite, AddRoleId, LinkMemberships, MarkExecuted
  <2>2. /\ st'[p].last = st[p].last
        /\ \/ /\ st'[p].pc = "seeded" /\ st[p].pc = "seeding"
              /\ lock' = [lock EXCEPT !["rbac"] = p]
           \/ /\ st'[p].pc = "link" /\ st[p].pc = "alter"
              /\ lock' = [lock EXCEPT !["members"] = p]
           \/ /\ st'[p].pc = "mark" /\ st[p].pc = "link"
              /\ lock' = [lock EXCEPT !["rbac"] = p]
           \/ /\ st'[p].pc = "commit" /\ st[p].pc = "mark"
              /\ lock' = [lock EXCEPT !["version"] = p]
    BY <2>1, Moved
  <2> QED
    BY <1>1, <2>2 DEF Holding, First, Seeding, Tables
<1> QED
  BY <1>4, <1>5, <1>6, <1>7, <1>8, <1>9 DEF Step, CreationTaken, DeadlockVictim

LEMMA HoldingKilled ==
  ASSUME IInv, HoldingInv, NEW dead \in SUBSET Starters, Kill(dead)
  PROVE  HoldingInv'
<1>1. [Down EXCEPT !.pc = "failed"].pc = "failed"
  BY DEF Down
<1>2. /\ \A p \in Starters : p \in dead => st'[p].pc = "failed"
      /\ \A p \in Starters \ dead : st'[p] = st[p]
      /\ \A t \in Tables : lock'[t] = IF lock[t] \in dead THEN Nobody ELSE lock[t]
  BY <1>1 DEF Kill, IInv, TypeOK
<1> QED
  BY <1>2, StarterAssumption DEF HoldingInv, Holding, First, Seeding, Tables

LEMMA HoldingSame == ASSUME HoldingInv, UNCHANGED vars PROVE HoldingInv'
BY DEF vars, HoldingInv, Holding, First, Seeding

LEMMA HoldingStart == ASSUME Init PROVE HoldingInv
<1>1. \A p \in Starters : st[p].pc = "down"
  BY DEF Init, Down
<1> QED
  BY <1>1, StarterAssumption DEF Init, HoldingInv, Holding, Tables

Waiting(p) == \E t \in Tables : Wants(p, t)

(* Whoever keeps others waiting is migrating, and waits at one of three       *)
(* places if at all.                                                          *)
LEMMA HoldersMigrate ==
  ASSUME IInv, HoldingInv, NEW p \in Starters, NEW t \in Tables, Wants(p, t)
  PROVE  /\ lock[t] \in Starters \ {p} /\ Migrating(lock[t])
         /\ Waiting(lock[t]) =>
              \/ t = "version" /\ st[lock[t]].pc = "seeding"
              \/ t = "members" /\ st[lock[t]].pc \in {"link", "mark"}
              \/ t = "rbac" /\ st[lock[t]].pc = "mark"
<1>1. lock[t] \in Starters \ {p}
  BY DEF Wants, Available, IInv, TypeOK
<1>2. PICK q \in Starters : q = lock[t]
  BY <1>1
<1>3. Holding(q)
  BY DEF HoldingInv
<1>4. Migrating(q)
  BY <1>2, <1>3 DEF Holding, Migrating, First, Seeding, Tables
<1>5. Waiting(q) => st[q].pc \in {"ensure", "creating", "mark", "alter", "seeding", "link"}
  BY DEF Waiting, Wants
<1>6. Waiting(q) => \/ t = "version" /\ st[q].pc = "seeding"
                    \/ t = "members" /\ st[q].pc \in {"link", "mark"}
                    \/ t = "rbac" /\ st[q].pc = "mark"
  BY <1>2, <1>3, <1>5 DEF Holding, First, Seeding, Tables
<1> QED
  BY <1>1, <1>2, <1>4, <1>6

(* There is no circle of three: waits for business_memberships and for the    *)
(* RBAC tables end at database_version, and who has that one waits for the    *)
(* RBAC tables only, while it seeds.                                          *)
LEMMA SomeoneMoves ==
  ASSUME IInv, HoldingInv, NEW p \in Starters, Migrating(p)
  PROVE  \E q \in Starters : Migrating(q) /\ (Deadlocked(q) \/ ~Waiting(q))
<1> SUFFICES ASSUME \A q \in Starters : Migrating(q) => Waiting(q) /\ ~Deadlocked(q)
             PROVE  FALSE
  OBVIOUS
<1>1. ASSUME NEW q \in Starters, NEW t \in Tables, Wants(q, t)
      PROVE  /\ lock[t] \in Starters \ {q} /\ Migrating(lock[t]) /\ Waiting(lock[t])
             /\ \/ t = "version" /\ st[lock[t]].pc = "seeding"
                \/ t = "members" /\ st[lock[t]].pc \in {"link", "mark"}
                \/ t = "rbac" /\ st[lock[t]].pc = "mark"
  BY <1>1, HoldersMigrate
<1>2. ASSUME NEW q \in Starters, Migrating(q), st[q].pc = "seeding", lock["version"] = q
      PROVE  FALSE
  <2>1. Wants(q, "rbac")
    BY <1>2 DEF Waiting, Wants
  <2>2. PICK r \in Starters \ {q} : r = lock["rbac"] /\ Waiting(r) /\ st[r].pc = "mark"
    BY <1>1, <2>1 DEF Tables
  <2>3. Wants(r, "version")
    BY <2>2 DEF Waiting, Wants
  <2>4. Deadlocked(q)
    BY <1>2, <2>1, <2>2, <2>3 DEF Deadlocked, Tables
  <2> QED
    BY <1>2, <2>4
<1>3. ASSUME NEW q \in Starters, Wants(q, "version") PROVE FALSE
  BY <1>1, <1>2, <1>3 DEF Tables
<1>4. ASSUME NEW q \in Starters, Wants(q, "rbac") PROVE FALSE
  <2>1. PICK r \in Starters : Waiting(r) /\ st[r].pc = "mark"
    BY <1>1, <1>4 DEF Tables
  <2>2. Wants(r, "version")
    BY <2>1 DEF Waiting, Wants
  <2> QED
    BY <1>3, <2>2
<1>5. ASSUME NEW q \in Starters, Wants(q, "members") PROVE FALSE
  <2>1. PICK r \in Starters : Waiting(r) /\ st[r].pc \in {"link", "mark"}
    BY <1>1, <1>5 DEF Tables
  <2>2. Wants(r, "version") \/ Wants(r, "rbac")
    BY <2>1 DEF Waiting, Wants
  <2> QED
    BY <1>3, <1>4, <2>2
<1> QED
  BY <1>3, <1>4, <1>5 DEF Waiting, Tables

-----------------------------------------------------------------------------
(* Starters in one another's way, without INSTALL_MODE *)

(* The roles are stored as the marks say, and until 1779792000 is marked they *)
(* are text that it can link.                                                 *)
Laid(v) ==
  /\ v.roleCol = "fk" <=> 4 \in v.versions
  /\ v.roleCol = "none" <=> 2 \notin v.versions
  /\ 4 \notin v.versions => \A u \in Users : v.role[u] # "unset"

(* p is inside the migrations or the seeding. *)
Busy(p) == First(p) \/ Seeding(p) \/ Second(p) \/ st[p].pc = "commit"

(* A worker is never busy but with the last seeding, and nobody seeds behind  *)
(* the back of who migrates.                                                  *)
Clear(p) ==
  /\ p \in Skipping => st[p].pc \in {"down", "failed", "up"} \/ st[p].last
  /\ First(p) => Laid(Visible(p))
  /\ st[p].pc = "seeding" /\ ~st[p].last => st[p].saw = Visible(p).rbac

ClearInv == Laid(db) /\ \A p \in Starters : Clear(p)

(* SomeStarterSucceeds, made inductive: before the database is migrated there *)
(* is always a starter left that can still migrate it, and when the creation  *)
(* of database_version is about to fail, one that is past it.                 *)
SomeoneGoesOn ==
  kills = 0 /\ 4 \notin db.versions =>
    /\ \E q \in Starters \ Skipping : st[q].pc \notin {"failed", "up"}
    /\ db.table /\ (\E p \in Starters : st[p].pc = "creating") =>
         \E q \in Starters \ Skipping : Busy(q)

(* What Laid and the seeding look at. *)
SameRoles(v, w) ==
  w.versions = v.versions /\ w.roleCol = v.roleCol /\ w.role = v.role

LEMMA SameLaid ==
  ASSUME NEW v, NEW w, SameRoles(v, w), Laid(v)
  PROVE  Laid(w)
BY DEF SameRoles, Laid

(* A step of p that does not commit. *)
LEMMA ClearFrame ==
  ASSUME IInv, IInv', ClearInv, NEW p \in Starters, UNCHANGED db,
         \A q \in Starters \ {p} : work'[q] = work[q] /\ st'[q] = st[q],
         Clear(p)'
  PROVE  ClearInv'
<1>1. DOMAIN db' = Fields /\ TypeOK
  BY DatabaseFields DEF IInv, TypeOK
<1>2. ASSUME NEW q \in Starters, q # p PROVE Clear(q)'
  <2>1. SameRoles(Visible(q), Visible(q)') /\ Visible(q)'.rbac = Visible(q).rbac
    BY <1>1, <1>2, ReadNext, VisibleNow DEF SameRoles, Fields
  <2>2. Laid(Visible(q)) => Laid(Visible(q)')
    BY <2>1, SameLaid
  <2> QED
    BY <1>2, <2>1, <2>2 DEF ClearInv, Clear, First, Second, Seeding, Busy
<1> QED
  BY <1>2 DEF ClearInv, Laid

(* Failures, starts and waits, *)
LEMMA ClearAside ==
  ASSUME IInv, ClearInv, NEW p \in Starters,
         Start(p) \/ StartWorker(p) \/ WaitForCreation(p) \/ Fail(p)
  PROVE  Clear(p)'
<1>1. CASE Start(p)
  <2>1. [Down EXCEPT !.pc = "ensure"].pc = "ensure"
    BY DEF Down
  <2>2. st'[p].pc = "ensure" /\ p \notin Skipping /\ ~Busy(p) /\ lock' = lock
    BY <1>1, <2>1 DEF Start, IInv, TypeOK, Busy, First, Second, Seeding
  <2> QED
    BY <2>2 DEF ClearInv, Clear, First, Seeding
<1>2. CASE StartWorker(p)
  <2>1. /\ [Down EXCEPT !.pc = "seed", !.last = TRUE].pc = "seed"
        /\ [Down EXCEPT !.pc = "seed", !.last = TRUE].last
    BY DEF Down
  <2>2. st'[p].pc = "seed" /\ st'[p].last
    BY <1>2, <2>1 DEF StartWorker, IInv, TypeOK
  <2> QED
    BY <2>2 DEF Clear, First, Seeding, Busy
<1>3. CASE WaitForCreation(p)
  <2>1. st'[p].pc = "creating" /\ st'[p].last = st[p].last /\ st[p].pc = "ensure"
    BY <1>3, Moved DEF WaitForCreation
  <2>2. ~Busy(p) /\ lock' = lock
    BY <1>3, <2>1 DEF WaitForCreation, Busy, First, Second, Seeding
  <2> QED
    BY <2>1, <2>2 DEF ClearInv, Clear, First, Seeding
<1>4. CASE Fail(p)
  <2>1. [Down EXCEPT !.pc = "failed"].pc = "failed"
    BY DEF Down
  <2>2. st'[p].pc = "failed" /\ \A t \in Tables : lock'[t] # p
    BY <1>4, <2>1, StarterAssumption DEF Fail, Released, IInv, TypeOK
  <2> QED
    BY <2>2 DEF Clear, First, Seeding
<1> QED
  BY <1>1, <1>2, <1>3, <1>4

(* the statements between two transactions, *)
LEMMA ClearBetween ==
  ASSUME IInv, ClearInv, NEW p \in Starters,
         \/ NonePending(p) \/ SeedRead(p) \/ Decide(p) \/ AddRoleId(p) \/ MarkExecuted(p)
         \/ (LinkMemberships(p) /\ ~Fail(p))
  PROVE  Clear(p)'
<1>1. ~MembershipRoleUsesFk(Visible(p))
  BY DEF MembershipRoleUsesFk, ColumnDataType
<1>2. WorkInv(p) /\ Clear(p)
  BY DEF IInv, ClearInv
<1>3. CASE SeedRead(p)
  <2>1. /\ st'[p].pc = "seeding" /\ st'[p].saw = Visible(p).rbac /\ st'[p].last = st[p].last
        /\ st[p].pc = "seed"
    BY <1>3 DEF SeedRead, IInv, TypeOK, Starter
  <2>2. Visible(p)' = Visible(p)
    BY <1>3, SameView DEF SeedRead
  <2> QED
    BY <1>2, <2>1, <2>2 DEF Clear, First, Seeding, Busy
<1>4. CASE ~SeedRead(p)
  <2>1. \/ Goto(p, "commit") /\ st[p].pc \in {"run", "mark"}
        \/ Goto(p, "alter") /\ st[p].pc = "decide"
        \/ Goto(p, "link") /\ st[p].pc = "alter"
        \/ Goto(p, "mark") /\ st[p].pc = "link"
    BY <1>1, <1>4 DEF NonePending, Decide, AddRoleId, MarkExecuted, LinkMemberships
  <2>2. st'[p].pc \in {"commit", "alter", "link", "mark"} /\ st'[p].last = st[p].last
    BY <2>1, Moved
  <2>3. p \notin Skipping
    BY <1>2, <2>1 DEF Clear, WorkInv, Seeding
  <2> QED
    BY <2>2, <2>3 DEF Clear, First, Second, Seeding, Busy
<1> QED
  BY <1>3, <1>4

(* and the writes of the first transaction. *)
LEMMA ClearEnsured ==
  ASSUME IInv, IInv', ClearInv, NEW p \in Starters, EnsureTable(p) \/ CreationFree(p)
  PROVE  Clear(p)'
<1>1. /\ DOMAIN db' = Fields /\ TypeOK /\ WorkInv(p) /\ UNCHANGED db
      /\ st[p].pc \in {"ensure", "creating"} /\ Clear(p) /\ Laid(db)
  BY DatabaseFields DEF IInv, TypeOK, EnsureTable, CreationFree, ClearInv
<1>2. DOMAIN work[p] = {} /\ st'[p].pc = "run"
  <2>1. DOMAIN work[p] = {}
    BY <1>1 DEF WorkInv, Wrote, First, Seeding
  <2> QED
    BY <2>1, Moved DEF EnsureTable, CreationFree
<1>3. DOMAIN work'[p] = {"table"}
  BY <1>2 DEF EnsureTable, CreationFree, Write, IInv
<1>4. SameRoles(db, Visible(p)')
  BY <1>1, <1>3, ReadNext DEF SameRoles, Fields
<1>5. Laid(Visible(p)')
  BY <1>1, <1>4, SameLaid
<1>6. p \notin Skipping
  BY <1>1 DEF Clear, WorkInv, Seeding
<1> QED
  BY <1>2, <1>5, <1>6 DEF Clear, First, Busy

LEMMA ClearMigrated ==
  ASSUME IInv, IInv', ClearInv, NEW p \in Starters, NEW n \in Files, RunMigration(p, n)
  PROVE  Clear(p)'
<1> DEFINE v == Visible(p)
           up == CASE n = 1 -> AddUsers(v)
                   [] n = 2 -> MoveToMemberships(v)
                   [] n = 3 -> AddSerialId(v)
           changes == [f \in DOMAIN up \cup {"versions"} |->
                         IF f = "versions" THEN v.versions \cup {n} ELSE up[f]]
           w == Visible(p)'
<1>1. /\ Write(p, changes) /\ UNCHANGED <<db, lock, st, origin>> /\ st[p].pc = "run"
      /\ v \in Database /\ Laid(v) /\ Clear(p) /\ n # 4 /\ Pending(v, n) /\ Marks(v)
  BY DEF RunMigration, IInv, TypeOK, ClearInv, Clear, First, WorkInv
<1>2. \A f \in Fields : w[f] = IF f \in DOMAIN changes THEN changes[f] ELSE v[f]
  <2> HIDE DEF changes
  <2> QED
    BY <1>1, WrittenView
<1>3. "versions" \in DOMAIN changes /\ changes["versions"] = v.versions \cup {n}
  OBVIOUS
<1>4. w.versions = v.versions \cup {n}
  <2> HIDE DEF changes
  <2> QED
    BY <1>2, <1>3 DEF Fields
<1>5. CASE n # 2
  <2>1. "roleCol" \notin DOMAIN changes /\ "role" \notin DOMAIN changes
    BY <1>1, <1>5 DEF AddUsers, AddSerialId, Files
  <2> HIDE DEF changes
  <2>2. w.roleCol = v.roleCol /\ w.role = v.role
    BY <1>2, <2>1 DEF Fields
  <2> HIDE DEF w, v
  <2>3. Laid(w)
    BY <1>1, <1>4, <1>5, <2>2 DEF Laid, Files
  <2> QED
    BY <1>1, <2>3 DEF Clear, First, Second, Seeding, Busy, w
<1>6. CASE n = 2
  <2>1. /\ {"roleCol", "role"} \subseteq DOMAIN changes
        /\ changes["roleCol"] = MoveToMemberships(v)["roleCol"]
        /\ changes["role"] = MoveToMemberships(v)["role"]
    BY <1>6 DEF MoveToMemberships
  <2> HIDE DEF changes
  <2>2. /\ w.role = InsertMemberships(v)
        /\ w.roleCol = IF v.roleCol = "none" THEN "text" ELSE v.roleCol
    BY <1>2, <2>1 DEF MoveToMemberships, Fields
  <2> HIDE DEF w, v
  <2>3. 2 \notin v.versions /\ 4 \notin v.versions
    BY <1>1, <1>6 DEF Pending, Marks, Done, Files
  <2>4. Laid(w)
    BY <1>1, <1>4, <1>6, <2>2, <2>3 DEF Laid, InsertMemberships, RoleOrOwner
  <2> QED
    BY <1>1, <2>4 DEF Clear, First, Second, Seeding, Busy, w
<1> QED
  BY <1>5, <1>6

(* Writes that do not concern the roles. *)
LEMMA ClearOther ==
  ASSUME IInv, IInv', ClearInv, NEW p \in Starters,
         RunRbacMigration(p) \/ (SeedWrite(p) /\ ~Fail(p))
  PROVE  Clear(p)'
<1>1. PICK changes : Write(p, changes) /\ UNCHANGED db /\ DOMAIN changes = {"rbac"}
  <2>1. DOMAIN CreateRbacTables(Visible(p)) = {"rbac"} /\ DOMAIN [rbac |-> "seeded"] = {"rbac"}
    BY DEF CreateRbacTables
  <2> QED
    BY <2>1 DEF RunRbacMigration, SeedWrite
<1>2. SameRoles(Visible(p), Visible(p)')
  BY <1>1, WrittenView DEF SameRoles, Fields
<1>3. Laid(Visible(p)) => Laid(Visible(p)')
  BY <1>2, SameLaid
<1>4. /\ st'[p].last = st[p].last /\ st'[p].pc \in {"seed", "seeded"}
      /\ st[p].pc \in {"run", "seeding"}
  BY DEF RunRbacMigration, SeedWrite, Goto, IInv, TypeOK, Starter
<1> QED
  BY <1>3, <1>4 DEF ClearInv, Clear, First, Seeding, Busy

(* A commit: whoever else migrates waits for it, or its database is done. *)
LEMMA ClearCommit ==
  ASSUME IInv, IInv', ClearInv, NEW p \in Starters, SeedCommit(p) \/ CommitMigrations(p)
  PROVE  ClearInv'
<1>1. /\ db' = Visible(p) /\ TypeOK /\ WorkInv(p) /\ Clear(p)
      /\ \A q \in Starters \ {p} : work'[q] = work[q] /\ st'[q] = st[q]
      /\ \A t \in Tables : lock'[t] = lock[t] \/ (lock[t] = p /\ lock'[t] = Nobody)
  BY DEF SeedCommit, CommitMigrations, CommitWork, Released, Goto, IInv, TypeOK, ClearInv
<1>2. \A t \in Tables : lock'[t] # p
  BY StarterAssumption DEF SeedCommit, CommitMigrations, CommitWork, Released
<1>3. \/ SeedCommit(p) /\ ~st[p].last /\ st'[p].pc = "decide" /\ First(p) /\ ~st'[p].last
      \/ SeedCommit(p) /\ st[p].last /\ st'[p].pc = "up" /\ Done(db)
      \/ CommitMigrations(p) /\ st'[p].pc = "seed" /\ st'[p].last /\ Done(Visible(p))
  <2>1. CASE SeedCommit(p)
    <3>1. st[p].pc = "seeded"
      BY <2>1 DEF SeedCommit
    <3>2. CASE st[p].last
      <4>1. Goto(p, "up")
        BY <2>1, <3>2 DEF SeedCommit
      <4> QED
        BY <1>1, <2>1, <3>1, <3>2, <4>1, Moved DEF WorkInv, Seeding
    <3>3. CASE ~st[p].last
      <4>1. Goto(p, "decide")
        BY <2>1, <3>3 DEF SeedCommit
      <4> QED
        BY <2>1, <3>1, <3>3, <4>1, Moved DEF First, Seeding
    <3> QED
      BY <3>2, <3>3
  <2>2. CASE CommitMigrations(p)
    BY <1>1, <2>2 DEF CommitMigrations, WorkInv, TypeOK
  <2> QED
    BY <2>1, <2>2
<1>4. Clear(p)'
  <2>1. p \notin Skipping \/ st[p].last \/ st[p].pc \notin {"seeded", "commit"}
    BY <1>1 DEF Clear
  <2>2. st[p].pc \in {"seeded", "commit"}
    BY DEF SeedCommit, CommitMigrations
  <2> QED
    BY <1>2, <1>3, <2>1, <2>2 DEF Clear, First, Second, Seeding, Busy
<1>5. Laid(db')
  <2>1. CASE First(p)
    BY <1>1, <2>1 DEF Clear
  <2>2. CASE Done(Visible(p))
    BY <1>1, <2>2 DEF Done, Laid, Files
  <2>3. CASE Done(db) /\ SeedCommit(p) /\ st[p].last
    <3>1. DOMAIN work[p] \subseteq {"rbac"}
      BY <1>1, <2>3 DEF SeedCommit, WorkInv, Wrote, First, Seeding
    <3>2. SameRoles(db, db')
      BY <1>1, <3>1, VisibleNow DEF SameRoles, Fields
    <3> QED
      BY <3>2, SameLaid DEF ClearInv
  <2> QED
    BY <1>3, <2>1, <2>2, <2>3
<1>6. ASSUME NEW q \in Starters, q # p PROVE Clear(q)'
  <2>1. WorkInv(q) /\ WorkInv(q)' /\ Clear(q)
    BY DEF IInv, ClearInv
  <2>2. \A t \in Tables : lock'[t] = q => lock[t] = q
    BY <1>1, StarterAssumption
  <2>3. CASE ~First(q)
    BY <1>6, <1>1, <2>1, <2>2, <2>3 DEF Clear, First, Second, Seeding, Busy
  <2>4. CASE First(q)
    <3>1. lock["version"] = q
      BY <1>1, <1>6, <2>1, <2>4 DEF WorkInv, First, Seeding
    <3>2. Done(db) /\ SeedCommit(p) /\ st[p].last
      BY <1>1, <1>3, <1>6, <3>1 DEF CommitMigrations, WorkInv
    <3>3. DOMAIN work[p] \subseteq {"rbac"} /\ DOMAIN db' = Fields
      BY <1>1, <3>2, DatabaseFields DEF SeedCommit, WorkInv, Wrote, First, Seeding, IInv, TypeOK
    <3>4. SameRoles(db, db')
      BY <1>1, <3>3, VisibleNow DEF SameRoles, Fields
    <3>5. SameRoles(Visible(q), Visible(q)')
      BY <1>1, <1>6, <3>3, <3>4, ReadNext, VisibleNow DEF SameRoles, Fields
    <3>6. Laid(Visible(q)')
      BY <2>1, <2>4, <3>5, SameLaid DEF Clear
    <3>7. ~Seeding(q)
      BY <2>1, <2>4, <3>2 DEF WorkInv, First, Seeding, Done, Files
    <3> QED
      BY <1>1, <1>6, <2>1, <2>2, <2>4, <3>6, <3>7 DEF Clear, First, Second, Seeding
  <2> QED
    BY <2>3, <2>4
<1> QED
  BY <1>4, <1>5, <1>6 DEF ClearInv

LEMMA ClearStep ==
  ASSUME IInv, IInv', ClearInv, ~Install, NEW p \in Starters, Step(p)
  PROVE  ClearInv'
<1>1. CASE SeedCommit(p) \/ CommitMigrations(p)
  BY <1>1, ClearCommit
<1>2. CASE ~(SeedCommit(p) \/ CommitMigrations(p))
  <2>1. Clear(p)'
    <3>1. CASE Fail(p)
      BY <3>1, ClearAside
    <3>2. CASE ~Fail(p)
      BY <1>2, <3>2, ClearAside, ClearBetween, ClearEnsured, ClearMigrated, ClearOther
         DEF Step, CreationTaken, DeadlockVictim
    <3> QED
      BY <3>1, <3>2
  <2>2. UNCHANGED db /\ \A q \in Starters \ {p} : work'[q] = work[q] /\ st'[q] = st[q]
    <3>1. CASE Fail(p)
      BY <3>1 DEF Fail, IInv, TypeOK
    <3>2. CASE ~Fail(p)
      <4>1. st[p].pc \notin {"seeded", "commit"}
        BY <1>2, <3>2
           DEF Step, Start, StartWorker, EnsureTable, WaitForCreation, CreationFree,
               CreationTaken, RunMigration, RunRbacMigration, NonePending, SeedRead,
               SeedWrite, Decide, AddRoleId, LinkMemberships, MarkExecuted, DeadlockVictim
      <4> QED
        BY <4>1, Apart
    <3> QED
      BY <3>1, <3>2
  <2> QED
    BY <2>1, <2>2, ClearFrame
<1> QED
  BY <1>1, <1>2

LEMMA ClearKilled ==
  ASSUME IInv, IInv', ClearInv, NEW dead \in SUBSET Starters, Kill(dead)
  PROVE  ClearInv'
<1>1. [Down EXCEPT !.pc = "failed"].pc = "failed"
  BY DEF Down
<1>2. /\ UNCHANGED db /\ DOMAIN db' = Fields /\ TypeOK
      /\ \A p \in Starters : p \in dead => st'[p].pc = "failed"
      /\ \A p \in Starters \ dead : work'[p] = work[p] /\ st'[p] = st[p]
      /\ \A t \in Tables : lock'[t] = IF lock[t] \in dead THEN Nobody ELSE lock[t]
  BY <1>1, DatabaseFields DEF Kill, IInv, TypeOK
<1>3. ASSUME NEW q \in Starters PROVE Clear(q)'
  <2>1. CASE q \in dead
    BY <1>2, <2>1, StarterAssumption DEF Clear, First, Seeding
  <2>2. CASE q \notin dead
    <3>1. SameRoles(Visible(q), Visible(q)') /\ Visible(q)'.rbac = Visible(q).rbac
      BY <1>2, <2>2, ReadNext, VisibleNow DEF SameRoles, Fields
    <3>2. Laid(Visible(q)) => Laid(Visible(q)')
      BY <3>1, SameLaid
    <3>3. \A t \in Tables : lock'[t] = q => lock[t] = q
      BY <1>2, StarterAssumption
    <3> QED
      BY <1>2, <2>2, <3>1, <3>2, <3>3 DEF ClearInv, Clear, First, Second, Seeding, Busy
  <2> QED
    BY <2>1, <2>2
<1> QED
  BY <1>2, <1>3 DEF ClearInv, Laid

LEMMA ClearSame == ASSUME ClearInv, UNCHANGED vars PROVE ClearInv'
<1>1. \A p \in Starters : Visible(p)' = Visible(p)
  BY SameView DEF vars
<1> QED
  BY <1>1 DEF vars, ClearInv, Clear, Laid, First, Second, Seeding, Busy

LEMMA ClearStart == ASSUME Init PROVE ClearInv
<1>1. \A p \in Starters : st[p].pc = "down"
  BY DEF Init, Down
<1>2. \A t \in Tables : lock[t] \notin Starters
  BY StarterAssumption DEF Init
<1>3. Laid(db)
  <2>1. CASE db = Blank
    BY <2>1, LegacyAssumption DEF Laid, Blank
  <2>2. CASE db \in Inherited(origin)
    <3> DEFINE rows == [u \in Users |-> IF origin[u] = None THEN None ELSE RoleOrOwner(origin[u])]
               moved == [Blank EXCEPT !.table = TRUE, !.users = "current", !.roleCol = "text",
                               !.role = rows, !.current = {u \in Users : origin[u] # None}]
    <3>1. \A u \in Users : rows[u] # "unset"
      BY LegacyAssumption DEF RoleOrOwner
    <3>2. CASE db = [Blank EXCEPT !.table = TRUE, !.versions = {1}, !.users = "legacy"]
      <4>1. /\ db.roleCol = "none" /\ db.role = [u \in Users |-> None]
            /\ db.versions = {1}
        BY <3>2 DEF Blank
      <4> QED
        BY <4>1, LegacyAssumption DEF Laid
    <3>3. CASE \/ db = [moved EXCEPT !.versions = {1, 2}, !.members = "bare"]
               \/ db = [moved EXCEPT !.versions = {1, 2}, !.members = "serial", !.unique = TRUE]
               \/ db = [moved EXCEPT !.versions = {1, 2, 3}, !.members = "serial", !.unique = TRUE]
      <4>1. /\ db.roleCol = "text" /\ db.role = rows
            /\ db.versions = {1, 2} \/ db.versions = {1, 2, 3}
        BY <3>3 DEF Blank
      <4> HIDE DEF rows
      <4> QED
        BY <3>1, <4>1 DEF Laid
    <3> QED
      BY <2>2, <3>2, <3>3 DEF Inherited
  <2> QED
    BY <2>1, <2>2 DEF Init
<1> QED
  BY <1>1, <1>2, <1>3 DEF ClearInv, Clear, First, Seeding

(* A mark is for good. *)
LEMMA MarksStay ==
  ASSUME IInv, ~Install, NEW p \in Starters, Step(p)
  PROVE  db.versions \subseteq db'.versions
<1>1. TypeOK /\ WorkInv(p)
  BY DEF IInv
<1>2. CASE SeedCommit(p) \/ CommitMigrations(p)
  <2>1. db' = Visible(p) /\ st[p].pc \in {"seeded", "commit"}
    BY <1>2 DEF SeedCommit, CommitMigrations, CommitWork
  <2>2. CASE st[p].pc = "commit" \/ ~st[p].last
    BY <1>1, <2>1, <2>2 DEF WorkInv, First, Seeding
  <2>3. CASE st[p].pc = "seeded" /\ st[p].last
    <3>1. DOMAIN work[p] \subseteq {"rbac"}
      BY <1>1, <2>3 DEF WorkInv, Wrote, First, Seeding
    <3> QED
      BY <1>1, <2>1, <3>1, VisibleNow DEF Fields
  <2> QED
    BY <2>1, <2>2, <2>3
<1>3. CASE ~(SeedCommit(p) \/ CommitMigrations(p))
  <2>1. UNCHANGED db
    BY <1>3 DEF Step, Start, StartWorker, EnsureTable, WaitForCreation, CreationFree,
         CreationTaken, RunMigration, RunRbacMigration, NonePending, SeedRead, SeedWrite,
         Decide, AddRoleId, LinkMemberships, MarkExecuted, DeadlockVictim, Fail
  <2> QED
    BY <2>1
<1> QED
  BY <1>2, <1>3

(* A starter that is busy with the migrations stays so, unless it is chosen   *)
(* as a deadlock victim. *)
LEMMA StaysBusy ==
  ASSUME IInv, ClearInv, NEW p \in Starters, Step(p), Busy(p), 4 \notin db.versions,
         ~DeadlockVictim(p)
  PROVE  Busy(p)'
<1>1. /\ TypeOK /\ WorkInv(p) /\ Clear(p) /\ Marks(db) /\ ~Done(db)
      /\ st[p] \in Starter
  BY DEF IInv, ClearInv, TypeOK, Done, Files
<1>2. ~MembershipRoleUsesFk(Visible(p))
  BY DEF MembershipRoleUsesFk, ColumnDataType
<1>3. ~(SeedWrite(p) /\ Fail(p)) /\ ~st[p].last
  <2>1. ~st[p].last
    BY <1>1 DEF WorkInv
  <2>2. SeedWrite(p) => Clear(p) /\ st[p].saw = Visible(p).rbac
    BY <1>1, <2>1 DEF SeedWrite, Clear
  <2>3. SeedWrite(p) => Goto(p, "seeded")
    BY <2>2 DEF SeedWrite
  <2>4. Goto(p, "seeded") => st'[p].pc = "seeded"
    BY Moved
  <2>5. Fail(p) => st'[p].pc = "failed"
    BY <1>1 DEF Fail, Down, TypeOK
  <2> QED
    BY <2>1, <2>3, <2>4, <2>5
<1>4. LinkMemberships(p) => Goto(p, "mark")
  <2>1. SUFFICES ASSUME LinkMemberships(p) PROVE Goto(p, "mark")
    OBVIOUS
  <2>2. DOMAIN work[p] = {}
    BY <1>1, <2>1 DEF LinkMemberships, WorkInv, Wrote, First, Seeding
  <2>3. SameRoles(db, Visible(p))
    BY <1>1, <2>2, VisibleNow DEF SameRoles, Fields
  <2>4. Laid(Visible(p)) /\ 4 \notin Visible(p).versions
    BY <2>3, SameLaid DEF ClearInv, SameRoles
  <2>5. \A u \in Users : LinkedRole(Visible(p).role[u]) # "unset"
    BY <2>4 DEF Laid, LinkedRole
  <2> QED
    BY <2>1, <2>4, <2>5 DEF LinkMemberships, Laid
<1>5. CASE RunRbacMigration(p) \/ NonePending(p) \/ SeedWrite(p) \/ SeedCommit(p)
           \/ Decide(p) \/ AddRoleId(p) \/ LinkMemberships(p) \/ MarkExecuted(p)
  <2>1. SeedWrite(p) => Goto(p, "seeded")
    BY <1>3 DEF SeedWrite
  <2>2. \/ Goto(p, "seed") \/ Goto(p, "seeded") \/ Goto(p, "decide") \/ Goto(p, "alter")
        \/ Goto(p, "link") \/ Goto(p, "mark") \/ Goto(p, "commit")
    BY <1>2, <1>3, <1>4, <1>5, <2>1
       DEF RunRbacMigration, NonePending, SeedCommit, Decide, AddRoleId, MarkExecuted
  <2>3. st'[p].pc \in {"seed", "seeded", "decide", "alter", "link", "mark", "commit"}
    BY <2>2, Moved
  <2> QED
    BY <2>3 DEF Busy, First, Second, Seeding
<1>6. CASE (\E n \in Files : RunMigration(p, n)) \/ SeedRead(p) \/ CommitMigrations(p)
  <2>1. \/ st'[p].pc = st[p].pc /\ st'[p].last = st[p].last
        \/ st'[p].pc \in {"seed", "seeding"}
    <3>1. CASE \E n \in Files : RunMigration(p, n)
      <4>1. UNCHANGED st
        BY <3>1 DEF RunMigration
      <4> QED
        BY <4>1
    <3>2. CASE SeedRead(p)
      BY <1>1, <3>2 DEF SeedRead, TypeOK, Starter
    <3>3. CASE CommitMigrations(p)
      BY <1>1, <3>3 DEF CommitMigrations, TypeOK
    <3> QED
      BY <1>6, <3>1, <3>2, <3>3
  <2> QED
    BY <2>1 DEF Busy, First, Second, Seeding
<1> QED
  BY <1>5, <1>6
     DEF Step, Start, StartWorker, EnsureTable, WaitForCreation, CreationFree,
         CreationTaken, Busy, First, Second, Seeding

(* A deadlock leaves the other starter. *)
LEMMA PartnerIsBusy ==
  ASSUME HoldingInv, NEW p \in Starters, DeadlockVictim(p)
  PROVE  \E q \in Starters \ {p} : Busy(q)
<1>1. PICK q \in Starters \ {p}, t \in Tables : lock[t] = q
  BY DEF DeadlockVictim, Deadlocked
<1>2. Holding(q)
  BY DEF HoldingInv
<1>3. Busy(q)
  BY <1>1, <1>2 DEF Holding, Busy, First, Second, Seeding, Tables
<1> QED
  BY <1>3

LEMMA WorkersRest ==
  ASSUME IInv, ClearInv, NEW q \in Starters, st[q].pc \notin {"down", "failed"},
         4 \notin db.versions
  PROVE  q \in Starters \ Skipping /\ st[q].pc # "up"
BY DEF IInv, WorkInv, ClearInv, Clear, Seeding, Done, Files

LEMMA SomeoneStep ==
  ASSUME IInv, IInv', HoldingInv, ClearInv, ClearInv', ~Install, SomeoneGoesOn,
         NEW p \in Starters, Step(p)
  PROVE  SomeoneGoesOn'
<1> SUFFICES ASSUME kills' = 0, 4 \notin db'.versions
             PROVE  /\ \E q \in Starters \ Skipping : st'[q].pc \notin {"failed", "up"}
                    /\ db'.table /\ (\E r \in Starters : st'[r].pc = "creating") =>
                         \E q \in Starters \ Skipping : Busy(q)'
  BY DEF SomeoneGoesOn
<1>1. 4 \notin db.versions
  BY MarksStay
<1>2. kills = 0
  BY DEF Step, Start, StartWorker, EnsureTable, WaitForCreation, CreationFree,
         CreationTaken, RunMigration, RunRbacMigration, NonePending, SeedRead, SeedWrite,
         SeedCommit, Decide, AddRoleId, LinkMemberships, MarkExecuted, CommitMigrations,
         DeadlockVictim
<1>3. \A q \in Starters \ {p} : st'[q] = st[q]
  BY OthersStay
<1>4. ASSUME NEW q \in Starters, Busy(q)'
      PROVE  /\ \E r \in Starters \ Skipping : st'[r].pc \notin {"failed", "up"}
             /\ \E r \in Starters \ Skipping : Busy(r)'
  <2>1. st'[q].pc \notin {"down", "failed"}
    BY <1>4 DEF Busy, First, Second, Seeding
  <2>2. q \in Starters \ Skipping /\ st'[q].pc # "up"
    BY <2>1 DEF IInv, WorkInv, ClearInv, Clear, Seeding, Done, Files
  <2> QED
    BY <1>4, <2>1, <2>2
<1>5. CASE \E q \in Starters : Busy(q)
  <2>1. CASE DeadlockVictim(p)
    <3>1. PICK q \in Starters \ {p} : Busy(q)
      BY <2>1, PartnerIsBusy
    <3>2. Busy(q)'
      BY <1>3, <3>1 DEF Busy, First, Second, Seeding
    <3> QED
      BY <1>4, <3>2
  <2>2. CASE ~DeadlockVictim(p)
    <3>1. PICK q \in Starters : Busy(q)
      BY <1>5
    <3>2. Busy(q)'
      <4>1. CASE q = p
        BY <1>1, <2>2, <3>1, <4>1, StaysBusy
      <4>2. CASE q # p
        BY <1>3, <3>1, <4>2 DEF Busy, First, Second, Seeding
      <4> QED
        BY <4>1, <4>2
    <3> QED
      BY <1>4, <3>2
  <2> QED
    BY <2>1, <2>2
<1>6. CASE ~\E q \in Starters : Busy(q)
  <2>1. ~(db.table /\ \E r \in Starters : st[r].pc = "creating")
    BY <1>1, <1>2, <1>6 DEF SomeoneGoesOn
  <2>2. Start(p) \/ EnsureTable(p) \/ WaitForCreation(p) \/ CreationFree(p)
    <3>1. ~DeadlockVictim(p)
      BY <1>6, PartnerIsBusy
    <3>2. ~CreationTaken(p)
      BY <2>1 DEF CreationTaken
    <3>3. ~StartWorker(p)
      BY <1>1, WorkersRest DEF StartWorker, EntrypointIsUp
    <3> QED
      BY <1>6, <3>1, <3>2, <3>3
         DEF Step, RunMigration, RunRbacMigration, NonePending, SeedRead, SeedWrite,
             SeedCommit, Decide, AddRoleId, LinkMemberships, MarkExecuted,
             CommitMigrations, Busy, First, Second, Seeding
  <2>3. CASE EnsureTable(p) \/ CreationFree(p)
    <3>1. Goto(p, "run")
      BY <2>3 DEF EnsureTable, CreationFree
    <3>2. Busy(p)'
      BY <3>1, Moved DEF Busy, First
    <3> QED
      BY <1>4, <3>2
  <2>4. CASE Start(p)
    <3>1. st'[p].pc = "ensure" /\ p \notin Skipping /\ db' = db
      BY <2>4 DEF Start, Down, IInv, TypeOK
    <3>2. \A r \in Starters : st'[r].pc = "creating" => st[r].pc = "creating"
      BY <1>3, <3>1
    <3> QED
      BY <2>1, <3>1, <3>2
  <2>5. CASE WaitForCreation(p)
    <3>1. st'[p].pc = "creating" /\ ~db'.table /\ st[p].pc = "ensure"
      BY <2>5, Moved DEF WaitForCreation
    <3>2. p \notin Skipping
      BY <1>1, <3>1, WorkersRest
    <3> QED
      BY <3>1, <3>2
  <2> QED
    BY <2>2, <2>3, <2>4, <2>5
<1> QED
  BY <1>5, <1>6

LEMMA SomeoneStart ==
  ASSUME Init, Starters \ Skipping # {}
  PROVE  SomeoneGoesOn
<1>1. \A p \in Starters : st[p].pc = "down"
  BY DEF Init, Down
<1> QED
  BY <1>1 DEF SomeoneGoesOn

-----------------------------------------------------------------------------
(* Start-up as a whole *)

(* Whoever migrates has been bound to a database on a server that is there. *)
Attached == \A p \in Starters : Migrating(p) => Bound(p)

Grip ==
  /\ IInv /\ HoldingInv /\ Attached
  /\ Creation!TypeOK /\ Creation!ReadyHasDatabase
  /\ outages \in 0..MaxOutages

LEMMA MigrationsStep == ASSUME IInv, [StartUpNext]_startUpVars PROVE IInv'
<1>1. ASSUME NEW p \in Starters, Advance(p) PROVE IInv'
  BY <1>1, StepKeeps, SameKeeps DEF Advance, Create, BindFails, Migrate
<1>2. ASSUME NEW p \in Starters, Die(p) PROVE IInv'
  BY <1>2, KillKeeps DEF Die
<1>3. ASSUME ServerStops PROVE IInv'
  <2>1. {p \in Starters : Migrating(p)} \in SUBSET Starters
    OBVIOUS
  <2> QED
    BY <1>3, <2>1, KillKeeps, SameKeeps DEF ServerStops
<1>4. ASSUME ServerStarts \/ UNCHANGED startUpVars PROVE IInv'
  BY <1>4, SameKeeps DEF ServerStarts, startUpVars
<1> QED
  BY <1>1, <1>2, <1>3, <1>4 DEF StartUpNext

LEMMA HoldingAtStart == ASSUME IInv, HoldingInv, [StartUpNext]_startUpVars PROVE HoldingInv'
<1>1. ASSUME NEW p \in Starters, Advance(p) PROVE HoldingInv'
  BY <1>1, HoldingStep, HoldingSame DEF Advance, Create, BindFails, Migrate
<1>2. ASSUME NEW p \in Starters, Die(p) PROVE HoldingInv'
  BY <1>2, HoldingKilled DEF Die
<1>3. ASSUME ServerStops PROVE HoldingInv'
  <2>1. {p \in Starters : Migrating(p)} \in SUBSET Starters
    OBVIOUS
  <2> QED
    BY <1>3, <2>1, HoldingKilled, HoldingSame DEF ServerStops
<1>4. ASSUME ServerStarts \/ UNCHANGED startUpVars PROVE HoldingInv'
  BY <1>4, HoldingSame DEF ServerStarts, startUpVars
<1> QED
  BY <1>1, <1>2, <1>3, <1>4 DEF StartUpNext

LEMMA AttachedStep ==
  ASSUME IInv, Creation!TypeOK, Attached, [StartUpNext]_startUpVars
  PROVE  Attached'
<1>1. TypeOK /\ DOMAIN creation = Starters
  BY DEF IInv, Creation!TypeOK
<1>2. ASSUME NEW p \in Starters, Migrate(p) PROVE Attached'
  <2>1. /\ \A q \in Starters \ {p} : st'[q] = st[q] /\ creation'[q] = creation[q]
        /\ creation[p].pc = "ready" /\ server /\ server' = server
        /\ st'[p].pc # "failed" => creation'[p] = creation[p]
    BY <1>2, OthersStay DEF Migrate, Bound, OnServer, BeginAgain
  <2> QED
    BY <2>1 DEF Attached, Bound, Migrating
<1>3. ASSUME NEW p \in Starters, Create(p) \/ BindFails(p) PROVE Attached'
  <2>1. ~Migrating(p) /\ UNCHANGED st /\ \A q \in Starters \ {p} : creation'[q] = creation[q]
    <3>1. CASE Create(p)
      <4>1. Creation!Step(p) /\ UNCHANGED st
        BY <3>1 DEF Create, vars
      <4>2. creation[p].pc # "ready" /\ \A q \in Starters \ {p} : creation'[q] = creation[q]
        BY <1>1, <4>1
           DEF Creation!Step, Creation!Probe, Creation!Connect, Creation!Refused,
               Creation!Ask, Creation!Create, Creation!Restart, Creation!Goto
      <4> QED
        BY <4>1, <4>2 DEF Attached, Bound
    <3>2. CASE BindFails(p)
      BY <3>2 DEF BindFails, BeginAgain, vars, Migrating
    <3> QED
      BY <1>3, <3>1, <3>2
  <2>2. UNCHANGED server
    BY <1>3 DEF Create, BindFails, Creation!Step, Creation!Probe, Creation!Connect,
                Creation!Refused, Creation!Ask, Creation!Create, Creation!Restart
  <2> QED
    BY <2>1, <2>2 DEF Attached, Bound, Migrating
<1>4. ASSUME NEW dead \in SUBSET Starters, NEW ended, Kill(dead), BeginAgain(ended),
             dead \subseteq ended, ended \subseteq dead \cup {p \in Starters : ~Migrating(p)},
             \A p \in Starters \ dead : Migrating(p) => server'
      PROVE  Attached'
  <2>1. [Down EXCEPT !.pc = "failed"].pc = "failed"
    BY DEF Down
  <2>2. \A p \in Starters : /\ p \in dead => st'[p].pc = "failed"
                            /\ p \notin dead => st'[p] = st[p]
                            /\ p \notin ended => creation'[p] = creation[p]
    BY <1>4, <2>1 DEF Kill, BeginAgain
  <2> QED
    BY <1>4, <2>2 DEF Attached, Bound, Migrating
<1>5. ASSUME NEW p \in Starters, Die(p) PROVE Attached'
  <2>1. \A q \in Starters \ {p} : Migrating(q) => server'
    BY <1>5 DEF Die, Attached, Bound
  <2> QED
    BY <1>4, <1>5, <2>1 DEF Die
<1>6. ASSUME ServerStops PROVE Attached'
  <2> DEFINE migrating == {p \in Starters : Migrating(p)}
             ended == migrating \cup {p \in Starters : creation[p].pc \in {"ask", "create"}}
  <2>1. BeginAgain(ended) /\ ended \subseteq migrating \cup {p \in Starters : ~Migrating(p)}
    BY <1>6 DEF ServerStops
  <2>2. CASE migrating = {}
    <3>1. UNCHANGED st
      BY <1>6, <2>2 DEF ServerStops, vars
    <3> QED
      BY <2>2, <3>1 DEF Attached, Migrating
  <2>3. CASE migrating # {}
    <3>1. Kill(migrating) /\ migrating \in SUBSET Starters /\ migrating \subseteq ended
      BY <1>6, <2>3 DEF ServerStops
    <3>2. \A p \in Starters \ migrating : ~Migrating(p)
      OBVIOUS
    <3> HIDE DEF migrating, ended
    <3> QED
      BY <1>4, <2>1, <3>1, <3>2
  <2> QED
    BY <2>2, <2>3
<1>7. ASSUME ServerStarts \/ UNCHANGED startUpVars PROVE Attached'
  BY <1>7 DEF ServerStarts, startUpVars, vars, Attached, Bound, Migrating
<1> QED
  BY <1>2, <1>3, <1>5, <1>6, <1>7 DEF StartUpNext, Advance

LEMMA OriginFixed == ASSUME [StartUpNext]_startUpVars PROVE UNCHANGED origin
<1>1. ASSUME NEW p \in Starters, Step(p) PROVE UNCHANGED origin
  BY <1>1
     DEF Step, Start, StartWorker, EnsureTable, WaitForCreation, CreationFree,
         CreationTaken, RunMigration, RunRbacMigration, NonePending, SeedRead, SeedWrite,
         SeedCommit, Decide, AddRoleId, LinkMemberships, MarkExecuted, CommitMigrations,
         DeadlockVictim
<1>2. ASSUME NEW dead, Kill(dead) PROVE UNCHANGED origin
  BY <1>2 DEF Kill
<1> QED
  BY <1>1, <1>2 DEF StartUpNext, Advance, Create, BindFails, Migrate, Die, ServerStops,
                    ServerStarts, startUpVars, vars

LEMMA RowsAtStart ==
  ASSUME IInv, IInv', RowsInv \/ NoLegacy, [StartUpNext]_startUpVars
  PROVE  RowsInv' \/ NoLegacy'
<1>1. CASE NoLegacy
  BY <1>1, OriginFixed DEF NoLegacy
<1>2. CASE RowsInv
  <2>1. ASSUME NEW p \in Starters, Advance(p) PROVE RowsInv'
    BY <1>2, <2>1, RowsStep, SameAgain DEF Advance, Create, BindFails, Migrate
  <2>2. ASSUME NEW p \in Starters, Die(p) PROVE RowsInv'
    BY <1>2, <2>2, KillRows DEF Die
  <2>3. ASSUME ServerStops PROVE RowsInv'
    <3>1. {p \in Starters : Migrating(p)} \in SUBSET Starters
      OBVIOUS
    <3> QED
      BY <1>2, <2>3, <3>1, KillRows, SameAgain DEF ServerStops
  <2>4. ASSUME ServerStarts \/ UNCHANGED startUpVars PROVE RowsInv'
    BY <1>2, <2>4, SameAgain DEF ServerStarts, startUpVars
  <2> QED
    BY <2>1, <2>2, <2>3, <2>4 DEF StartUpNext
<1> QED
  BY <1>1, <1>2

(* Somebody's failure takes a starter back to the creation of the database. *)
LEMMA Again ==
  ASSUME Creation!TypeOK, Creation!ReadyHasDatabase, NEW dead, BeginAgain(dead),
         server' \in BOOLEAN, UNCHANGED exists
  PROVE  Creation!TypeOK' /\ Creation!ReadyHasDatabase'
BY DEF BeginAgain, Creation!TypeOK, Creation!ReadyHasDatabase, Creation!Starter

LEMMA CreationStep ==
  ASSUME Creation!TypeOK, Creation!ReadyHasDatabase, NEW p \in Starters, Creation!Step(p)
  PROVE  Creation!TypeOK' /\ Creation!ReadyHasDatabase'
<1> USE DEF Creation!TypeOK, Creation!ReadyHasDatabase, Creation!Starter, Creation!Goto
<1>1. CASE Creation!Probe(p)
  BY <1>1 DEF Creation!Probe
<1>2. CASE Creation!Connect(p)
  BY <1>2 DEF Creation!Connect
<1>3. CASE Creation!Refused(p)
  <2>1. creation[p].attempt # Retries => creation[p].attempt + 1 \in 1..Retries
    BY StartUpAssumption
  <2> QED
    BY <1>3, <2>1 DEF Creation!Refused
<1>4. CASE Creation!Ask(p)
  BY <1>4 DEF Creation!Ask
<1>5. CASE Creation!Create(p)
  BY <1>5 DEF Creation!Create
<1>6. CASE Creation!Restart(p)
  BY <1>6, StartUpAssumption DEF Creation!Restart, Creation!Begun
<1> QED
  BY <1>1, <1>2, <1>3, <1>4, <1>5, <1>6 DEF Creation!Step

LEMMA GripStarts == StartUpInit => Grip
<1> SUFFICES ASSUME StartUpInit PROVE Grip
  OBVIOUS
<1>1. Creation!TypeOK /\ Creation!ReadyHasDatabase
  BY StartUpAssumption
     DEF StartUpInit, Creation!Init, Creation!Begun, Creation!TypeOK,
         Creation!Starter, Creation!ReadyHasDatabase
<1>2. Attached
  BY DEF StartUpInit, Init, Down, Attached, Migrating
<1> QED
  BY <1>1, <1>2, Starting, HoldingStart, StartUpAssumption DEF StartUpInit, Grip

LEMMA GripKeeps == Grip /\ [StartUpNext]_startUpVars => Grip'
<1> SUFFICES ASSUME Grip, [StartUpNext]_startUpVars PROVE Grip'
  OBVIOUS
<1>1. IInv' /\ HoldingInv' /\ Attached'
  BY MigrationsStep, HoldingAtStart, AttachedStep DEF Grip
<1> USE DEF Grip
<1>2. ASSUME NEW p \in Starters, Create(p) PROVE Grip'
  BY <1>1, <1>2, CreationStep DEF Create
<1>3. ASSUME NEW p \in Starters, BindFails(p) \/ Migrate(p) \/ Die(p) PROVE Grip'
  <2>1. /\ \E dead : BeginAgain(dead)
        /\ UNCHANGED <<server, exists, outages>>
    BY <1>3 DEF BindFails, Migrate, OnServer, Die
  <2>2. server' \in BOOLEAN
    BY <2>1 DEF Creation!TypeOK
  <2> QED
    BY <1>1, <2>1, <2>2, Again
<1>4. ASSUME ServerStops PROVE Grip'
  <2>1. /\ \E dead : BeginAgain(dead)
        /\ server' = FALSE /\ outages < MaxOutages /\ outages' = outages + 1
        /\ UNCHANGED exists
    BY <1>4 DEF ServerStops
  <2>2. Creation!TypeOK' /\ Creation!ReadyHasDatabase'
    BY <2>1, Again
  <2> QED
    BY <1>1, <2>1, <2>2, StartUpAssumption
<1>5. ASSUME ServerStarts \/ UNCHANGED startUpVars PROVE Grip'
  BY <1>1, <1>5
     DEF ServerStarts, startUpVars, vars, Creation!TypeOK, Creation!ReadyHasDatabase
<1> QED
  BY <1>2, <1>3, <1>4, <1>5 DEF StartUpNext, Advance

LEMMA GripAlways == StartUpSpec => []Grip
BY GripStarts, GripKeeps, PTL DEF StartUpSpec

(* The types of the whole start-up. *)
THEOREM TypeCorrect == StartUpSpec => []StartUpTypeOK
<1>1. Grip => StartUpTypeOK
  BY DEF Grip, IInv, StartUpTypeOK
<1> QED
  BY <1>1, GripAlways, PTL

(* What database_version says has been executed has been, for any number of   *)
(* starters, workers, deaths and outages, with and without INSTALL_MODE.      *)
THEOREM MarkedIsDone == StartUpSpec => []MarksAreTrue
<1>1. Grip => MarksAreTrue
  BY DEF Grip, IInv, Marks, Done, MarksAreTrue, Migrated
<1> QED
  BY <1>1, GripAlways, PTL

(* A process that is up, a Gunicorn worker that skipped the migrations        *)
(* included, has a migrated database under it, for good.                      *)
THEOREM UpIsMigrated == StartUpSpec => []UpMeansMigrated
<1>1. Grip => UpMeansMigrated
  BY DEF Grip, IInv, WorkInv, Done, UpMeansMigrated, Migrated
<1> QED
  BY <1>1, GripAlways, PTL

(* However creations race and the server comes and goes, who goes on to bind  *)
(* the database has one.                                                      *)
THEOREM ReadyIsCreated == StartUpSpec => []ReadyHasDatabase
<1>1. Grip => ReadyHasDatabase
  BY DEF Grip, ReadyHasDatabase
<1> QED
  BY <1>1, GripAlways, PTL

(* No crash, rerun or race loses the business or the role of a legacy user.   *)
THEOREM BusinessesSurvive == StartUpSpec => []MembershipsSurvive
<1> DEFINE RowsKept == RowsInv \/ NoLegacy
<1>1. StartUpInit => RowsKept
  BY RowsStart DEF StartUpInit
<1>2. Grip /\ Grip' /\ RowsKept /\ [StartUpNext]_startUpVars => RowsKept'
  BY RowsAtStart DEF Grip
<1>3. RowsKept => MembershipsSurvive
  BY DEF RowsInv, NoLegacy, Kept, MembershipsSurvive
<1> HIDE DEF RowsKept
<1> QED
  BY <1>1, <1>2, <1>3, GripAlways, PTL DEF StartUpSpec


LEMMA ClearAtStart ==
  ASSUME Grip, Grip', ClearInv, ~Install, [StartUpNext]_startUpVars
  PROVE  ClearInv'
<1>1. IInv /\ IInv'
  BY DEF Grip
<1>2. ASSUME NEW p \in Starters, Advance(p) PROVE ClearInv'
  BY <1>1, <1>2, ClearStep, ClearSame DEF Advance, Create, BindFails, Migrate
<1>3. ASSUME NEW p \in Starters, Die(p) PROVE ClearInv'
  BY <1>1, <1>3, ClearKilled DEF Die
<1>4. ASSUME ServerStops PROVE ClearInv'
  <2>1. {p \in Starters : Migrating(p)} \in SUBSET Starters
    OBVIOUS
  <2> QED
    BY <1>1, <1>4, <2>1, ClearKilled, ClearSame DEF ServerStops
<1>5. ASSUME ServerStarts \/ UNCHANGED startUpVars PROVE ClearInv'
  BY <1>5, ClearSame DEF ServerStarts, startUpVars
<1> QED
  BY <1>2, <1>3, <1>4, <1>5 DEF StartUpNext

LEMMA SomeoneAtStart ==
  ASSUME Grip, Grip', ClearInv, ClearInv', SomeoneGoesOn, ~Install,
         [StartUpNext]_startUpVars
  PROVE  SomeoneGoesOn'
<1>1. IInv /\ IInv' /\ HoldingInv
  BY DEF Grip
<1>2. ASSUME UNCHANGED vars PROVE SomeoneGoesOn'
  BY <1>2 DEF vars, SomeoneGoesOn, Busy, First, Second, Seeding
<1>3. ASSUME NEW dead, Kill(dead) PROVE SomeoneGoesOn'
  BY <1>1, <1>3 DEF Kill, IInv, TypeOK, SomeoneGoesOn
<1>4. ASSUME NEW p \in Starters, Advance(p) PROVE SomeoneGoesOn'
  BY <1>1, <1>2, <1>4, SomeoneStep DEF Advance, Create, BindFails, Migrate
<1>5. ASSUME NEW p \in Starters, Die(p) PROVE SomeoneGoesOn'
  BY <1>3, <1>5 DEF Die
<1>6. ASSUME ServerStops \/ ServerStarts \/ UNCHANGED startUpVars PROVE SomeoneGoesOn'
  BY <1>2, <1>3, <1>6 DEF ServerStops, ServerStarts, startUpVars
<1> QED
  BY <1>4, <1>5, <1>6 DEF StartUpNext

(* Without INSTALL_MODE the starters do not all give up over one another: if  *)
(* some starter migrates and none is killed, some starter has migrated the    *)
(* database by the time all of them have ended, whatever races of creations,  *)
(* duplicate keys and deadlocks the others have lost.                         *)
THEOREM StartersSucceed ==
  ~Install /\ Starters \ Skipping # {} => (StartUpSpec => []SomeStarterSucceeds)
<1> SUFFICES ASSUME ~Install, Starters \ Skipping # {}
             PROVE  StartUpSpec => []SomeStarterSucceeds
  OBVIOUS
<1> DEFINE Inv == ClearInv /\ SomeoneGoesOn
<1>1. StartUpInit => Inv
  BY ClearStart, SomeoneStart DEF StartUpInit
<1>2. Grip /\ Grip' /\ Inv /\ [StartUpNext]_startUpVars => Inv'
  BY ClearAtStart, SomeoneAtStart
<1>3. Grip /\ Inv => SomeStarterSucceeds
  BY DEF Grip, IInv, Marks, Done, SomeoneGoesOn, SomeStarterSucceeds, Migrated
<1> HIDE DEF Inv
<1> QED
  BY <1>1, <1>2, <1>3, GripAlways, PTL DEF StartUpSpec

(* For any number of starters, kills and outages, and with INSTALL_MODE as    *)
(* well: somebody who migrates is held up by no lock, or is half of a circle  *)
(* of two, so that aborting one of two is all PostgreSQL has to do.           *)
THEOREM NobodyIsStuck == StartUpSpec => []SomeoneCanMove
<1>1. Grip => SomeoneCanMove
  BY SomeoneMoves DEF Grip, Attached, SomeoneCanMove, Waiting
<1> QED
  BY <1>1, GripAlways, PTL

-----------------------------------------------------------------------------
(* The refinement of DatabaseVersions, without INSTALL_MODE *)

UpNow == {p \in Starters : st[p].pc = "up"}

(* Who comes up finds all the migrations executed, and nobody goes down. *)
LEMMA UpStep ==
  ASSUME IInv, NEW p \in Starters, Step(p)
  PROVE  \/ UpNow' = UpNow
         \/ /\ UpNow' = UpNow \cup {p}
            /\ db.versions = Files /\ db'.versions = Files
<1>1. TypeOK /\ WorkInv(p) /\ st[p].pc # "up" /\ \A q \in Starters \ {p} : st'[q] = st[q]
  BY OthersStay
     DEF IInv, Step, Start, StartWorker, EnsureTable, WaitForCreation, CreationFree,
         CreationTaken, RunMigration, RunRbacMigration, NonePending, SeedRead, SeedWrite,
         SeedCommit, Decide, AddRoleId, LinkMemberships, MarkExecuted, CommitMigrations,
         DeadlockVictim, Deadlocked, Wants
<1>2. CASE SeedCommit(p) /\ st[p].last
  <2>1. st'[p].pc = "up"
    BY <1>1, <1>2, Moved DEF SeedCommit
  <2>2. DOMAIN work[p] \subseteq {"rbac"} /\ Done(db) /\ db' = Visible(p)
    BY <1>1, <1>2 DEF SeedCommit, CommitWork, WorkInv, Wrote, First, Seeding
  <2>3. db'.versions = db.versions
    BY <1>1, <2>2, VisibleNow DEF Fields
  <2> QED
    BY <1>1, <2>1, <2>2, <2>3 DEF UpNow, Done
<1>3. CASE ~(SeedCommit(p) /\ st[p].last)
  <2>1. ~MembershipRoleUsesFk(Visible(p))
    BY DEF MembershipRoleUsesFk, ColumnDataType
  <2>2. \/ Start(p) \/ StartWorker(p) \/ Fail(p) \/ SeedRead(p) \/ CommitMigrations(p)
        \/ \E n \in Files : RunMigration(p, n)
        \/ \E pc \in {"creating", "run", "seed", "seeded", "decide", "alter", "link",
                      "mark", "commit"} : Goto(p, pc)
    BY <1>3, <2>1
       DEF Step, EnsureTable, WaitForCreation, CreationFree, CreationTaken,
           RunRbacMigration, NonePending, SeedWrite, SeedCommit, Decide, AddRoleId,
           LinkMemberships, MarkExecuted, DeadlockVictim
  <2>3. CASE Start(p) \/ StartWorker(p) \/ Fail(p) \/ SeedRead(p) \/ CommitMigrations(p)
    <3>1. ASSUME Start(p) PROVE st'[p].pc # "up"
      <4>1. [Down EXCEPT !.pc = "ensure"].pc = "ensure"
        BY DEF Down
      <4> QED
        BY <3>1, <1>1, <4>1 DEF Start, TypeOK
    <3>2. ASSUME StartWorker(p) PROVE st'[p].pc # "up"
      <4>1. [Down EXCEPT !.pc = "seed", !.last = TRUE].pc = "seed"
        BY DEF Down
      <4> QED
        BY <3>2, <1>1, <4>1 DEF StartWorker, TypeOK
    <3>3. ASSUME Fail(p) PROVE st'[p].pc # "up"
      <4>1. [Down EXCEPT !.pc = "failed"].pc = "failed"
        BY DEF Down
      <4> QED
        BY <3>3, <1>1, <4>1 DEF Fail, TypeOK
    <3>4. ASSUME SeedRead(p) PROVE st'[p].pc # "up"
      BY <3>4, <1>1 DEF SeedRead, TypeOK, Starter
    <3>5. ASSUME CommitMigrations(p) PROVE st'[p].pc # "up"
      BY <3>5, <1>1 DEF CommitMigrations, TypeOK, Starter
    <3>6. st'[p].pc # "up"
      BY <2>3, <3>1, <3>2, <3>3, <3>4, <3>5
    <3> QED
      BY <1>1, <3>6 DEF UpNow
  <2>4. CASE \E n \in Files : RunMigration(p, n)
    <3>1. UNCHANGED st
      BY <2>4 DEF RunMigration
    <3> QED
      BY <3>1 DEF UpNow
  <2>5. CASE \E pc \in {"creating", "run", "seed", "seeded", "decide", "alter", "link",
                        "mark", "commit"} : Goto(p, pc)
    BY <1>1, <2>5, Moved DEF UpNow
  <2> QED
    BY <2>2, <2>3, <2>4, <2>5
<1> QED
  BY <1>2, <1>3

LEMMA MarksAndUp ==
  ASSUME IInv, ~Install, [StartUpNext]_startUpVars
  PROVE  /\ db.versions \subseteq db'.versions
         /\ \/ UpNow' = UpNow
            \/ /\ \E p \in Starters : UpNow' = UpNow \cup {p}
               /\ db.versions = Files /\ db'.versions = Files
<1>1. ASSUME NEW p \in Starters, Migrate(p)
      PROVE  /\ db.versions \subseteq db'.versions
             /\ \/ UpNow' = UpNow
                \/ /\ UpNow' = UpNow \cup {p}
                   /\ db.versions = Files /\ db'.versions = Files
  BY <1>1, MarksStay, UpStep DEF Migrate
<1>2. ASSUME UNCHANGED vars PROVE db' = db /\ UpNow' = UpNow
  BY <1>2 DEF vars, UpNow
<1>3. ASSUME NEW dead \in SUBSET Starters, Kill(dead) PROVE db' = db /\ UpNow' = UpNow
  <2>1. [Down EXCEPT !.pc = "failed"].pc = "failed"
    BY DEF Down
  <2> QED
    BY <1>3, <2>1 DEF Kill, Migrating, UpNow
<1>4. ASSUME ServerStops PROVE db' = db /\ UpNow' = UpNow
  <2>1. {p \in Starters : Migrating(p)} \in SUBSET Starters
    OBVIOUS
  <2> QED
    BY <1>2, <1>3, <1>4, <2>1 DEF ServerStops
<1> QED
  BY <1>1, <1>2, <1>3, <1>4
     DEF StartUpNext, Advance, Create, BindFails, Die, ServerStarts, startUpVars

(* The marks are those of the migrations up to one of them. *)
LEMMA MarksInOrder ==
  ASSUME NEW v \in Database, Marks(v)
  PROVE  v.versions \in {1..n : n \in 0..4}
<1>1. v.versions \subseteq 1..4 /\ \A n \in v.versions : 1..n \subseteq v.versions
  BY DatabaseTypes DEF Marks, Files
<1>2. CASE 4 \in v.versions
  BY <1>1, <1>2
<1>3. CASE 4 \notin v.versions /\ 3 \in v.versions
  <2>1. v.versions = 1..3
    BY <1>1, <1>3
  <2> QED
    BY <2>1
<1>4. CASE 4 \notin v.versions /\ 3 \notin v.versions /\ 2 \in v.versions
  <2>1. v.versions = 1..2
    BY <1>1, <1>4
  <2> QED
    BY <2>1
<1>5. CASE 4 \notin v.versions /\ 3 \notin v.versions /\ 2 \notin v.versions /\ 1 \in v.versions
  <2>1. v.versions = 1..1
    BY <1>1, <1>5
  <2> QED
    BY <2>1
<1>6. CASE 4 \notin v.versions /\ 3 \notin v.versions /\ 2 \notin v.versions /\ 1 \notin v.versions
  <2>1. v.versions = 1..0
    BY <1>1, <1>6
  <2> QED
    BY <2>1
<1> QED
  BY <1>2, <1>3, <1>4, <1>5, <1>6

LEMMA MarkedLayout ==
  ASSUME IInv, ClearInv
  PROVE  db.roleCol = Versions!Layout(db.versions)
<1>1. db.roleCol \in {"none", "text", "fk"} /\ Laid(db)
  BY DatabaseTypes DEF IInv, TypeOK, ClearInv
<1> QED
  BY <1>1 DEF Laid, Versions!Layout

(* RoleOrOwner and LinkedRole change no role that they have changed. *)
LEMMA RenamedOnce ==
  ASSUME NEW role
  PROVE  /\ LinkedRole(RoleOrOwner(RoleOrOwner(role))) = LinkedRole(RoleOrOwner(role))
         /\ LinkedRole(RoleOrOwner(LinkedRole(RoleOrOwner(role)))) =
              LinkedRole(RoleOrOwner(role))
BY DEF LinkedRole, RoleOrOwner

LEMMA RoleKept ==
  ASSUME RowsInv \/ NoLegacy, NEW u \in Users
  PROVE  LegacyRole(u) = IF origin[u] = None THEN None ELSE LinkedRole(RoleOrOwner(origin[u]))
BY RenamedOnce DEF RowsInv, NoLegacy, Kept, LegacyRole

LEMMA VersionsStart ==
  ASSUME StartUpInit, ~Install, RowsInv \/ NoLegacy
  PROVE  Versions!Init
<1>1. IInv /\ ClearInv
  BY Starting, ClearStart DEF StartUpInit
<1>2. db.versions \in {1..n : n \in 0..3}
  <2>1. CASE db = Blank
    <3>1. db.versions = 1..0
      BY <2>1 DEF Blank
    <3> QED
      BY <3>1
  <2>2. CASE db \in Inherited(origin)
    <3>1. db.versions = {1} \/ db.versions = {1, 2} \/ db.versions = {1, 2, 3}
      BY <2>2 DEF Inherited, Blank
    <3>2. {1} = 1..1 /\ {1, 2} = 1..2 /\ {1, 2, 3} = 1..3
      OBVIOUS
    <3> QED
      BY <3>1, <3>2
  <2> QED
    BY <2>1, <2>2 DEF StartUpInit, Init
<1>3. [u \in Users |-> LegacyRole(u)] \in [Users -> RoleKeys \cup {None}]
  <2>1. ASSUME NEW u \in Users PROVE LegacyRole(u) \in RoleKeys \cup {None}
    <3>1. origin[u] \in RoleKeys \cup {"user", "unset", None}
      BY LegacyAssumption DEF StartUpInit, Init
    <3> QED
      BY <3>1, RoleKept DEF LinkedRole, RoleOrOwner, RoleKeys
  <2> QED
    BY <2>1
<1>4. {p \in Starters : st[p].pc = "up"} = {}
  BY DEF StartUpInit, Init, Down
<1> QED
  BY <1>1, <1>2, <1>3, <1>4, MarkedLayout DEF Versions!Init

LEMMA VersionsStep ==
  ASSUME Grip, Grip', ClearInv, ClearInv', RowsInv \/ NoLegacy, RowsInv' \/ NoLegacy',
         ~Install, [StartUpNext]_startUpVars
  PROVE  [Versions!Next]_(Versions!vars)
<1>1. db.versions \in {1..n : n \in 0..4} /\ db'.versions \in {1..n : n \in 0..4}
  BY MarksInOrder DEF Grip, IInv, TypeOK
<1>2. /\ db.roleCol = Versions!Layout(db.versions)
      /\ db'.roleCol = Versions!Layout(db'.versions)
  <2>1. /\ db.roleCol \in {"none", "text", "fk"} /\ Laid(db)
        /\ db'.roleCol \in {"none", "text", "fk"} /\ Laid(db')
    BY DatabaseTypes DEF Grip, IInv, TypeOK, ClearInv
  <2> QED
    BY <2>1 DEF Laid, Versions!Layout
<1>3. [u \in Users |-> LegacyRole(u)]' = [u \in Users |-> LegacyRole(u)]
  <2>1. ASSUME NEW u \in Users PROVE LegacyRole(u)' = LegacyRole(u)
    <3>1. LegacyRole(u) =
            IF origin[u] = None THEN None ELSE LinkedRole(RoleOrOwner(origin[u]))
      BY RoleKept
    <3>2. LegacyRole(u)' =
            IF origin'[u] = None THEN None ELSE LinkedRole(RoleOrOwner(origin'[u]))
      BY RenamedOnce DEF RowsInv, NoLegacy, Kept, LegacyRole
    <3> QED
      BY <3>1, <3>2, OriginFixed
  <2> QED
    BY <2>1
<1>4. /\ db.versions \subseteq db'.versions
      /\ \/ UpNow' = UpNow
         \/ /\ \E p \in Starters : UpNow' = UpNow \cup {p}
            /\ db.versions = Files /\ db'.versions = Files
  BY MarksAndUp DEF Grip
<1>5. CASE UpNow' = UpNow /\ db'.versions = db.versions
  BY <1>2, <1>3, <1>5 DEF Versions!vars, UpNow
<1>6. CASE UpNow' = UpNow /\ db'.versions # db.versions
  <2>1. db'.versions # {}
    BY <1>4, <1>6
  <2>2. 1..0 = {}
    OBVIOUS
  <2>3. db'.versions \in {1..n : n \in 1..4}
    BY <1>1, <2>1, <2>2
  <2> QED
    BY <1>2, <1>3, <1>4, <1>6, <2>3 DEF Versions!Next, Versions!Execute, UpNow
<1>7. CASE /\ \E p \in Starters : UpNow' = UpNow \cup {p}
           /\ db.versions = Files /\ db'.versions = Files
  BY <1>2, <1>3, <1>7 DEF Versions!Next, Versions!ComeUp, UpNow, Files
<1> QED
  BY <1>4, <1>5, <1>6, <1>7

(* Without INSTALL_MODE, StartUp implements DatabaseVersions: for any number  *)
(* of starters, kills and outages the migrations happen in order, each at     *)
(* once with its mark, and a rerun finds undone what is not marked.           *)
THEOREM VersionsImplemented == ~Install => (StartUpSpec => ImplementsVersions)
<1> SUFFICES ASSUME ~Install PROVE StartUpSpec => ImplementsVersions
  OBVIOUS
<1> DEFINE Rows == RowsInv \/ NoLegacy
<1>1. StartUpInit => Rows /\ ClearInv
  BY RowsStart, ClearStart DEF StartUpInit
<1>2. Grip /\ Grip' /\ Rows /\ [StartUpNext]_startUpVars => Rows'
  BY RowsAtStart DEF Grip
<1>3. Grip /\ Grip' /\ ClearInv /\ [StartUpNext]_startUpVars => ClearInv'
  BY ClearAtStart
<1>4. StartUpInit /\ Rows => Versions!Init
  BY VersionsStart
<1>5. Grip /\ Grip' /\ ClearInv /\ ClearInv' /\ Rows /\ Rows' /\ [StartUpNext]_startUpVars
        => [Versions!Next]_(Versions!vars)
  BY VersionsStep
<1> HIDE DEF Rows
<1> QED
  BY <1>1, <1>2, <1>3, <1>4, <1>5, GripAlways, PTL
     DEF StartUpSpec, ImplementsVersions, Versions!Spec

=============================================================================
