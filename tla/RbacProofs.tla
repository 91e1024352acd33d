----------------------------- MODULE RbacProofs -----------------------------
(* For any processes, roles, permissions and releases: the links are always    *)
(* the whole table of one release, and what a process caches for a role was    *)
(* granted by a release that was there to be read.                            *)
EXTENDS Rbac, TLAPS

(* The links as p's transaction sees them. *)
Draft(p) == (links \ proc[p].deleted) \cup proc[p].inserted

(* The lock keeps the links as they are while a process seeds: of the roles it *)
(* has done, its transaction sees what it wants, of the others it has changed  *)
(* nothing.                                                                   *)
Seeding(p) ==
  proc[p].pc = "seeding" =>
    /\ holder = p
    /\ \A role \in proc[p].todo :
         LinksOf(role, proc[p].inserted) = {} /\ LinksOf(role, proc[p].deleted) = {}
    /\ \A role \in Roles \ proc[p].todo :
         LinksOf(role, Draft(p)) = LinksOf(role, Grants[proc[p].release])

Caching(p) ==
  proc[p].pc = "up" =>
    /\ \A role \in proc[p].todo : LinksOf(role, proc[p].cached) = {}
    /\ \A role \in Roles \ proc[p].todo :
         \E v \in proc[p].seen : LinksOf(role, proc[p].cached) = LinksOf(role, Grants[v])
    /\ proc[p].todo # {} => \E v \in proc[p].seen : links = Grants[v]

IInv ==
  /\ RbacTypeOK
  /\ \E v \in Releases : links = Grants[v]
  /\ \A p \in Processes : Seeding(p) /\ Caching(p)

LEMMA BegunType ==
  ASSUME NEW pc \in {"down", "starting", "seeding", "up"}, NEW v \in Releases,
         NEW todo \in SUBSET Roles
  PROVE  Begun(pc, v, todo) \in Process
BY DEF Begun, Process

LEMMA BegunOK ==
  ASSUME NEW p \in Processes, NEW pc, NEW v, NEW todo,
         proc[p] = Begun(pc, v, todo), pc \in {"down", "starting"}
  PROVE  Seeding(p) /\ Caching(p)
BY DEF Begun, Seeding, Caching

LEMMA Begin == RbacInit => IInv
<1> SUFFICES ASSUME RbacInit PROVE IInv
  OBVIOUS
<1>1. \A p \in Processes : \E v \in Releases : proc[p] = Begun("down", v, {})
  BY DEF RbacInit
<1>2. proc \in [Processes -> Process]
  BY BegunType DEF RbacInit
<1>3. RbacTypeOK
  BY <1>2, RbacAssumption DEF RbacInit, RbacTypeOK, Link
<1>4. \A p \in Processes : Seeding(p) /\ Caching(p)
  BY <1>1, BegunOK
<1> QED
  BY <1>3, <1>4 DEF RbacInit, IInv

(* Steps that neither commit nor move the lock disturb one process only. *)
LEMMA Local ==
  ASSUME IInv, NEW p \in Processes, NEW q \in Process,
         proc' = [proc EXCEPT ![p] = q], links' = links,
         \/ holder' = holder /\ (holder = p => q.pc = "seeding")
         \/ holder = p /\ holder' = Nobody
         \/ holder = Nobody /\ holder' = p /\ q.pc = "seeding",
         Seeding(p)', Caching(p)'
  PROVE  IInv'
<1>1. RbacTypeOK'
  BY RbacAssumption DEF IInv, RbacTypeOK
<1>2. ASSUME NEW s \in Processes PROVE Seeding(s)' /\ Caching(s)'
  <2>1. CASE s = p
    BY <2>1
  <2>2. CASE s # p
    <3>1. proc'[s] = proc[s]
      BY <2>2 DEF IInv, RbacTypeOK
    <3>2. Seeding(s) /\ Caching(s)
      BY DEF IInv
    <3>3. proc[s].pc = "seeding" => holder' = s
      BY <2>2, <3>2, RbacAssumption DEF Seeding
    <3>4. Draft(s)' = Draft(s)
      BY <3>1 DEF Draft
    <3>5. Seeding(s)'
      BY <3>1, <3>2, <3>3, <3>4 DEF Seeding
    <3>6. Caching(s)'
      BY <3>1, <3>2 DEF Caching
    <3> QED
      BY <3>5, <3>6
  <2> QED
    BY <2>1, <2>2
<1> QED
  BY <1>1, <1>2 DEF IInv

LEMMA StartKeeps ==
  ASSUME IInv, NEW p \in Processes, NEW v \in Releases, Start(p, v)
  PROVE  IInv'
<1>1. holder # p
  BY RbacAssumption DEF IInv, RbacTypeOK, Start
<1>2. proc'[p] = Begun("starting", v, {})
  BY DEF IInv, RbacTypeOK, Start
<1>3. Seeding(p)' /\ Caching(p)'
  BY <1>2 DEF Begun, Seeding, Caching
<1>4. Begun("starting", v, {}) \in Process
  BY BegunType
<1> QED
  BY <1>1, <1>3, <1>4, Local DEF Start

LEMMA DieKeeps ==
  ASSUME IInv, NEW p \in Processes, Die(p)
  PROVE  IInv'
<1> DEFINE q == Begun("down", proc[p].release, {})
<1>1. q \in Process
  <2>1. proc[p].release \in Releases
    BY DEF IInv, RbacTypeOK, Process
  <2> QED
    BY <2>1, BegunType
<1>2. proc'[p] = q
  BY DEF IInv, RbacTypeOK, Die
<1>3. Seeding(p)' /\ Caching(p)'
  BY <1>2 DEF Begun, Seeding, Caching
<1> QED
  BY <1>1, <1>3, Local DEF Die

LEMMA SeedPermissionsKeeps ==
  ASSUME IInv, NEW p \in Processes, SeedPermissions(p)
  PROVE  IInv'
<1> DEFINE q == Begun("seeding", proc[p].release, Roles)
<1>1. q \in Process
  <2>1. proc[p].release \in Releases
    BY DEF IInv, RbacTypeOK, Process
  <2> QED
    BY <2>1, BegunType
<1>2. proc'[p] = q
  BY DEF IInv, RbacTypeOK, SeedPermissions
<1>3. Seeding(p)' /\ Caching(p)'
  BY <1>2 DEF Begun, Seeding, Caching, LinksOf, SeedPermissions
<1>4. q.pc = "seeding"
  BY DEF Begun
<1> QED
  BY <1>1, <1>3, <1>4, Local DEF SeedPermissions

LEMMA SeedRoleKeeps ==
  ASSUME IInv, NEW p \in Processes, NEW role \in Roles, SeedRole(p, role)
  PROVE  IInv'
<1> DEFINE desired == LinksOf(role, Grants[proc[p].release])
           existing == LinksOf(role, links)
           q == [proc[p] EXCEPT !.todo = proc[p].todo \ {role},
                                !.inserted = proc[p].inserted \cup (desired \ existing),
                                !.deleted = proc[p].deleted \cup (existing \ desired)]
<1>1. proc[p] \in Process /\ proc[p].pc = "seeding" /\ Seeding(p) /\ links \subseteq Link
  BY DEF IInv, RbacTypeOK, SeedRole
<1>2. desired \subseteq Link /\ existing \subseteq Link
  BY <1>1, RbacAssumption DEF Process, LinksOf, Link
<1>3. q \in Process /\ q.pc = "seeding"
  BY <1>1, <1>2 DEF Process
<1>4. proc' = [proc EXCEPT ![p] = q] /\ UNCHANGED <<links, holder>>
  BY DEF SeedRole
<1>5. proc'[p] = q
  BY <1>4 DEF IInv, RbacTypeOK
<1>6. /\ q.release = proc[p].release
      /\ q.todo = proc[p].todo \ {role}
      /\ q.inserted = proc[p].inserted \cup (desired \ existing)
      /\ q.deleted = proc[p].deleted \cup (existing \ desired)
  BY <1>1 DEF Process
<1> HIDE DEF q
<1>7. \A other \in proc'[p].todo :
        LinksOf(other, proc'[p].inserted) = {} /\ LinksOf(other, proc'[p].deleted) = {}
  BY <1>1, <1>5, <1>6 DEF Seeding, LinksOf
<1>8. ASSUME NEW other \in Roles \ proc'[p].todo
      PROVE  LinksOf(other, Draft(p)') = LinksOf(other, Grants[proc'[p].release])
  <2>1. CASE other = role
    <3>1. LinksOf(role, proc[p].inserted) = {} /\ LinksOf(role, proc[p].deleted) = {}
      BY <1>1 DEF Seeding, SeedRole
    <3> QED
      BY <1>4, <1>5, <1>6, <2>1, <3>1 DEF Draft, LinksOf
  <2>2. CASE other # role
    <3>1. LinksOf(other, Draft(p)) = LinksOf(other, Grants[proc[p].release])
      BY <1>1, <1>5, <1>6, <2>2 DEF Seeding
    <3> QED
      BY <1>4, <1>5, <1>6, <2>2, <3>1 DEF Draft, LinksOf
  <2> QED
    BY <2>1, <2>2
<1>9. Seeding(p)' /\ Caching(p)'
  BY <1>1, <1>3, <1>4, <1>5, <1>7, <1>8 DEF Seeding, Caching
<1> QED
  BY <1>3, <1>4, <1>9, Local

(* The heart of the matter: a process that commits leaves its own table. *)
LEMMA CommitsItsTable ==
  ASSUME IInv, NEW p \in Processes, SeedCommit(p)
  PROVE  proc[p].release \in Releases /\ links' = Grants[proc[p].release]
<1>1. /\ proc[p] \in Process
      /\ links \subseteq Link
      /\ \A role \in Roles : LinksOf(role, Draft(p)) = LinksOf(role, Grants[proc[p].release])
  BY DEF IInv, RbacTypeOK, SeedCommit, Seeding
<1>2. Draft(p) \subseteq Link /\ Grants[proc[p].release] \subseteq Link
  BY <1>1, RbacAssumption DEF Draft, Process, Link
<1>3. \A l \in Link : l[1] \in Roles
  BY DEF Link
<1>4. ASSUME NEW l \in Link PROVE l \in Draft(p) <=> l \in Grants[proc[p].release]
  BY <1>1, <1>3 DEF LinksOf
<1> QED
  BY <1>1, <1>2, <1>4 DEF SeedCommit, Draft, Process

LEMMA SeedCommitKeeps ==
  ASSUME IInv, NEW p \in Processes, SeedCommit(p)
  PROVE  IInv'
<1> DEFINE v == proc[p].release
           q == [Begun("up", v, Roles) EXCEPT !.seen = {v}]
<1>1. v \in Releases /\ links' = Grants[v]
  BY CommitsItsTable
<1>2. q \in Process /\ q.pc = "up" /\ q.seen = {v} /\ q.todo = Roles /\ q.cached = {}
  BY <1>1 DEF Begun, Process
<1>3. proc'[p] = q
  BY DEF SeedCommit
<1> HIDE DEF q
<1>4. ASSUME NEW s \in Processes, s # p
      PROVE  /\ proc'[s] \in Process
             /\ Seeding(s)' /\ Caching(s)'
  <2>1. proc[s] \in Process /\ Seeding(s) /\ Caching(s) /\ proc[s].pc # "seeding"
    BY <1>4 DEF IInv, RbacTypeOK, SeedCommit, Seeding
  <2>2. CASE proc[s].pc = "up" /\ proc[s].todo # {}
    <3>1. proc'[s] = [proc[s] EXCEPT !.seen = proc[s].seen \cup {v}]
      BY <1>4, <2>2 DEF SeedCommit
    <3> QED
      BY <1>1, <2>1, <2>2, <3>1 DEF Seeding, Caching, Process
  <2>3. CASE ~(proc[s].pc = "up" /\ proc[s].todo # {})
    <3>1. proc'[s] = proc[s]
      BY <1>4, <2>3 DEF SeedCommit
    <3> QED
      BY <2>1, <2>3, <3>1 DEF Seeding, Caching
  <2> QED
    BY <2>2, <2>3
<1>5. Seeding(p)' /\ Caching(p)'
  BY <1>1, <1>2, <1>3 DEF Seeding, Caching, LinksOf
<1>6. RbacTypeOK'
  <2>1. links' \subseteq Link /\ holder' = Nobody
    BY <1>1, RbacAssumption DEF Link, SeedCommit
  <2>2. proc' \in [Processes -> Process]
    <3>1. proc' = [s \in Processes |-> proc'[s]]
      BY DEF SeedCommit
    <3> QED
      BY <1>2, <1>3, <1>4, <3>1
  <2> QED
    BY <2>1, <2>2 DEF RbacTypeOK
<1> QED
  BY <1>1, <1>4, <1>5, <1>6 DEF IInv

LEMMA CacheRoleKeeps ==
  ASSUME IInv, NEW p \in Processes, NEW role \in Roles, CacheRole(p, role)
  PROVE  IInv'
<1> DEFINE q == [proc[p] EXCEPT !.todo = proc[p].todo \ {role},
                                !.cached = proc[p].cached \cup LinksOf(role, links)]
<1>1. proc[p] \in Process /\ proc[p].pc = "up" /\ Caching(p) /\ links \subseteq Link
  BY DEF IInv, RbacTypeOK, CacheRole
<1>2. q \in Process /\ q.pc = "up" /\ q.seen = proc[p].seen
      /\ q.todo = proc[p].todo \ {role}
      /\ q.cached = proc[p].cached \cup LinksOf(role, links)
  BY <1>1 DEF Process, LinksOf
<1>3. proc' = [proc EXCEPT ![p] = q] /\ UNCHANGED <<links, holder>>
  BY DEF CacheRole
<1>4. proc'[p] = q
  BY <1>3 DEF IInv, RbacTypeOK
<1>5. PICK v \in proc[p].seen : links = Grants[v]
  BY <1>1 DEF Caching, CacheRole
<1> HIDE DEF q
<1>6. \A other \in proc'[p].todo : LinksOf(other, proc'[p].cached) = {}
  BY <1>1, <1>2, <1>4 DEF Caching, LinksOf
<1>7. ASSUME NEW other \in Roles \ proc'[p].todo
      PROVE  \E x \in proc'[p].seen :
               LinksOf(other, proc'[p].cached) = LinksOf(other, Grants[x])
  <2>1. CASE other = role
    <3>1. LinksOf(role, proc[p].cached) = {}
      BY <1>1 DEF Caching, CacheRole
    <3>2. LinksOf(role, proc'[p].cached) = LinksOf(role, Grants[v])
      BY <1>2, <1>4, <1>5, <3>1 DEF LinksOf
    <3> QED
      BY <1>2, <1>4, <2>1, <3>2
  <2>2. CASE other # role
    <3>1. LinksOf(other, proc'[p].cached) = LinksOf(other, proc[p].cached)
      BY <1>2, <1>4, <2>2 DEF LinksOf
    <3> QED
      BY <1>1, <1>2, <1>4, <2>2, <3>1 DEF Caching
  <2> QED
    BY <2>1, <2>2
<1>8. Seeding(p)' /\ Caching(p)'
  BY <1>2, <1>3, <1>4, <1>5, <1>6, <1>7 DEF Seeding, Caching
<1>9. holder # p
  BY <1>1, RbacAssumption DEF IInv, RbacTypeOK
<1> QED
  BY <1>2, <1>3, <1>8, <1>9, Local

LEMMA DropCacheKeeps ==
  ASSUME IInv, NEW p \in Processes, DropCache(p)
  PROVE  IInv'
<1> DEFINE q == [proc[p] EXCEPT !.todo = Roles, !.cached = {}]
<1>1. proc[p] \in Process /\ proc[p].pc = "up" /\ Caching(p)
  BY DEF IInv, RbacTypeOK, DropCache
<1>2. q \in Process /\ q.pc = "up" /\ q.seen = proc[p].seen /\ q.todo = Roles /\ q.cached = {}
  BY <1>1 DEF Process
<1>3. proc' = [proc EXCEPT ![p] = q] /\ UNCHANGED <<links, holder>>
  BY DEF DropCache
<1>4. proc'[p] = q
  BY <1>3 DEF IInv, RbacTypeOK
<1> HIDE DEF q
<1>5. Seeding(p)' /\ Caching(p)'
  BY <1>1, <1>2, <1>3, <1>4 DEF Seeding, Caching, LinksOf, DropCache
<1>6. holder # p
  BY <1>1, RbacAssumption DEF IInv, RbacTypeOK
<1> QED
  BY <1>2, <1>3, <1>5, <1>6, Local

LEMMA Keeps == IInv /\ [RbacNext]_rbacVars => IInv'
<1> SUFFICES ASSUME IInv, [RbacNext]_rbacVars PROVE IInv'
  OBVIOUS
<1>1. CASE UNCHANGED rbacVars
  <2>1. UNCHANGED <<links, holder, proc>>
    BY <1>1 DEF rbacVars
  <2>2. RbacTypeOK' /\ \E v \in Releases : links' = Grants[v]
    BY <2>1 DEF IInv, RbacTypeOK
  <2>3. ASSUME NEW p \in Processes PROVE Seeding(p)' /\ Caching(p)'
    <3>1. Seeding(p) /\ Caching(p) /\ Draft(p)' = Draft(p)
      BY <2>1 DEF IInv, Draft
    <3>2. Seeding(p)'
      BY <2>1, <3>1 DEF Seeding
    <3>3. Caching(p)'
      BY <2>1, <3>1 DEF Caching
    <3> QED
      BY <3>2, <3>3
  <2> QED
    BY <2>2, <2>3 DEF IInv
<1>2. ASSUME NEW p \in Processes, Boot(p) PROVE IInv'
  BY <1>2, StartKeeps, SeedPermissionsKeeps, SeedRoleKeeps, SeedCommitKeeps DEF Boot
<1> QED
  BY <1>1, <1>2, CacheRoleKeeps, DropCacheKeeps, DieKeeps DEF RbacNext

-----------------------------------------------------------------------------

(* A lock that is held is held by a process that seeds, and every variable     *)
(* keeps its type.                                                            *)
THEOREM TypeCorrect == RbacSpec => []RbacTypeOK
<1>1. IInv => RbacTypeOK
  BY DEF IInv
<1> QED
  BY <1>1, Begin, Keeps, PTL DEF RbacSpec

(* For any number of processes and releases, a role is cached as one release   *)
(* grants it that the process could have read.                                *)
THEOREM CacheIsGranted == RbacSpec => []CachedAsGranted
<1>1. IInv => CachedAsGranted
  BY DEF IInv, CachedAsGranted, Caching
<1> QED
  BY <1>1, Begin, Keeps, PTL DEF RbacSpec

(* The seeding, role by role in a transaction, implements the table that       *)
(* changes all at once: only a commit changes the links.                       *)
THEOREM SeedingIsAtomic == RbacSpec => SeedsWholeTables
<1>1. RbacInit => Table!Init
  BY DEF RbacInit, Table!Init
<1>2. IInv /\ [RbacNext]_rbacVars => [Table!Next]_links
  <2> SUFFICES ASSUME IInv, [RbacNext]_rbacVars, links' # links PROVE Table!Next
    OBVIOUS
  <2>1. PICK p \in Processes : SeedCommit(p)
    BY DEF rbacVars, RbacNext, Boot, Start, SeedPermissions, SeedRole, CacheRole, DropCache, Die
  <2> QED
    BY <2>1, CommitsItsTable DEF Table!Next, Table!Seed
<1> QED
  BY <1>1, <1>2, Begin, Keeps, PTL DEF RbacSpec, SeedsWholeTables, Table!Spec

=============================================================================
