------------------------------ MODULE StartUp ------------------------------
(***************************************************************************)
(* init_database as a whole: a process creates the database if it is        *)
(* missing (DatabaseCreation), binds it and migrates and seeds (Migrations),  *)
(* on a PostgreSQL server that goes away and comes back.  Whatever fails ends *)
(* the process, and a process that has ended is started again from the       *)
(* beginning.                                                                *)
(***************************************************************************)
EXTENDS Migrations

CONSTANTS
  Retries,      \* retries=12
  MaxOutages    \* bound: how often the server goes away

ASSUME StartUpAssumption == Retries \in Nat \ {0} /\ MaxOutages \in Nat

VARIABLES
  server,     \* the server accepts connections
  exists,     \* the application's database exists
  creation,   \* creation[p]: where starter p is in the creation of the database
  outages     \* how often the server has gone away

Creation == INSTANCE DatabaseCreation WITH st <- creation

startUpVars == <<vars, server, exists, creation, outages>>

(* A database that does not exist has nothing in it. *)
StartUpInit ==
  /\ Init
  /\ Creation!Init
  /\ ~exists => db = Blank
  /\ outages = 0

(* The processes that died in this step begin again with the creation. *)
BeginAgain(dead) ==
  creation' = [p \in Starters |->
                 IF p \in dead THEN [creation[p] EXCEPT !.pc = "failed"]
                 ELSE creation[p]]

(* ensure_database_ready, in the Gunicorn workers once the entrypoint is up. *)
Create(p) ==
  /\ p \in Skipping => EntrypointIsUp
  /\ Creation!Step(p)
  /\ UNCHANGED <<vars, outages>>

(* bind_database raises: the server has gone since. *)
BindFails(p) ==
  /\ creation[p].pc = "ready"
  /\ st[p].pc \in {"down", "failed"}
  /\ ~server
  /\ BeginAgain({p})
  /\ UNCHANGED <<vars, server, exists, outages>>

(* The end of a step of Migrations, which may have been an exception. *)
OnServer(p) ==
  /\ BeginAgain({q \in {p} : st'[q].pc = "failed"})
  /\ UNCHANGED <<server, exists, outages>>

Bound(p) == creation[p].pc = "ready" /\ server

(* bind_database, the migrations and the seeding. *)
Migrate(p) == Bound(p) /\ Step(p) /\ OnServer(p)

Die(p) ==
  /\ Kill({p})
  /\ BeginAgain({p})
  /\ UNCHANGED <<server, exists, outages>>

(* The open connections are lost: the next statement raises, uncaught. *)
ServerStops ==
  LET migrating == {p \in Starters : Migrating(p)} IN
  /\ server
  /\ outages < MaxOutages
  /\ server' = FALSE
  /\ outages' = outages + 1
  /\ BeginAgain(migrating \cup {p \in Starters : creation[p].pc \in {"ask", "create"}})
  /\ IF migrating = {} THEN UNCHANGED vars ELSE Kill(migrating)
  /\ UNCHANGED exists

ServerStarts ==
  /\ ~server
  /\ server' = TRUE
  /\ UNCHANGED <<vars, exists, creation, outages>>

Advance(p) == Create(p) \/ BindFails(p) \/ Migrate(p)

StartUpNext ==
  \/ \E p \in Starters : Advance(p) \/ Die(p)
  \/ ServerStops
  \/ ServerStarts

(* A starter that can go on does; PostgreSQL ends deadlocks; whoever started *)
(* a process that failed starts it again.  PostgreSQL grants a released lock *)
(* in the order of arrival, so a waiter is not overtaken for ever.  Nothing  *)
(* is promised of the server.                                                *)
StartUpSpec ==
  /\ StartUpInit
  /\ [][StartUpNext]_startUpVars
  /\ \A p \in Starters :
       /\ WF_startUpVars(Advance(p))
       /\ SF_startUpVars(Bound(p) /\ TakeLock(p) /\ OnServer(p))

-----------------------------------------------------------------------------
(* Properties *)

StartUpTypeOK == TypeOK /\ Creation!TypeOK /\ outages \in 0..MaxOutages

(* A starter that goes on to bind the database has one, whoever created it   *)
(* and whatever happened to the server between its probe and its answer.     *)
ReadyHasDatabase == Creation!ReadyHasDatabase

(* The locks never hold up everybody, whatever is killed between the         *)
(* statements that take them: of the starters inside their transactions one   *)
(* waits for no lock, or waits in a circle of two that PostgreSQL ends.       *)
SomeoneCanMove ==
  (\E p \in Starters : Migrating(p)) =>
    \E p \in Starters :
      /\ Migrating(p) /\ Bound(p)
      /\ Deadlocked(p) \/ \A t \in Tables : ~Wants(p, t)

(* What a user is in the business of the users row, wherever it is stored and *)
(* by whichever of its names.                                                 *)
LegacyRole(u) ==
  IF origin[u] = None THEN None
  ELSE LinkedRole(RoleOrOwner(IF db.users = "legacy" THEN origin[u] ELSE db.role[u]))

Versions ==
  INSTANCE DatabaseVersions
  WITH executed <- db.versions, layout <- db.roleCol,
       role <- [u \in Users |-> LegacyRole(u)],
       up <- {p \in Starters : st[p].pc = "up"}

(* However starters race, die half way and start again, they execute the      *)
(* migrations in order, each once and together with its mark, and what a      *)
(* crash has left unmarked it has also left undone.                           *)
ImplementsVersions == Versions!Spec

(* Starters never wait for one another or for the server for ever, whatever  *)
(* they have locked and whoever dies: every attempt to start ends.           *)
EveryStartEnds ==
  \A p \in Starters :
    p \notin Skipping => []<>(st[p].pc = "up" \/ creation[p].pc = "failed")

(* Races, outages and half-done starts leave nothing that a later start      *)
(* trips over: when the server stays up in the end every starter comes up,   *)
(* unless PostgreSQL has to end deadlocks between restarted starters for ever. *)
EveryoneComesUp ==
  <>[]server =>
    \/ []<><<\E p \in Starters : DeadlockVictim(p)>>_startUpVars
    \/ \A p \in Starters : <>(st[p].pc = "up")

=============================================================================
