-------------------------- MODULE DatabaseCreation --------------------------
(***************************************************************************)
(* ensure_postgres_database_exists, the first thing a starting process does: *)
(* probe the application's database; if that fails connect to the            *)
(* administration database, again and again while the server does not        *)
(* answer; look for the database in the catalogue and create it.  Several    *)
(* processes start together, and the server comes and goes (StartUp says     *)
(* when).                                                                    *)
(***************************************************************************)
EXTENDS Naturals

CONSTANTS
  Starters,    \* processes that start
  Retries      \* retries=12

VARIABLES
  server,    \* the server accepts connections
  exists,    \* the application's database exists
  st         \* st[p]: where starter p is

Starter == [pc : {"probe", "connect", "ask", "create", "ready", "failed"},
            attempt : 1..Retries]

Begun == [pc |-> "probe", attempt |-> 1]

TypeOK ==
  /\ server \in BOOLEAN
  /\ exists \in BOOLEAN
  /\ st \in [Starters -> Starter]

Init ==
  /\ server \in BOOLEAN
  /\ exists \in BOOLEAN
  /\ st = [p \in Starters |-> Begun]

Goto(p, pc) == st' = [st EXCEPT ![p].pc = pc]

(* database_exists: False for a missing database and for a missing server. *)
Probe(p) ==
  /\ st[p].pc = "probe"
  /\ Goto(p, IF server /\ exists THEN "ready" ELSE "connect")
  /\ UNCHANGED <<server, exists>>

(* Mutant: the attempts are not counted. *)
RefusedForEver(p) ==
  /\ st[p].pc = "connect"
  /\ ~server
  /\ UNCHANGED <<server, exists, st>>

(* One attempt of the loop: the connection to the administration database,   *)
Connect(p) ==
  /\ st[p].pc = "connect"
  /\ server
  /\ Goto(p, "ask")
  /\ UNCHANGED <<server, exists>>

(* or the wait for the next attempt, or the end of them all.                 *)
Refused(p) ==
  /\ st[p].pc = "connect"
  /\ ~server
  /\ st' = [st EXCEPT ![p] = IF st[p].attempt = Retries
                             THEN [st[p] EXCEPT !.pc = "failed"]
                             ELSE [st[p] EXCEPT !.attempt = st[p].attempt + 1]]
  /\ UNCHANGED <<server, exists>>

(* Mutant: the answer of the catalogue is turned round. *)
AskWhetherMissing(p) ==
  /\ st[p].pc = "ask"
  /\ Goto(p, IF exists THEN "create" ELSE "ready")
  /\ UNCHANGED <<server, exists>>

(* SELECT 1 FROM pg_database. *)
Ask(p) ==
  /\ st[p].pc = "ask"
  /\ Goto(p, IF exists THEN "ready" ELSE "create")
  /\ UNCHANGED <<server, exists>>

(* CREATE DATABASE is an error when another starter has created it since. *)
Create(p) ==
  /\ st[p].pc = "create"
  /\ exists' = TRUE
  /\ Goto(p, IF exists THEN "failed" ELSE "ready")
  /\ UNCHANGED server

(* A process that has failed is started again. *)
Restart(p) ==
  /\ st[p].pc = "failed"
  /\ st' = [st EXCEPT ![p] = Begun]
  /\ UNCHANGED <<server, exists>>

Step(p) ==
  Probe(p) \/ Connect(p) \/ Refused(p) \/ Ask(p) \/ Create(p) \/ Restart(p)

(* A starter that goes on to bind the database has one, whoever created it   *)
(* and whatever happened to the server between its probe and its answer.     *)
ReadyHasDatabase == \A p \in Starters : st[p].pc = "ready" => exists

=============================================================================
