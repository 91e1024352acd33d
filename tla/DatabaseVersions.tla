-------------------------- MODULE DatabaseVersions --------------------------
(***************************************************************************)
(* What database_version promises to those who start on a database: its      *)
(* migrations are executed in order and for good, each together with its      *)
(* mark, none changes what a user is in its business, and a process is up     *)
(* only on a database that has them all.                                      *)
(***************************************************************************)
EXTENDS Naturals

CONSTANTS Starters, Users, RoleKeys, None

VARIABLES
  executed,   \* the migrations that are marked
  layout,     \* how a membership has its role: not at all, as text, as a key
  role,       \* role[u]: what user u is in the business it had before them
  up          \* the processes that are up

vars == <<executed, layout, role, up>>

Layout(done) ==
  IF 4 \in done THEN "fk" ELSE IF 2 \in done THEN "text" ELSE "none"

Init ==
  /\ executed \in {1..n : n \in 0..3}
  /\ layout = Layout(executed)
  /\ role \in [Users -> RoleKeys \cup {None}]
  /\ up = {}

Execute ==
  /\ executed' \in {1..n : n \in 1..4}
  /\ executed \subseteq executed'
  /\ layout' = Layout(executed')
  /\ UNCHANGED <<role, up>>

ComeUp(p) ==
  /\ executed = 1..4
  /\ up' = up \cup {p}
  /\ UNCHANGED <<executed, layout, role>>

Next == Execute \/ \E p \in Starters : ComeUp(p)

Spec == Init /\ [][Next]_vars

=============================================================================
