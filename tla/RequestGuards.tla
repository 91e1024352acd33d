---------------------------- MODULE RequestGuards ----------------------------
(***************************************************************************)
(* The guards in front of a protected route, in Gunicorn workers that seed,   *)
(* serve one request at a time and die: login_required (AuthTokens), and then *)
(* permission_required with the worker's cache (Rbac).                        *)
(***************************************************************************)
EXTENDS AuthTokens, Rbac

(* Other processes, such as the Celery worker, seed and serve no request. *)
ASSUME WorkersAreProcesses == Workers \subseteq Processes

guardVars == <<vars, rbacVars>>

GuardsInit == Init /\ RbacInit

OnlyTokens == UNCHANGED rbacVars

Up(w) == proc[w].pc = "up"

(* Worker w is filling its cache for the request it serves. *)
Filling(w) == proc[w].todo \notin {{}, Roles}

(* get_current_membership's role decides; the first such request of a worker  *)
(* fills the cache.                                                           *)
PermissionRequired(w) ==
  /\ req[w].pc = "in"
  /\ \E role \in Roles : CacheRole(w, role)
  /\ UNCHANGED vars

(* The request ends, with the cache it was filling when it fails. *)
End(w) ==
  /\ Finish(w)
  /\ \/ DropCache(w)
     \/ ~Filling(w) /\ OnlyTokens

(* A process is killed, and the request of a worker with it. *)
ProcessDies(p) ==
  /\ Die(p)
  /\ req' = [w \in Workers |-> IF w = p THEN Idle ELSE req[w]]
  /\ UNCHANGED <<now, exp, listed, out>>

GuardsNext ==
  \/ (Tick \/ \E t \in Tokens : CreateAccessToken(t)) /\ OnlyTokens
  \/ \E w \in Workers :
       \/ Up(w) /\ ~Filling(w) /\ Serve(w) /\ OnlyTokens
       \/ PermissionRequired(w)
       \/ End(w)
  \/ \E p \in Processes :
       \/ Boot(p) /\ UNCHANGED vars
       \/ ProcessDies(p)

GuardsSpec == GuardsInit /\ [][GuardsNext]_guardVars

-----------------------------------------------------------------------------
(* Properties: those of AuthTokens and Rbac, and *)

GuardsTypeOK == TypeOK /\ RbacTypeOK

=============================================================================
