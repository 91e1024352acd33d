----------------------------- MODULE Workspaces -----------------------------
(***************************************************************************)
(* Which workspace a request works in (app/common/tenant.py).  A user's       *)
(* choice is kept in three places: the column users.current_business, the     *)
(* Flask session cookie of each browser and the business_id claim of each     *)
(* token.  Browsers send requests with the cookie and the token they have at  *)
(* that moment; the server handles them in any order and the answers arrive   *)
(* in any order.  Flask writes the cookie only when the session was changed,  *)
(* and also when the request then fails.  What a handler does to the database *)
(* is one step here; Memberships has the interleavings inside it.             *)
(***************************************************************************)
EXTENDS Naturals, FiniteSets

CONSTANTS
  Users, Businesses, Browsers,
  Requests,   \* bound: the requests in flight
  None,       \* no user, browser, business, cookie, claim or header
  Keep        \* the part of an answer that is absent from it

ASSUME WorkspaceAssumption ==
  /\ None \notin Users \cup Businesses \cup Browsers
  /\ Keep \notin Users \cup Businesses \cup {None}

VARIABLES
  id,         \* id[w]: still unused, lost in a rollback, or the id of a business
  active,     \* the active memberships, <<user, business>>
  current,    \* current[u]: the column users.current_business
  jar,        \* jar[b]: the session cookie and the token of browser b
  told,       \* told[b]: the workspace the server last told b, None if in doubt
  req         \* req[r]: a request under way, then its answer

vars == <<id, active, current, jar, told, req>>

Choice == Businesses \cup {None}

Token == [user : Users \cup {None}, claim : Choice]

NoToken == [user |-> None, claim |-> None]

Operations == {"login", "logout", "me", "switch", "create", "scoped"}

(* target: the business to switch to, or the X-Business-Id header.  In an     *)
(* answer token, cookie and told are what it brings.                          *)
Request ==
  [pc : {"idle", "sent", "answered"},
   browser : Browsers \cup {None},
   op : Operations,
   target : Choice,
   token : Token \cup {Keep},
   cookie : Choice \cup {Keep},
   told : Choice \cup {Keep}]

Idle == [pc |-> "idle", browser |-> None, op |-> "me",
         target |-> None, token |-> Keep, cookie |-> Keep, told |-> Keep]

Init ==
  /\ active \in SUBSET (Users \X Businesses)
  /\ id \in [Businesses -> {"unused", "business"}]
  /\ \A m \in active : id[m[2]] = "business"
  /\ current = [u \in Users |-> None]
  /\ jar = [b \in Browsers |-> [cookie |-> None, token |-> NoToken]]
  /\ told = [b \in Browsers |-> None]
  /\ req = [r \in Requests |-> Idle]

-----------------------------------------------------------------------------
(* tenant.py *)

Member(u, w) == <<u, w>> \in active

(* memberships[0].business, when there is one active membership. *)
Sole(u) ==
  IF \E w \in Businesses : {v \in Businesses : Member(u, v)} = {w}
  THEN CHOOSE w \in Businesses : Member(u, w)
  ELSE None

(* What ensure_default_current_business leaves in the column and answers. *)
DefaultBusiness(u) == IF Member(u, current[u]) THEN current[u] ELSE Sole(u)

(* session.pop changes nothing when the request brought no cookie. *)
Cleared(cookie) == IF cookie = None THEN Keep ELSE None

(* The cookie ensure_default_current_business sends: with nothing in the      *)
(* column and no workspace to choose it leaves the session alone.             *)
DefaultCookie(u, cookie) ==
  IF DefaultBusiness(u) # None THEN DefaultBusiness(u)
  ELSE IF current[u] # None THEN Cleared(cookie) ELSE Keep

(* Mutant: the claim of the token comes before the session. *)
TokenFirst(u, header, cookie, claim) == <<header, claim, cookie, current[u]>>

Candidates(u, header, cookie, claim) == <<header, cookie, claim, current[u]>>

(* resolve_current_business: the first candidate that is active, or else the  *)
(* only membership.                                                           *)
Resolved(q) ==
  LET u == q.token.user
      c == Candidates(u, q.target, q.cookie, q.token.claim)
      ok == {i \in 1..4 : Member(u, c[i])}
  IN IF ok = {} THEN Sole(u) ELSE c[CHOOSE i \in ok : \A j \in ok : i <= j]

Falls(q) ==
  LET u == q.token.user IN
  \A w \in {q.target, q.cookie, q.token.claim, current[u]} : ~Member(u, w)

-----------------------------------------------------------------------------
(* The browsers *)

(* A login carries the user it is for, every other request the token.  Of    *)
(* what the browser sends only what the handler looks at is kept.            *)
Send(r, b, op, u, w) ==
  /\ req[r].pc = "idle"
  /\ IF op = "login" THEN u # None ELSE u = jar[b].token.user /\ u # None
  /\ op = "switch" => w # None
  /\ op \notin {"switch", "scoped"} => w = None
  /\ req' = [req EXCEPT ![r] =
       [pc |-> "sent", browser |-> b, op |-> op, target |-> w,
        token |-> [user |-> u,
                   claim |-> IF op = "scoped" THEN jar[b].token.claim ELSE None],
        cookie |-> IF op \in {"switch", "create", "logout"} THEN Keep ELSE jar[b].cookie,
        told |-> IF op = "scoped" THEN told[b] ELSE Keep]]
  /\ UNCHANGED <<id, active, current, jar, told>>

Received(old, new) == IF new = Keep THEN old ELSE new

(* An answer that sets the cookie and tells no workspace leaves the browser   *)
(* in doubt.                                                                  *)
Receive(r) ==
  LET a == req[r]
      b == a.browser
  IN
  /\ a.pc = "answered"
  /\ jar' = [jar EXCEPT ![b] = [cookie |-> Received(jar[b].cookie, a.cookie),
                               token |-> Received(jar[b].token, a.token)]]
  /\ told' = [told EXCEPT ![b] =
                IF a.told = Keep /\ a.cookie # Keep THEN None
                ELSE Received(told[b], a.told)]
  /\ req' = [req EXCEPT ![r] = Idle]
  /\ UNCHANGED <<id, active, current>>

-----------------------------------------------------------------------------
(* The server *)

Answer(r, cookie, token, tells) ==
  req' = [req EXCEPT ![r] =
            [pc |-> "answered", browser |-> req[r].browser, op |-> Idle.op,
             target |-> None, token |-> token, cookie |-> cookie, told |-> tells]]

(* An answer that changes nothing in the browser. *)
NothingNew(r) == req' = [req EXCEPT ![r] = Idle]

(* 400, 401, 403 or a failure before anything is changed. *)
Refuse(r) ==
  /\ req[r].pc = "sent"
  /\ NothingNew(r)
  /\ UNCHANGED <<id, active, current, jar, told>>

(* The commit of w as user u's current business, and the answer; or a commit  *)
(* that raises: the column is rolled back, the cookie goes out with the 500.  *)
Finish(r, u, w, cookie, token, tells) ==
  \/ /\ current' = [current EXCEPT ![u] = w]
     /\ Answer(r, cookie, token, tells)
  \/ /\ UNCHANGED current
     /\ Answer(r, cookie, Keep, Keep)

Handling(r, op) == req[r].pc = "sent" /\ req[r].op = op

(* login, and register as the login of a user without memberships. *)
Login(r) ==
  LET u == req[r].token.user
      w == DefaultBusiness(u)
  IN
  /\ Handling(r, "login")
  /\ Finish(r, u, w, DefaultCookie(u, req[r].cookie), [user |-> u, claim |-> w], w)
  /\ UNCHANGED <<id, active, jar, told>>

(* /auth/me gives no new token. *)
Me(r) ==
  LET u == req[r].token.user
      w == DefaultBusiness(u)
  IN
  /\ Handling(r, "me")
  /\ Finish(r, u, w, DefaultCookie(u, req[r].cookie), Keep, w)
  /\ UNCHANGED <<id, active, jar, told>>

(* The session is left as it is. *)
Logout(r) ==
  /\ Handling(r, "logout")
  /\ Answer(r, Keep, NoToken, None)
  /\ UNCHANGED <<id, active, current, jar, told>>

SwitchBusiness(r) ==
  LET u == req[r].token.user
      w == req[r].target
  IN
  /\ Handling(r, "switch")
  /\ Member(u, w)
  /\ Finish(r, u, w, w, [user |-> u, claim |-> w], w)
  /\ UNCHANGED <<id, active, jar, told>>

(* Mutant: the membership is not in the transaction of the business. *)
CreateInTwoCommits(r, w) ==
  LET u == req[r].token.user IN
  /\ Handling(r, "create")
  /\ id[w] = "unused"
  /\ Finish(r, u, w, w, [user |-> u, claim |-> w], w)
  /\ id' = [id EXCEPT ![w] = IF current' = current THEN "lost" ELSE "business"]
  /\ active' = active \cup {<<u, w>>}
  /\ UNCHANGED <<jar, told>>

(* The id comes from a sequence, so it is never used again, even when the     *)
(* business is rolled back.                                                   *)
CreateBusiness(r, w) ==
  LET u == req[r].token.user IN
  /\ Handling(r, "create")
  /\ id[w] = "unused"
  /\ Finish(r, u, w, w, [user |-> u, claim |-> w], w)
  /\ IF current' = current
     THEN id' = [id EXCEPT ![w] = "lost"] /\ UNCHANGED active
     ELSE id' = [id EXCEPT ![w] = "business"] /\ active' = active \cup {<<u, w>>}
  /\ UNCHANGED <<jar, told>>

(* business_required: a candidate, or no workspace at all (404), ...          *)
Scoped(r) ==
  /\ Handling(r, "scoped")
  /\ Falls(req[r]) => Resolved(req[r]) = None
  /\ NothingNew(r)
  /\ UNCHANGED <<id, active, current, jar, told>>

(* ... or the only membership, which becomes the current business.            *)
ScopedFallback(r) ==
  LET w == Resolved(req[r]) IN
  /\ Handling(r, "scoped")
  /\ Falls(req[r])
  /\ w # None
  /\ Finish(r, req[r].token.user, w, w, Keep, Keep)
  /\ UNCHANGED <<id, active, jar, told>>

(* A manager of w, maybe outside Users, removes, suspends or activates u. *)
ChangeMembership(u, w) ==
  /\ id[w] = "business"
  /\ active' = IF Member(u, w) THEN active \ {<<u, w>>} ELSE active \cup {<<u, w>>}
  /\ UNCHANGED <<id, current, jar, told, req>>

Handle(r) ==
  \/ Login(r) \/ Me(r) \/ Logout(r) \/ SwitchBusiness(r)
  \/ \E w \in Businesses : CreateBusiness(r, w)
  \/ Scoped(r) \/ ScopedFallback(r) \/ Refuse(r)

Next ==
  \/ \E r \in Requests :
       \/ \E b \in Browsers, op \in Operations, u \in Users, w \in Choice :
            Send(r, b, op, u, w)
       \/ Handle(r)
       \/ Receive(r)
  \/ \E u \in Users, w \in Businesses : ChangeMembership(u, w)

Spec == Init /\ [][Next]_vars

-----------------------------------------------------------------------------
(* Properties *)

TypeOK ==
  /\ id \in [Businesses -> {"unused", "lost", "business"}]
  /\ active \subseteq {m \in Users \X Businesses : id[m[2]] = "business"}
  /\ current \in [Users -> {w \in Businesses : id[w] = "business"} \cup {None}]
  /\ jar \in [Browsers -> [cookie : Choice, token : Token]]
  /\ told \in [Browsers -> Choice]
  /\ req \in [Requests -> Request]

(* The answer a browser received last decides: a request without a header is  *)
(* handled in the workspace that answer named, as long as its user is active  *)
(* there, whatever other browsers of the user have chosen since, in whatever  *)
(* order requests were handled and their answers arrived, and whoever used    *)
(* the browser before.                                                        *)
AnsweredWorkspaceIsUsed ==
  \A r \in Requests :
    Handling(r, "scoped") /\ req[r].target = None /\ Member(req[r].token.user, req[r].told)
      => Resolved(req[r]) = req[r].told

=============================================================================
