------------------------------ MODULE Accounts ------------------------------
(***************************************************************************)
(* Registration and password reset: which password opens which account.      *)
(* register() leaves the uniqueness of the email to the index: it inserts,   *)
(* commits, and takes a unique violation for "Email already registered".      *)
(* forgot_password stores a token in Redis, reset_password looks it up,       *)
(* deletes it and then saves the new password in PostgreSQL: two Redis        *)
(* commands and a commit.  A request may die between any two steps.  The      *)
(* update of a password repeats is_active only (password_hash is assigned     *)
(* without being read), so it never conflicts.  Users are never deactivated   *)
(* or deleted by this code.                                                  *)
(***************************************************************************)
EXTENDS Naturals, FiniteSets

CONSTANTS
  Users,      \* well-formed emails, lower case, each an account or not yet
  Tokens,     \* the values token_urlsafe can return, each at most once
  Passwords,  \* passwords that are long enough
  Workers,    \* worker processes, one request each
  None        \* no user, token, account; the reply to GET of a missing key

ASSUME NoneAssumption == None \notin Users \cup Tokens \cup Passwords

ASSUME WorkersAssumption == IsFiniteSet(Workers)

VARIABLES
  password,   \* password[u]: what the committed password_hash verifies
  issued,     \* issued[t]: the user forgot_password created t for
  redis,      \* redis[t]: the value of password_reset:<t>
  req,        \* req[w]: the request worker w is serving
  created,    \* created[u]: the registrations of u answered 201
  refused,    \* the users told "Email already registered"
  uses        \* uses[t]: the resets answered 200 for token t

vars == <<password, issued, redis, req, created, refused, uses>>

Request ==
  [pc : {"idle", "insert", "inserted", "registered", "found", "consumed"},
   token : Tokens \cup {None},
   user : Users \cup {None},
   password : Passwords \cup {None}]

Idle == [pc |-> "idle", token |-> None, user |-> None, password |-> None]

Init ==
  /\ password = [u \in Users |-> None]
  /\ issued = [t \in Tokens |-> None]
  /\ redis = [t \in Tokens |-> None]
  /\ req = [w \in Workers |-> Idle]
  /\ created = [u \in Users |-> 0]
  /\ refused = {}
  /\ uses = [t \in Tokens |-> 0]

-----------------------------------------------------------------------------
(* POST /register *)

Register(w, u, p) ==
  /\ req[w].pc = "idle"
  /\ req' = [req EXCEPT ![w] = [pc |-> "insert", token |-> None, user |-> u,
                                password |-> p]]
  /\ UNCHANGED <<password, issued, redis, created, refused, uses>>

(* Workers whose transaction has inserted u and is not committed. *)
Inserting(u) == {v \in Workers : req[v].pc = "inserted" /\ req[v].user = u}

(* Mutant: email is declared without unique=True. *)
InsertAnyway(w) ==
  /\ req[w].pc = "insert"
  /\ req' = [req EXCEPT ![w].pc = "inserted"]
  /\ UNCHANGED <<password, issued, redis, created, refused, uses>>

(* The INSERT that commit() flushes waits for a worker that has inserted the *)
(* email and not committed; it succeeds if the email is still free.          *)
Insert(w) ==
  /\ req[w].pc = "insert"
  /\ Inserting(req[w].user) = {}
  /\ password[req[w].user] = None
  /\ req' = [req EXCEPT ![w].pc = "inserted"]
  /\ UNCHANGED <<password, issued, redis, created, refused, uses>>

(* Mutant: an email that another request is inserting counts as taken. *)
ConflictAtOnce(w) ==
  /\ req[w].pc = "insert"
  /\ Inserting(req[w].user) # {} \/ password[req[w].user] # None
  /\ refused' = refused \cup {req[w].user}
  /\ req' = [req EXCEPT ![w] = Idle]
  /\ UNCHANGED <<password, issued, redis, created, uses>>

(* ... or it is a unique violation: 409 Email already registered. *)
Conflict(w) ==
  /\ req[w].pc = "insert"
  /\ Inserting(req[w].user) = {}
  /\ password[req[w].user] # None
  /\ refused' = refused \cup {req[w].user}
  /\ req' = [req EXCEPT ![w] = Idle]
  /\ UNCHANGED <<password, issued, redis, created, uses>>

(* The first commit makes the account. *)
CommitAccount(w) ==
  /\ req[w].pc = "inserted"
  /\ password' = [password EXCEPT ![req[w].user] = req[w].password]
  /\ req' = [req EXCEPT ![w].pc = "registered"]
  /\ UNCHANGED <<issued, redis, created, refused, uses>>

(* The second commit (no default workspace for a user without memberships)   *)
(* and the answer, 201 with a token.                                         *)
Registered(w) ==
  /\ req[w].pc = "registered"
  /\ created' = [created EXCEPT ![req[w].user] = @ + 1]
  /\ req' = [req EXCEPT ![w] = Idle]
  /\ UNCHANGED <<password, issued, redis, refused, uses>>

-----------------------------------------------------------------------------
(* POST /forgot-password *)

(* Mutant: the key and the value of SETEX are confused. *)
StoreTokenAsUser(u, t) ==
  /\ password[u] # None
  /\ issued[t] = None
  /\ issued' = [issued EXCEPT ![t] = u]
  /\ redis' = [redis EXCEPT ![t] = t]
  /\ UNCHANGED <<password, req, created, refused, uses>>

(* create_password_reset_token for an account that exists. *)
ForgotPassword(u, t) ==
  /\ password[u] # None
  /\ issued[t] = None
  /\ issued' = [issued EXCEPT ![t] = u]
  /\ redis' = [redis EXCEPT ![t] = u]
  /\ UNCHANGED <<password, req, created, refused, uses>>

(* The key reaches the end of its TTL. *)
Expire(t) ==
  /\ redis[t] # None
  /\ redis' = [redis EXCEPT ![t] = None]
  /\ UNCHANGED <<password, issued, req, created, refused, uses>>

-----------------------------------------------------------------------------
(* POST /reset-password *)

(* With a well-formed password: GET finds the token, *)
LookUp(w, t, p) ==
  /\ req[w].pc = "idle"
  /\ redis[t] # None
  /\ req' = [req EXCEPT ![w] = [pc |-> "found", token |-> t, user |-> redis[t],
                                password |-> p]]
  /\ UNCHANGED <<password, issued, redis, created, refused, uses>>

(* or does not: 400 Invalid or expired reset token. *)
Unknown(w, t) ==
  /\ req[w].pc = "idle"
  /\ redis[t] = None
  /\ UNCHANGED vars

(* Mutant: the token is kept until the password has been saved. *)
KeepToken(w) ==
  /\ req[w].pc = "found"
  /\ req' = [req EXCEPT ![w].pc = "consumed"]
  /\ UNCHANGED <<password, issued, redis, created, refused, uses>>

(* DELETE, whose reply (how many keys it removed) is not looked at. *)
Consume(w) ==
  /\ req[w].pc = "found"
  /\ redis' = [redis EXCEPT ![req[w].token] = None]
  /\ req' = [req EXCEPT ![w].pc = "consumed"]
  /\ UNCHANGED <<password, issued, created, refused, uses>>

(* The password is saved; 200. *)
SavePassword(w) ==
  LET r == req[w] IN
  /\ r.pc = "consumed"
  /\ password' = [password EXCEPT ![r.user] = r.password]
  /\ uses' = [uses EXCEPT ![r.token] = @ + 1]
  /\ req' = [req EXCEPT ![w] = Idle]
  /\ UNCHANGED <<issued, redis, created, refused>>

(* Redis or PostgreSQL fails the request, or its worker is killed: what it   *)
(* has committed or done to Redis stays.                                     *)
Die(w) ==
  /\ req[w].pc # "idle"
  /\ req' = [req EXCEPT ![w] = Idle]
  /\ UNCHANGED <<password, issued, redis, created, refused, uses>>

Next ==
  \/ \E t \in Tokens : Expire(t) \/ \E u \in Users : ForgotPassword(u, t)
  \/ \E w \in Workers :
       \/ \E u \in Users, p \in Passwords : Register(w, u, p)
       \/ Insert(w) \/ Conflict(w) \/ CommitAccount(w) \/ Registered(w)
       \/ \E t \in Tokens : Unknown(w, t) \/ \E p \in Passwords : LookUp(w, t, p)
       \/ Consume(w)
       \/ SavePassword(w)
       \/ Die(w)

Spec == Init /\ [][Next]_vars

-----------------------------------------------------------------------------
(* Properties *)

TypeOK ==
  /\ password \in [Users -> Passwords \cup {None}]
  /\ issued \in [Tokens -> Users \cup {None}]
  /\ redis \in [Tokens -> Users \cup {None}]
  /\ req \in [Workers -> Request]
  /\ created \in [Users -> Nat]
  /\ refused \subseteq Users
  /\ uses \in [Tokens -> Nat]

(* Of the registrations with one email, however they overlap, one at most is *)
(* told that it made the account.                                            *)
OneRegistrationPerEmail == \A u \in Users : created[u] <= 1

(* "Email already registered" is true: a registration is not refused because *)
(* of another that was under way and came to nothing.                        *)
ConflictMeansAccount == \A u \in refused : password[u] # None

(* The password of an account is replaced only by a reset whose token was    *)
(* issued for that account: not by a registration that lost a race, nor by a *)
(* reset that got hold of another user's token.                              *)
ReplacedByItsToken ==
  [][\A u \in Users :
       password[u] # None /\ password'[u] # password[u] =>
         \E t \in Tokens : issued[t] = u /\ uses'[t] = uses[t] + 1]_vars

(* test_reset_token_is_single_use: a token resets one password once. *)
SingleUse == \A t \in Tokens : uses[t] <= 1

(* Once a reset has been answered 200 its token is gone for good: every      *)
(* request that starts later is refused, whatever else is in flight.         *)
GoneOnceUsed == \A t \in Tokens : uses[t] > 0 => redis[t] = None

(* The requests that overlap the first use of a token may use it as well,    *)
(* and no others: a token is used at most once by each worker, and exactly   *)
(* once where a single worker serves all requests.                           *)
UsesBounded == \A t \in Tokens : uses[t] <= Cardinality(Workers)

=============================================================================
