--------------------------- MODULE AccountsProofs ---------------------------
(***************************************************************************)
(* Registrations and resets, for any users, tokens and passwords and any      *)
(* finite set of workers.                                                     *)
(***************************************************************************)
EXTENDS Accounts, FiniteSetTheorems, TLAPS

(* What a request carries: a registration a user, a reset a token that was    *)
(* issued for its user, who has an account.                                   *)
Filled ==
  \A w \in Workers :
    /\ req[w].pc = "idle" => req[w].token = None
    /\ req[w].pc \in {"insert", "inserted", "registered"} =>
         req[w].token = None /\ req[w].user \in Users /\ req[w].password \in Passwords
    /\ req[w].pc \in {"found", "consumed"} =>
         /\ req[w].token \in Tokens /\ req[w].password \in Passwords
         /\ issued[req[w].token] = req[w].user /\ req[w].user \in Users
    /\ req[w].pc = "consumed" => redis[req[w].token] = None

(* A token is issued once, for an account, and once used it is gone. *)
Kept ==
  \A t \in Tokens :
    /\ issued[t] # None => password[issued[t]] # None
    /\ redis[t] # None => redis[t] = issued[t]
    /\ uses[t] > 0 => issued[t] # None /\ redis[t] = None

(* Between its INSERT and its answer a registration is alone with its email. *)
Alone ==
  \A w \in Workers :
    /\ req[w].pc = "inserted" =>
         /\ password[req[w].user] = None
         /\ \A v \in Workers \ {w} : req[v].pc = "inserted" => req[v].user # req[w].user
    /\ req[w].pc = "registered" =>
         /\ password[req[w].user] # None
         /\ created[req[w].user] = 0
         /\ \A v \in Workers \ {w} : req[v].pc = "registered" => req[v].user # req[w].user

(* An account is made once and never undone. *)
Made == \A u \in Users : created[u] \in {0, 1} /\ (created[u] = 1 => password[u] # None)

Safe == TypeOK /\ Filled /\ Kept /\ Alone /\ Made /\ ConflictMeansAccount

LEMMA SafeStart == Init => Safe
<1> SUFFICES ASSUME Init PROVE Safe
  OBVIOUS
<1> USE DEF Init, Idle
<1>1. TypeOK
  BY DEF TypeOK, Request
<1>2. Filled /\ Kept /\ Alone /\ Made /\ ConflictMeansAccount
  BY DEF Filled, Kept, Alone, Made, ConflictMeansAccount
<1> QED
  BY <1>1, <1>2 DEF Safe

(* A step that touches one request at most, and no table. *)
LEMMA TablesKept ==
  ASSUME Safe, UNCHANGED <<password, issued, created, uses>>, refused' = refused,
         TypeOK', Filled', Alone', \A t \in Tokens : redis'[t] \in {redis[t], None}
  PROVE  Safe'
<1>1. Kept'
  BY DEF Safe, Kept
<1>2. Made' /\ ConflictMeansAccount'
  BY DEF Safe, Made, ConflictMeansAccount
<1> QED
  BY <1>1, <1>2 DEF Safe

LEMMA SafeStep == Safe /\ [Next]_vars => Safe'
<1> SUFFICES ASSUME Safe, [Next]_vars PROVE Safe'
  OBVIOUS
<1> USE NoneAssumption DEF TypeOK, Request, Idle
<1>1. ASSUME NEW t \in Tokens, Expire(t) PROVE Safe'
  <2>1. TypeOK'
    BY <1>1 DEF Safe, Expire
  <2>2. Filled'
    BY <1>1 DEF Safe, Filled, Expire
  <2>3. Alone'
    BY <1>1 DEF Safe, Alone, Expire
  <2> QED
    BY <1>1, <2>1, <2>2, <2>3, TablesKept DEF Safe, Expire
<1>2. ASSUME NEW w \in Workers, NEW u \in Users, NEW p \in Passwords, Register(w, u, p)
      PROVE  Safe'
  <2>1. TypeOK'
    BY <1>2 DEF Safe, Register
  <2>2. Filled'
    BY <1>2 DEF Safe, Filled, Register
  <2>3. Alone'
    BY <1>2 DEF Safe, Alone, Register
  <2> QED
    BY <1>2, <2>1, <2>2, <2>3, TablesKept DEF Safe, Register
<1>3. ASSUME NEW w \in Workers, Insert(w) PROVE Safe'
  <2>1. TypeOK'
    BY <1>3 DEF Safe, Insert
  <2>2. Filled'
    BY <1>3 DEF Safe, Filled, Insert
  <2>3. Alone'
    BY <1>3 DEF Safe, Alone, Insert, Inserting
  <2> QED
    BY <1>3, <2>1, <2>2, <2>3, TablesKept DEF Safe, Insert
<1>4. ASSUME NEW w \in Workers, NEW t \in Tokens, NEW p \in Passwords, LookUp(w, t, p)
      PROVE  Safe'
  <2>1. TypeOK'
    BY <1>4 DEF Safe, LookUp
  <2>2. Filled'
    BY <1>4 DEF Safe, Filled, Kept, LookUp
  <2>3. Alone'
    BY <1>4 DEF Safe, Alone, LookUp
  <2> QED
    BY <1>4, <2>1, <2>2, <2>3, TablesKept DEF Safe, LookUp
<1>5. ASSUME NEW w \in Workers, Consume(w) PROVE Safe'
  <2>1. TypeOK'
    BY <1>5 DEF Safe, Consume
  <2>2. Filled'
    BY <1>5 DEF Safe, Filled, Consume
  <2>3. Alone'
    BY <1>5 DEF Safe, Alone, Consume
  <2> QED
    BY <1>5, <2>1, <2>2, <2>3, TablesKept DEF Safe, Consume
<1>6. ASSUME NEW w \in Workers, Die(w) PROVE Safe'
  <2>1. TypeOK'
    BY <1>6 DEF Safe, Die
  <2>2. Filled'
    BY <1>6 DEF Safe, Filled, Die
  <2>3. Alone'
    BY <1>6 DEF Safe, Alone, Die
  <2> QED
    BY <1>6, <2>1, <2>2, <2>3, TablesKept DEF Safe, Die
<1>7. ASSUME NEW t \in Tokens, NEW u \in Users, ForgotPassword(u, t) PROVE Safe'
  <2>1. TypeOK'
    BY <1>7 DEF Safe, ForgotPassword
  <2>2. Filled'
    BY <1>7 DEF Safe, Filled, ForgotPassword
  <2>3. Kept'
    BY <1>7 DEF Safe, Kept, ForgotPassword
  <2>4. Alone'
    BY <1>7 DEF Safe, Alone, ForgotPassword
  <2>5. Made' /\ ConflictMeansAccount'
    BY <1>7 DEF Safe, Made, ConflictMeansAccount, ForgotPassword
  <2> QED
    BY <2>1, <2>2, <2>3, <2>4, <2>5 DEF Safe
<1>8. ASSUME NEW w \in Workers, Conflict(w) PROVE Safe'
  <2>1. TypeOK'
    BY <1>8 DEF Safe, Filled, Conflict
  <2>2. Filled'
    BY <1>8 DEF Safe, Filled, Conflict
  <2>3. Kept'
    BY <1>8 DEF Safe, Kept, Conflict
  <2>4. Alone'
    BY <1>8 DEF Safe, Alone, Conflict
  <2>5. Made' /\ ConflictMeansAccount'
    BY <1>8 DEF Safe, Made, ConflictMeansAccount, Conflict
  <2> QED
    BY <2>1, <2>2, <2>3, <2>4, <2>5 DEF Safe
<1>9. ASSUME NEW w \in Workers, CommitAccount(w) PROVE Safe'
  <2>1. TypeOK'
    BY <1>9 DEF Safe, CommitAccount
  <2>2. Filled'
    BY <1>9 DEF Safe, Filled, CommitAccount
  <2>3. Kept'
    BY <1>9 DEF Safe, Kept, Filled, CommitAccount
  <2>4. Alone'
    BY <1>9 DEF Safe, Filled, Alone, Made, CommitAccount
  <2>5. Made' /\ ConflictMeansAccount'
    BY <1>9 DEF Safe, Alone, Made, ConflictMeansAccount, CommitAccount
  <2> QED
    BY <2>1, <2>2, <2>3, <2>4, <2>5 DEF Safe
<1>10. ASSUME NEW w \in Workers, Registered(w) PROVE Safe'
  <2>1. TypeOK'
    BY <1>10 DEF Safe, Filled, Registered
  <2>2. Filled'
    BY <1>10 DEF Safe, Filled, Registered
  <2>3. Kept'
    BY <1>10 DEF Safe, Kept, Registered
  <2>4. Alone'
    BY <1>10 DEF Safe, Alone, Registered
  <2>5. Made' /\ ConflictMeansAccount'
    BY <1>10 DEF Safe, Alone, Made, ConflictMeansAccount, Registered
  <2> QED
    BY <2>1, <2>2, <2>3, <2>4, <2>5 DEF Safe
<1>11. ASSUME NEW w \in Workers, SavePassword(w) PROVE Safe'
  <2>1. TypeOK'
    BY <1>11 DEF Safe, Filled, SavePassword
  <2>2. Filled'
    BY <1>11 DEF Safe, Filled, SavePassword
  <2>3. Kept'
    BY <1>11 DEF Safe, Kept, Filled, SavePassword
  <2>4. Alone'
    BY <1>11 DEF Safe, Filled, Kept, Alone, SavePassword
  <2>5. Made' /\ ConflictMeansAccount'
    BY <1>11 DEF Safe, Filled, Made, ConflictMeansAccount, SavePassword
  <2> QED
    BY <2>1, <2>2, <2>3, <2>4, <2>5 DEF Safe
<1>12. ASSUME UNCHANGED vars PROVE Safe'
  BY <1>12 DEF vars, Safe, Filled, Kept, Alone, Made, ConflictMeansAccount
<1> QED
  BY <1>1, <1>2, <1>3, <1>4, <1>5, <1>6, <1>7, <1>8,
     <1>9, <1>10, <1>11, <1>12 DEF Next, Unknown

LEMMA SafeAlways == Spec => []Safe
BY SafeStart, SafeStep, PTL DEF Spec

(* What the tables hold is well typed, whatever is in flight. *)
THEOREM TypeCorrect == Spec => []TypeOK
BY SafeAlways, PTL DEF Safe

(* One registration with an email at most is answered 201. *)
THEOREM RegisteredOnce == Spec => []OneRegistrationPerEmail
<1>1. Safe => OneRegistrationPerEmail
  BY DEF Safe, Made, OneRegistrationPerEmail
<1> QED
  BY <1>1, SafeAlways, PTL

(* A 409 is never answered on account of a registration that fails. *)
THEOREM ConflictsAreTrue == Spec => []ConflictMeansAccount
BY SafeAlways, PTL DEF Safe

(* A token that has been used is gone for every later request. *)
THEOREM UsedIsGone == Spec => []GoneOnceUsed
<1>1. Safe => GoneOnceUsed
  BY DEF Safe, Kept, GoneOnceUsed
<1> QED
  BY <1>1, SafeAlways, PTL

(* Only a reset with a token of that account replaces a password. *)
THEOREM OnlyItsToken == Spec => ReplacedByItsToken
<1> DEFINE Replaced ==
      \A u \in Users :
        password[u] # None /\ password'[u] # password[u] =>
          \E t \in Tokens : issued[t] = u /\ uses'[t] = uses[t] + 1
<1>1. Safe /\ [Next]_vars => [Replaced]_vars
  <2> SUFFICES ASSUME Safe, Next, NEW u \in Users,
                      password[u] # None, password'[u] # password[u]
               PROVE  \E t \in Tokens : issued[t] = u /\ uses'[t] = uses[t] + 1
    OBVIOUS
  <2>1. ASSUME NEW w \in Workers, CommitAccount(w) PROVE FALSE
    BY <2>1 DEF CommitAccount, Safe, TypeOK, Alone
  <2>2. ASSUME NEW w \in Workers, SavePassword(w)
        PROVE  issued[req[w].token] = u /\ uses'[req[w].token] = uses[req[w].token] + 1
    BY <2>2 DEF SavePassword, Safe, TypeOK, Filled
  <2>3. \E w \in Workers : CommitAccount(w) \/ SavePassword(w)
    BY DEF Next, Expire, ForgotPassword, Register, Insert, Conflict, Registered,
           Unknown, LookUp, Consume, Die, vars
  <2>4. PICK w \in Workers : SavePassword(w)
    BY <2>1, <2>3
  <2>5. req[w].token \in Tokens
    BY <2>4 DEF SavePassword, Safe, Filled
  <2> QED
    BY <2>2, <2>4, <2>5
<1> QED
  BY <1>1, SafeAlways, PTL DEF Spec, ReplacedByItsToken

-----------------------------------------------------------------------------
(* How often one token can be used *)

Holders(t) == {w \in Workers : req[w].token = t}

(* A token that is gone is used by those who hold it, and by no others. *)
Bounded ==
  \A t \in Tokens :
    redis[t] = None => uses[t] + Cardinality(Holders(t)) <= Cardinality(Workers)

LEMMA HoldersFinite ==
  /\ Cardinality(Workers) \in Nat
  /\ \A t : /\ IsFiniteSet(Holders(t))
            /\ Cardinality(Holders(t)) \in Nat
            /\ Cardinality(Holders(t)) <= Cardinality(Workers)
BY WorkersAssumption, FS_CardinalityType, FS_Subset DEF Holders

LEMMA HoldersFinitePrime ==
  \A t : /\ IsFiniteSet(Holders(t)')
         /\ Cardinality(Holders(t)') \in Nat
         /\ Cardinality(Holders(t)') <= Cardinality(Workers)
BY WorkersAssumption, FS_CardinalityType, FS_Subset DEF Holders

(* A request that ends without success leaves the holders of its token. *)
LEMMA FewerHolders ==
  ASSUME NEW t, Holders(t)' \subseteq Holders(t)
  PROVE  Cardinality(Holders(t)') <= Cardinality(Holders(t))
BY HoldersFinite, FS_Subset

LEMMA BoundedStep == Safe /\ Bounded /\ [Next]_vars => Bounded'
<1> SUFFICES ASSUME Safe, Bounded, [Next]_vars, NEW t \in Tokens, redis'[t] = None
             PROVE  uses'[t] + Cardinality(Holders(t)') <= Cardinality(Workers)
  BY DEF Bounded
<1> USE DEF Safe, TypeOK
<1>a. uses[t] \in Nat /\ (redis[t] # None => uses[t] = 0)
  BY DEF Kept
<1>b. ASSUME uses'[t] = uses[t], redis[t] = None, Holders(t)' \subseteq Holders(t)
      PROVE  uses'[t] + Cardinality(Holders(t)') <= Cardinality(Workers)
  BY <1>a, <1>b, FewerHolders, HoldersFinite, HoldersFinitePrime DEF Bounded
<1>c. ASSUME uses'[t] = uses[t], redis[t] # None
      PROVE  uses'[t] + Cardinality(Holders(t)') <= Cardinality(Workers)
  BY <1>a, <1>c, HoldersFinite, HoldersFinitePrime
<1>1. ASSUME NEW w \in Workers, SavePassword(w)
      PROVE  uses'[t] + Cardinality(Holders(t)') <= Cardinality(Workers)
  <2>1. CASE req[w].token = t
    <3>1. redis[t] = None /\ uses'[t] = uses[t] + 1
      BY <1>1, <2>1 DEF SavePassword, Filled
    <3>2. Holders(t)' = Holders(t) \ {w} /\ w \in Holders(t)
      BY <1>1, <2>1, NoneAssumption DEF SavePassword, Holders, Idle
    <3>3. Cardinality(Holders(t)') = Cardinality(Holders(t)) - 1
      BY <3>2, HoldersFinite, FS_RemoveElement
    <3> QED
      BY <3>1, <3>3, <1>a, HoldersFinite DEF Bounded
  <2>2. CASE req[w].token # t
    <3>1. redis[t] = None /\ uses'[t] = uses[t]
      BY <1>1, <2>2 DEF SavePassword, Filled
    <3>2. Holders(t)' \subseteq Holders(t)
      BY <1>1, NoneAssumption DEF SavePassword, Holders, Idle
    <3> QED
      BY <3>1, <3>2, <1>b
  <2> QED
    BY <2>1, <2>2
<1>2. ASSUME NEW w \in Workers, NEW s \in Tokens, NEW p \in Passwords, LookUp(w, s, p)
      PROVE  uses'[t] + Cardinality(Holders(t)') <= Cardinality(Workers)
  <2>1. uses'[t] = uses[t] /\ redis'[t] = redis[t]
    BY <1>2 DEF LookUp
  <2>2. redis[t] = None => Holders(t)' \subseteq Holders(t)
    BY <1>2 DEF LookUp, Holders
  <2> QED
    BY <2>1, <2>2, <1>b
<1>3. ASSUME UNCHANGED uses, Holders(t)' \subseteq Holders(t)
      PROVE  uses'[t] + Cardinality(Holders(t)') <= Cardinality(Workers)
  BY <1>3, <1>b, <1>c
<1>4. ASSUME NEW w \in Workers,
             \/ \E u \in Users, p \in Passwords : Register(w, u, p)
             \/ Insert(w) \/ Conflict(w) \/ CommitAccount(w) \/ Registered(w)
             \/ Consume(w) \/ Die(w)
      PROVE  UNCHANGED uses /\ Holders(t)' \subseteq Holders(t)
  <2>1. UNCHANGED uses
    BY <1>4 DEF Register, Insert, Conflict, CommitAccount, Registered, Consume, Die
  <2>2. \E r : req' = [req EXCEPT ![w] = r] /\ (r.token = req[w].token \/ r.token = None)
    BY <1>4 DEF Register, Insert, Conflict, CommitAccount, Registered, Consume, Die,
                Request, Idle
  <2>3. \A v \in Workers : req'[v].token = req[v].token \/ req'[v].token = None
    BY <2>2
  <2> QED
    BY <2>1, <2>3, NoneAssumption DEF Holders
<1>5. ASSUME \/ UNCHANGED vars
             \/ \E s \in Tokens : Expire(s) \/ \E u \in Users : ForgotPassword(u, s)
             \/ \E w \in Workers, s \in Tokens : Unknown(w, s)
      PROVE  UNCHANGED uses /\ Holders(t)' \subseteq Holders(t)
  BY <1>5 DEF Expire, ForgotPassword, Unknown, Holders, vars
<1> QED
  BY <1>1, <1>2, <1>3, <1>4, <1>5 DEF Next

(* However many requests overlap, a token is used at most once by a worker. *)
THEOREM UsesAreBounded == Spec => []UsesBounded
<1>1. Init => Bounded
  <2> SUFFICES ASSUME Init, NEW t \in Tokens
               PROVE  uses[t] + Cardinality(Holders(t)) <= Cardinality(Workers)
    BY DEF Bounded
  <2> QED
    BY HoldersFinite DEF Init
<1>2. Safe /\ Bounded => UsesBounded
  <2> SUFFICES ASSUME Safe, Bounded, NEW t \in Tokens
               PROVE  uses[t] <= Cardinality(Workers)
    BY DEF UsesBounded
  <2>1. uses[t] \in Nat /\ (uses[t] > 0 => redis[t] = None)
    BY DEF Safe, TypeOK, Kept
  <2> QED
    BY <2>1, HoldersFinite DEF Bounded
<1> QED
  BY <1>1, <1>2, BoundedStep, SafeAlways, PTL DEF Spec

=============================================================================
