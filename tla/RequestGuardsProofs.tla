------------------------- MODULE RequestGuardsProofs -------------------------
(* For any tokens, workers and clock: the variables of AuthTokens keep their  *)
(* types and a token that was logged out is refused until the last second of  *)
(* its life; and behind one another both guards behave as they do alone.      *)
EXTENDS RequestGuards, RbacProofs

LEMMA DivBounds ==
  ASSUME NEW a \in Int, NEW s \in Nat \ {0}
  PROVE  a \div s \in Int /\ (a \div s) * s > a - s
OBVIOUS

LEMMA TimesMonotone ==
  ASSUME NEW a \in Int, NEW b \in Int, NEW s \in Nat, a <= b
  PROVE  a * s <= b * s
OBVIOUS

LEMMA TimesPositive ==
  ASSUME NEW a \in Nat \ {0}, NEW s \in Nat \ {0}
  PROVE  a * s \in Nat \ {0}
OBVIOUS

LEMMA Chain ==
  ASSUME NEW n \in Int, NEW l \in Int, NEW r \in Int, NEW e \in Int, NEW s \in Int,
         l > e - n - s, l <= r
  PROVE  n + r > e - s
OBVIOUS

(* The first tick of the last second of token t's life. *)
LastSecond(t) == (exp[t] - 1) * Sub

(* The TTL is never more than a second short, and time that passes before     *)
(* SETEX only adds to it.                                                     *)
TokenInv ==
  /\ TypeOK
  /\ \A w \in Workers : IF req[w].pc = "idle" THEN req[w] = Idle
                                               ELSE req[w].token \in Tokens
  /\ \A w \in Workers :
       req[w].pc = "leaving" =>
         /\ req[w].remaining # 0
         /\ now + req[w].remaining * Sub > LastSecond(req[w].token)
         /\ exp[req[w].token] # 0
  /\ \A w \in Workers : req[w].pc # "idle" => exp[req[w].token] # 0
  /\ \A t \in Tokens :
       out[t] => exp[t] # 0 /\ listed[t] # 0 /\ listed[t] > LastSecond(t)

LEMMA RemainingBounds ==
  ASSUME TypeOK, NEW t \in Tokens
  PROVE  /\ RemainingSeconds(t) \in Nat \ {0}
         /\ now + RemainingSeconds(t) * Sub > LastSecond(t)
<1> DEFINE left == (exp[t] * Sub - now) \div Sub
<1>1. Sub \in Nat \ {0} /\ exp[t] \in Nat /\ now \in Nat
  BY ClockAssumption DEF TypeOK
<1>2. exp[t] * Sub \in Nat /\ (exp[t] - 1) * Sub = exp[t] * Sub - Sub
  BY <1>1
<1>3. left \in Int /\ left * Sub > exp[t] * Sub - now - Sub
  <2> DEFINE a == exp[t] * Sub - now
  <2>1. a \in Int
    BY <1>1, <1>2
  <2> HIDE DEF a
  <2>2. a \div Sub \in Int /\ (a \div Sub) * Sub > a - Sub
    BY <1>1, <2>1, DivBounds
  <2> QED
    BY <2>2 DEF a
<1> HIDE DEF left
<1>4. RemainingSeconds(t) = IF left < 1 THEN 1 ELSE left
  BY DEF RemainingSeconds, left
<1>5. RemainingSeconds(t) \in Nat \ {0} /\ left <= RemainingSeconds(t)
  BY <1>3, <1>4
<1>6. left * Sub <= RemainingSeconds(t) * Sub
  BY <1>1, <1>3, <1>5, TimesMonotone
<1>7. left * Sub \in Int /\ RemainingSeconds(t) * Sub \in Int
  BY <1>1, <1>3, <1>5
<1>8. now + RemainingSeconds(t) * Sub > exp[t] * Sub - Sub
  <2> DEFINE l == left * Sub
             r == RemainingSeconds(t) * Sub
             e == exp[t] * Sub
  <2>1. /\ now \in Int /\ l \in Int /\ r \in Int /\ e \in Int /\ Sub \in Int
        /\ l > e - now - Sub /\ l <= r
    BY <1>1, <1>2, <1>3, <1>6, <1>7
  <2> HIDE DEF l, r, e
  <2>2. now + r > e - Sub
    BY <2>1, Chain
  <2> QED
    BY <2>2 DEF r, e
<1>9. LastSecond(t) = exp[t] * Sub - Sub
  BY <1>2 DEF LastSecond
<1> QED
  BY <1>5, <1>8, <1>9

LEMMA IdleType == Idle \in Request
BY DEF Idle, Request

LEMMA TokensStart == Init => TokenInv
BY IdleType DEF Init, TokenInv, TypeOK, Idle

LEMMA TickKeeps == ASSUME TokenInv, Tick PROVE TokenInv'
<1>1. now \in Nat /\ now' = now + 1 /\ UNCHANGED <<exp, listed, out, req>>
  BY DEF Tick, TokenInv, TypeOK
<1>2. ASSUME NEW w \in Workers, req[w].pc = "leaving"
      PROVE  now' + req[w].remaining * Sub > LastSecond(req[w].token)
  <2>1. /\ now + req[w].remaining * Sub > LastSecond(req[w].token)
        /\ req[w].token \in Tokens
        /\ req[w].remaining \in Nat
    BY <1>2 DEF TokenInv, TypeOK, Request
  <2>2. req[w].remaining * Sub \in Int /\ LastSecond(req[w].token) \in Int
    BY <2>1, ClockAssumption DEF LastSecond, TokenInv, TypeOK
  <2> QED
    BY <1>1, <2>1, <2>2
<1> QED
  BY <1>1, <1>2 DEF TokenInv, TypeOK, LastSecond

LEMMA CreateKeeps ==
  ASSUME TokenInv, NEW t \in Tokens, CreateAccessToken(t)
  PROVE  TokenInv'
<1>1. /\ exp[t] = 0 /\ UNCHANGED <<now, listed, out, req>>
      /\ exp' = [exp EXCEPT ![t] = now \div Sub + Lifetime]
  BY DEF CreateAccessToken
<1>2. now \div Sub + Lifetime \in Nat
  BY ClockAssumption DEF TokenInv, TypeOK
<1>3. exp' \in [Tokens -> Nat]
  BY <1>1, <1>2 DEF TokenInv, TypeOK
<1>4. \A u \in Tokens : u # t => exp'[u] = exp[u] /\ LastSecond(u)' = LastSecond(u)
  BY <1>1 DEF TokenInv, TypeOK, LastSecond
<1>5. ~out[t] /\ \A w \in Workers : req[w].pc # "idle" => req[w].token # t
  BY <1>1 DEF TokenInv
<1> QED
  BY <1>1, <1>3, <1>4, <1>5 DEF TokenInv, TypeOK

(* A step that changes only the request of one worker. *)
LEMMA RequestKeeps ==
  ASSUME TokenInv, NEW w \in Workers, NEW q \in Request,
         req' = [req EXCEPT ![w] = q],
         UNCHANGED <<now, exp, listed, out>>,
         IF q.pc = "idle" THEN q = Idle ELSE q.token \in Tokens /\ exp[q.token] # 0,
         q.pc = "leaving" =>
           q.remaining # 0 /\ now + q.remaining * Sub > LastSecond(q.token)
  PROVE  TokenInv'
<1>1. req' \in [Workers -> Request] /\ \A v \in Workers : req'[v] = IF v = w THEN q ELSE req[v]
  BY DEF TokenInv, TypeOK
<1>2. \A t : LastSecond(t)' = LastSecond(t)
  BY DEF LastSecond
<1> QED
  BY <1>1, <1>2 DEF TokenInv, TypeOK

LEMMA FinishKeeps == ASSUME TokenInv, NEW w \in Workers, Finish(w) PROVE TokenInv'
BY IdleType, RequestKeeps DEF Finish, Idle

LEMMA DecodeKeeps ==
  ASSUME TokenInv, NEW w \in Workers, NEW t \in Tokens, Decode(w, t)
  PROVE  TokenInv'
<1> DEFINE q == [Idle EXCEPT !.pc = "decoded", !.token = t]
<1>1. q \in Request /\ q.pc = "decoded" /\ q.token = t
  BY DEF Idle, Request
<1> HIDE DEF q
<1>2. req' = [req EXCEPT ![w] = q] /\ exp[t] # 0 /\ UNCHANGED <<now, exp, listed, out>>
  BY DEF Decode, q
<1> QED
  BY <1>1, <1>2, RequestKeeps

LEMMA AdmitKeeps == ASSUME TokenInv, NEW w \in Workers, Admit(w) PROVE TokenInv'
<1> DEFINE q == [req[w] EXCEPT !.pc = "in"]
<1>1. q \in Request /\ q.pc = "in" /\ q.token = req[w].token
  BY DEF TokenInv, TypeOK, Request
<1>2. req[w].token \in Tokens /\ exp[req[w].token] # 0
  BY DEF TokenInv, Admit
<1> HIDE DEF q
<1>3. req' = [req EXCEPT ![w] = q] /\ UNCHANGED <<now, exp, listed, out>>
  BY DEF Admit, q
<1> QED
  BY <1>1, <1>2, <1>3, RequestKeeps

LEMMA RevokedKeeps == ASSUME TokenInv, NEW w \in Workers, Revoked(w) PROVE TokenInv'
BY IdleType, RequestKeeps DEF Revoked, Idle

LEMMA LogoutKeeps == ASSUME TokenInv, NEW w \in Workers, LogoutRemaining(w) PROVE TokenInv'
<1> DEFINE t == req[w].token
           q == [req[w] EXCEPT !.pc = "leaving", !.remaining = RemainingSeconds(t)]
<1>1. t \in Tokens /\ exp[t] # 0 /\ req[w] \in Request
  BY DEF TokenInv, TypeOK, LogoutRemaining
<1>2. RemainingSeconds(t) \in Nat \ {0} /\ now + RemainingSeconds(t) * Sub > LastSecond(t)
  BY <1>1, RemainingBounds DEF TokenInv
<1>3. q \in Request /\ q.pc = "leaving" /\ q.token = t /\ q.remaining = RemainingSeconds(t)
  BY <1>1, <1>2 DEF Request
<1>4. req' = [req EXCEPT ![w] = q] /\ UNCHANGED <<now, exp, listed, out>>
  BY DEF LogoutRemaining
<1> HIDE DEF q
<1> QED
  BY <1>1, <1>2, <1>3, <1>4, RequestKeeps

LEMMA BlacklistKeeps == ASSUME TokenInv, NEW w \in Workers, BlacklistToken(w) PROVE TokenInv'
<1> DEFINE t == req[w].token
           until == now + req[w].remaining * Sub
<1>1. t \in Tokens /\ exp[t] # 0 /\ until > LastSecond(t)
  BY DEF TokenInv, BlacklistToken
<1>2. req[w].remaining \in Nat \ {0} /\ now \in Nat
  BY DEF TokenInv, TypeOK, Request, BlacklistToken
<1>3. until \in Nat \ {0}
  BY <1>2, ClockAssumption, TimesPositive
<1>4. /\ listed' = [listed EXCEPT ![t] = until]
      /\ out' = [out EXCEPT ![t] = TRUE]
      /\ req' = [req EXCEPT ![w] = Idle]
      /\ UNCHANGED <<now, exp>>
  BY DEF BlacklistToken
<1> HIDE DEF until
<1>5. /\ \A u \in Tokens : listed'[u] = IF u = t THEN until ELSE listed[u]
      /\ \A u \in Tokens : out'[u] = IF u = t THEN TRUE ELSE out[u]
      /\ \A v \in Workers : req'[v] = IF v = w THEN Idle ELSE req[v]
  BY <1>1, <1>4 DEF TokenInv, TypeOK
<1>6. TypeOK'
  BY <1>1, <1>3, <1>4, IdleType DEF TokenInv, TypeOK
<1>7. \A u : LastSecond(u)' = LastSecond(u)
  BY <1>4 DEF LastSecond
<1>8. Idle.pc = "idle"
  BY DEF Idle
<1>9. \A v \in Workers : req'[v].pc # "idle" => req'[v] = req[v] /\ req[v].pc # "idle"
  BY <1>5, <1>8
<1> QED
  BY <1>1, <1>3, <1>4, <1>5, <1>6, <1>7, <1>9 DEF TokenInv

LEMMA TokensKeep == TokenInv /\ [Next]_vars => TokenInv'
<1> SUFFICES ASSUME TokenInv, [Next]_vars PROVE TokenInv'
  OBVIOUS
<1>1. UNCHANGED vars => TokenInv'
  BY DEF vars, TokenInv, TypeOK, LastSecond
<1>2. ASSUME NEW w \in Workers, Serve(w) PROVE TokenInv'
  BY <1>1, <1>2, DecodeKeeps, AdmitKeeps, RevokedKeeps, LogoutKeeps, BlacklistKeeps
     DEF Serve, Expired
<1> QED
  BY <1>1, <1>2, TickKeeps, CreateKeeps, FinishKeeps DEF Next

(* The types of AuthTokens, for any tokens, workers and lifetime. *)
THEOREM TokensTypeCorrect == Spec => []TypeOK
<1>1. TokenInv => TypeOK
  BY DEF TokenInv
<1> QED
  BY <1>1, TokensStart, TokensKeep, PTL DEF Spec

(* A token that has been logged out is not on the list at the moment it is    *)
(* looked up only if its entry has expired, and its entry outlives all but    *)
(* its last second.                                                           *)
LEMMA AdmittedLate ==
  ASSUME TokenInv, [Next]_vars, NEW w \in Workers,
         req[w].pc = "decoded", req'[w].pc = "in", out[req[w].token]
  PROVE  now > LastSecond(req[w].token)
<1>1. Admit(w)
  <2>1. req'[w] # req[w] /\ req[w].pc # "idle"
    OBVIOUS
  <2>2. PICK v \in Workers : Serve(v) \/ Finish(v)
    BY <2>1 DEF Next, vars, Tick, CreateAccessToken
  <2>3. req \in [Workers -> Request] /\ Idle.pc = "idle"
    BY DEF Idle, TokenInv, TypeOK
  <2>4. PICK q : req' = [req EXCEPT ![v] = q]
    BY <2>1, <2>2 DEF Serve, Finish, Decode, Expired, Admit, Revoked, LogoutRemaining,
                      BlacklistToken, vars
  <2>5. v = w
    BY <2>1, <2>3, <2>4
  <2>6. req'[w] # Idle
    BY <2>3
  <2>7. ~Finish(w) /\ ~Revoked(w) /\ ~BlacklistToken(w)
    BY <2>3, <2>6 DEF Finish, Revoked, BlacklistToken
  <2>8. ~LogoutRemaining(w) /\ \A t \in Tokens : ~Decode(w, t) /\ ~Expired(w, t)
    BY <2>1 DEF LogoutRemaining, Decode, Expired
  <2> QED
    BY <2>2, <2>5, <2>7, <2>8 DEF Serve
<1> DEFINE t == req[w].token
<1>2. t \in Tokens /\ listed[t] # 0 /\ listed[t] > LastSecond(t)
  BY DEF TokenInv
<1>3. ~(now <= listed[t])
  BY <1>1, <1>2 DEF Admit, IsTokenBlacklisted
<1>4. now \in Int /\ listed[t] \in Int /\ LastSecond(t) \in Int
  BY <1>2, ClockAssumption DEF TokenInv, TypeOK, LastSecond
<1> QED
  BY <1>2, <1>3, <1>4

(* Whatever logouts overlap, for any lifetime and any resolution of the clock. *)
THEOREM Refused == Spec => RevokedUntilLastSecond
<1>1. TokenInv /\ [Next]_vars =>
        [\A w \in Workers :
           req[w].pc = "decoded" /\ req'[w].pc = "in" /\ out[req[w].token] =>
             now > (exp[req[w].token] - 1) * Sub]_vars
  BY AdmittedLate DEF LastSecond
<1> QED
  BY <1>1, TokensStart, TokensKeep, PTL DEF Spec, RevokedUntilLastSecond

-----------------------------------------------------------------------------
(* The composition *)

LEMMA GuardsStart == GuardsInit => Init /\ RbacInit
BY DEF GuardsInit

(* A death ends the request, if there is one, and is a death in Rbac. *)
LEMMA GuardsStep ==
  TokenInv /\ [GuardsNext]_guardVars =>
    [Next]_vars /\ [RbacNext]_rbacVars
<1> SUFFICES ASSUME TokenInv, [GuardsNext]_guardVars
             PROVE  [Next]_vars /\ [RbacNext]_rbacVars
  OBVIOUS
<1>1. CASE UNCHANGED guardVars
  BY <1>1 DEF guardVars
<1>2. CASE (Tick \/ \E t \in Tokens : CreateAccessToken(t)) /\ OnlyTokens
  BY <1>2 DEF Next, OnlyTokens
<1>3. ASSUME NEW w \in Workers, Serve(w) /\ OnlyTokens
      PROVE  [Next]_vars /\ [RbacNext]_rbacVars
  BY <1>3 DEF Next, OnlyTokens
<1>4. ASSUME NEW w \in Workers, PermissionRequired(w)
      PROVE  [Next]_vars /\ [RbacNext]_rbacVars
  BY <1>4, WorkersAreProcesses DEF PermissionRequired, RbacNext
<1>5. ASSUME NEW w \in Workers, End(w)
      PROVE  [Next]_vars /\ [RbacNext]_rbacVars
  BY <1>5, WorkersAreProcesses DEF End, Next, RbacNext, OnlyTokens
<1>6. ASSUME NEW p \in Processes, Boot(p), UNCHANGED vars
      PROVE  [Next]_vars /\ [RbacNext]_rbacVars
  BY <1>6 DEF RbacNext
<1>7. ASSUME NEW p \in Processes, ProcessDies(p)
      PROVE  [Next]_vars /\ [RbacNext]_rbacVars
  <2>1. RbacNext
    BY <1>7 DEF ProcessDies, RbacNext
  <2>2. req = [w \in Workers |-> req[w]]
    BY DEF TokenInv, TypeOK
  <2>3. CASE p \in Workers /\ req[p].pc # "idle"
    <3>1. req' = [req EXCEPT ![p] = Idle]
      BY <1>7, <2>2, <2>3 DEF ProcessDies
    <3> QED
      BY <1>7, <2>1, <2>3, <3>1 DEF ProcessDies, Finish, Next
  <2>4. CASE ~(p \in Workers /\ req[p].pc # "idle")
    <3>1. req' = req
      BY <1>7, <2>2, <2>4 DEF ProcessDies, TokenInv
    <3> QED
      BY <1>7, <2>1, <3>1 DEF ProcessDies, vars
  <2> QED
    BY <2>3, <2>4
<1> QED
  BY <1>1, <1>2, <1>3, <1>4, <1>5, <1>6, <1>7 DEF GuardsNext

(* A worker that checks the token, then the permission, and may be killed at  *)
(* any point is to each guard a worker of that guard's own specification: what *)
(* is proved of either alone holds of both together.                          *)
THEOREM GuardsCompose == GuardsSpec => Spec /\ RbacSpec
<1>1. GuardsInit => TokenInv
  BY GuardsStart, TokensStart
<1>2. TokenInv /\ [GuardsNext]_guardVars => TokenInv'
  BY GuardsStep, TokensKeep
<1> QED
  BY <1>1, <1>2, GuardsStart, GuardsStep, PTL DEF GuardsSpec, Spec, RbacSpec

(* The composition keeps the types of both: a killed worker leaves neither a   *)
(* half-made request nor a half-made cache of an impossible shape.             *)
THEOREM GuardsTyped == GuardsSpec => []GuardsTypeOK
<1>1. TypeOK /\ RbacTypeOK => GuardsTypeOK
  BY DEF GuardsTypeOK
<1> QED
  BY <1>1, GuardsCompose, TokensTypeCorrect, TypeCorrect, PTL

(* In that composition too the token is refused. *)
THEOREM GuardsRefuse == GuardsSpec => RevokedUntilLastSecond
BY GuardsCompose, Refused, PTL

(* And in it, though requests end and workers die while they fill it, the      *)
(* cache is what was granted.                                                  *)
THEOREM GuardsCacheGranted == GuardsSpec => []CachedAsGranted
BY GuardsCompose, CacheIsGranted, PTL

=============================================================================
