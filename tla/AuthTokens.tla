----------------------------- MODULE AuthTokens -----------------------------
(***************************************************************************)
(* Access tokens: the JWTs that app/auth/services.py signs, the Redis keys  *)
(* jwt_blacklist:<jti> that logout writes, and the checks login_required     *)
(* makes of both.  A token carries its expiry in whole seconds (PyJWT drops  *)
(* the fraction), Redis counts the life of a key from the moment of SETEX,   *)
(* and the clock runs in ticks, Sub of them to a second, so that requests    *)
(* fall between seconds as they do in reality.  Application and Redis read   *)
(* the same clock.  Any amount of time may pass between two steps.           *)
(***************************************************************************)
EXTENDS Integers

CONSTANTS
  Tokens,     \* jtis
  Workers,    \* worker processes, one request each
  NoToken,    \* the token of an idle worker
  Sub,        \* ticks per second
  Lifetime,   \* JWT_ACCESS_TOKEN_EXPIRES, in seconds
  Horizon     \* bound: the clock stops at this tick

ASSUME TokenAssumption == NoToken \notin Tokens

ASSUME ClockAssumption ==
  /\ Sub \in Nat \ {0}
  /\ Lifetime \in Nat \ {0}
  /\ Horizon \in Nat

VARIABLES
  now,      \* the clock, in ticks
  exp,      \* exp[t]: the exp claim of token t in seconds, 0 before it is signed
  listed,   \* listed[t]: the last tick at which the key of t exists, 0 if never set
  out,      \* out[t]: a logout with t has been answered
  req       \* req[w]: the request worker w is serving

vars == <<now, exp, listed, out, req>>

(* remaining: the TTL logout computed. *)
Request ==
  [pc : {"idle", "decoded", "in", "leaving"},
   token : Tokens \cup {NoToken},
   remaining : Nat]

Idle == [pc |-> "idle", token |-> NoToken, remaining |-> 0]

Init ==
  /\ now = 0
  /\ exp = [t \in Tokens |-> 0]
  /\ listed = [t \in Tokens |-> 0]
  /\ out = [t \in Tokens |-> FALSE]
  /\ req = [w \in Workers |-> Idle]

Tick ==
  /\ now < Horizon
  /\ now' = now + 1
  /\ UNCHANGED <<exp, listed, out, req>>

(* login, register, switch and create_business sign a token. *)
CreateAccessToken(t) ==
  /\ exp[t] = 0
  /\ exp' = [exp EXCEPT ![t] = now \div Sub + Lifetime]
  /\ UNCHANGED <<now, listed, out, req>>

(* PyJWT refuses a token once exp <= now. *)
Unexpired(t) == now < exp[t] * Sub

(* EXISTS jwt_blacklist:<jti>. *)
IsTokenBlacklisted(t) == listed[t] # 0 /\ now <= listed[t]

(* Mutant: the TTL is the exp claim less one second. *)
TtlOneShort(t) == LET left == (exp[t] * Sub - now) \div Sub - 1
                  IN  IF left < 1 THEN 1 ELSE left

(* Mutant: no lower bound on the TTL. *)
TtlUnbounded(t) == (exp[t] * Sub - now) \div Sub

(* get_token_remaining_seconds: int(exp - now), at least 1. *)
RemainingSeconds(t) ==
  LET left == (exp[t] * Sub - now) \div Sub
  IN  IF left < 1 THEN 1 ELSE left

(* login_required: decode_access_token succeeds ... *)
Decode(w, t) ==
  /\ req[w].pc = "idle"
  /\ exp[t] # 0
  /\ Unexpired(t)
  /\ req' = [req EXCEPT ![w] = [Idle EXCEPT !.pc = "decoded", !.token = t]]
  /\ UNCHANGED <<now, exp, listed, out>>

(* or it raises ExpiredSignatureError: 401 Token expired. *)
Expired(w, t) ==
  /\ req[w].pc = "idle"
  /\ exp[t] # 0
  /\ ~Unexpired(t)
  /\ UNCHANGED vars

(* ... and is_token_blacklisted does not find the token, *)
Admit(w) ==
  /\ req[w].pc = "decoded"
  /\ ~IsTokenBlacklisted(req[w].token)
  /\ req' = [req EXCEPT ![w].pc = "in"]
  /\ UNCHANGED <<now, exp, listed, out>>

(* or it does: 401 Token revoked. *)
Revoked(w) ==
  /\ req[w].pc = "decoded"
  /\ IsTokenBlacklisted(req[w].token)
  /\ req' = [req EXCEPT ![w] = Idle]
  /\ UNCHANGED <<now, exp, listed, out>>

(* logout computes the TTL of the blacklist entry ... *)
LogoutRemaining(w) ==
  /\ req[w].pc = "in"
  /\ req' = [req EXCEPT ![w].pc = "leaving",
                        ![w].remaining = RemainingSeconds(req[w].token)]
  /\ UNCHANGED <<now, exp, listed, out>>

(* ... and SETEX stores it; the response is 200. *)
BlacklistToken(w) ==
  LET t == req[w].token IN
  /\ req[w].pc = "leaving"
  /\ listed' = [listed EXCEPT ![t] = now + req[w].remaining * Sub]
  /\ out' = [out EXCEPT ![t] = TRUE]
  /\ req' = [req EXCEPT ![w] = Idle]
  /\ UNCHANGED <<now, exp>>

(* Any other request ends, or the request fails (Redis down, worker killed). *)
Finish(w) ==
  /\ req[w].pc # "idle"
  /\ req' = [req EXCEPT ![w] = Idle]
  /\ UNCHANGED <<now, exp, listed, out>>

Serve(w) ==
  \/ \E t \in Tokens : Decode(w, t) \/ Expired(w, t)
  \/ Admit(w) \/ Revoked(w)
  \/ LogoutRemaining(w) \/ BlacklistToken(w)

Next ==
  \/ Tick
  \/ \E t \in Tokens : CreateAccessToken(t)
  \/ \E w \in Workers : Serve(w) \/ Finish(w)

Spec == Init /\ [][Next]_vars

-----------------------------------------------------------------------------
(* Properties *)

TypeOK ==
  /\ now \in Nat
  /\ exp \in [Tokens -> Nat]
  /\ listed \in [Tokens -> Nat]
  /\ out \in [Tokens -> BOOLEAN]
  /\ req \in [Workers -> Request]

(* "Require a valid, non-revoked JWT" up to a second: a token that has been  *)
(* logged out is refused until the last second of its life, however logouts  *)
(* with the same token overlap and whatever time passes between computing    *)
(* the TTL and storing the entry.  In that last second it may be let through, *)
(* since the TTL was truncated.                                              *)
RevokedUntilLastSecond ==
  [][\A w \in Workers :
       req[w].pc = "decoded" /\ req'[w].pc = "in" /\ out[req[w].token] =>
         now > (exp[req[w].token] - 1) * Sub]_vars

=============================================================================
