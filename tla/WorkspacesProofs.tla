-------------------------- MODULE WorkspacesProofs --------------------------
(* For any users, businesses, browsers and number of requests in flight: the  *)
(* variables keep their types, and the workspace a browser was last told is    *)
(* the one its requests work in.                                              *)
EXTENDS Workspaces, TLAPS

Existing == {w \in Businesses : id[w] = "business"}

LEMMA DefaultExists ==
  ASSUME TypeOK, NEW u \in Users
  PROVE  /\ Sole(u) \in Existing \cup {None}
         /\ DefaultBusiness(u) \in Existing \cup {None}
<1>1. \A w : Member(u, w) => w \in Existing
  BY DEF TypeOK, Member, Existing
<1>2. Sole(u) \in Existing \cup {None}
  <2>1. CASE \E w \in Businesses : {v \in Businesses : Member(u, v)} = {w}
    <3>1. \E w \in Businesses : Member(u, w)
      BY <2>1
    <3>2. Sole(u) = CHOOSE w \in Businesses : Member(u, w)
      BY <2>1 DEF Sole
    <3> QED
      BY <1>1, <3>1, <3>2
  <2>2. CASE ~\E w \in Businesses : {v \in Businesses : Member(u, v)} = {w}
    BY <2>2 DEF Sole
  <2> QED
    BY <2>1, <2>2
<1> QED
  BY <1>1, <1>2 DEF DefaultBusiness

LEMMA CookieType ==
  ASSUME TypeOK, NEW u \in Users, NEW cookie
  PROVE  DefaultCookie(u, cookie) \in Choice \cup {Keep}
BY DefaultExists DEF DefaultCookie, Cleared, Choice, Existing


(* Everything about the requests and the browsers that a step can disturb: a  *)
(* request has a browser and carries a user, and wherever a workspace is told, *)
(* the cookie that goes with it names the same one.                           *)
Consistent(q) ==
  /\ q \in Request
  /\ q.pc # "idle" => q.browser \in Browsers
  /\ q.pc = "sent" => q.token \in [user : Users, claim : Choice]
  /\ q.pc = "sent" /\ q.op = "scoped" /\ q.told # None => q.cookie = q.told
  /\ q.pc = "answered" /\ q.told \notin {None, Keep} => q.cookie = q.told

IInv ==
  /\ TypeOK
  /\ \A r \in Requests : Consistent(req[r])
  /\ \A b \in Browsers : told[b] # None => jar[b].cookie = told[b]

LEMMA IdleConsistent == Requests # {} /\ req \in [Requests -> Request] => Consistent(Idle)
BY DEF Idle, Request, Consistent, Choice, Operations

(* What a handler does to its request. *)
LEMMA AnswerConsistent ==
  ASSUME IInv, NEW r \in Requests, req[r].pc = "sent",
         NEW cookie \in Choice \cup {Keep}, NEW token \in Token \cup {Keep},
         NEW tells \in Choice \cup {Keep},
         tells \notin {None, Keep} => cookie = tells,
         Answer(r, cookie, token, tells) \/ NothingNew(r)
  PROVE  /\ req' \in [Requests -> Request]
         /\ \A s \in Requests : Consistent(req'[s])
<1>1. Consistent(Idle)
  BY IdleConsistent DEF IInv, TypeOK
<1> DEFINE a == [pc |-> "answered", browser |-> req[r].browser, op |-> Idle.op,
                 target |-> None, token |-> token, cookie |-> cookie, told |-> tells]
<1>2. Consistent(a)
  BY <1>1 DEF Consistent, Request, IInv, Choice
<1>3. \A s \in Requests : req'[s] \in {req[s], a, Idle} /\ Consistent(req'[s])
  BY <1>1, <1>2 DEF IInv, TypeOK, Answer, NothingNew
<1>4. req' \in [Requests -> Request]
  BY <1>1, <1>2 DEF IInv, TypeOK, Answer, NothingNew, Consistent
<1> QED
  BY <1>3, <1>4

LEMMA FinishConsistent ==
  ASSUME IInv, NEW r \in Requests, req[r].pc = "sent", NEW u \in Users,
         NEW w, NEW cookie \in Choice \cup {Keep}, NEW token \in Token \cup {Keep},
         NEW tells \in Choice \cup {Keep},
         tells \notin {None, Keep} => cookie = tells,
         Finish(r, u, w, cookie, token, tells)
  PROVE  /\ req' \in [Requests -> Request]
         /\ \A s \in Requests : Consistent(req'[s])
         /\ current' = current \/ current' = [current EXCEPT ![u] = w]
<1>1. CASE Answer(r, cookie, token, tells)
  BY <1>1, AnswerConsistent DEF Finish
<1>2. CASE Answer(r, cookie, Keep, Keep)
  BY <1>2, AnswerConsistent DEF Finish
<1> QED
  BY <1>1, <1>2 DEF Finish

(* A step that changes no business, no membership and no browser. *)
LEMMA Handled ==
  ASSUME IInv, NEW u \in Users, NEW w \in Existing \cup {None},
         current' = current \/ current' = [current EXCEPT ![u] = w],
         req' \in [Requests -> Request],
         \A s \in Requests : Consistent(req'[s]),
         UNCHANGED <<id, active, jar, told>>
  PROVE  IInv'
<1>1. TypeOK'
  BY DEF IInv, TypeOK, Existing
<1> QED
  BY <1>1 DEF IInv, Consistent

LEMMA Sender ==
  ASSUME IInv, NEW r \in Requests, req[r].pc = "sent"
  PROVE  /\ req[r].token.user \in Users
         /\ req[r].cookie \in Choice \cup {Keep}
         /\ req[r].target \in Choice
BY DEF IInv, Consistent, Request

-----------------------------------------------------------------------------
(* Each step keeps the invariant. *)

LEMMA Start == Init => IInv
<1> SUFFICES ASSUME Init PROVE IInv
  OBVIOUS
<1>1. TypeOK
  <2>1. Idle \in Request
    BY WorkspaceAssumption DEF Idle, Request, Choice, Operations
  <2> QED
    BY <2>1 DEF Init, TypeOK, Choice, Token, NoToken, Request
<1>2. \A r \in Requests : Consistent(req[r])
  BY <1>1, IdleConsistent DEF Init, TypeOK
<1> QED
  BY <1>1, <1>2 DEF Init, IInv

LEMMA SendKeeps ==
  ASSUME IInv, NEW r \in Requests, NEW b \in Browsers, NEW op \in Operations,
         NEW u \in Users, NEW w \in Choice, Send(r, b, op, u, w)
  PROVE  IInv'
<1> DEFINE q == [pc |-> "sent", browser |-> b, op |-> op, target |-> w,
                 token |-> [user |-> u,
                            claim |-> IF op = "scoped" THEN jar[b].token.claim ELSE None],
                 cookie |-> IF op \in {"switch", "create", "logout"} THEN Keep
                            ELSE jar[b].cookie,
                 told |-> IF op = "scoped" THEN told[b] ELSE Keep]
<1>1. jar[b].token.claim \in Choice /\ jar[b].cookie \in Choice /\ told[b] \in Choice
  BY DEF IInv, TypeOK, Token
<1>2. q.token \in [user : Users, claim : Choice]
  BY <1>1 DEF Choice
<1>3. Consistent(q)
  BY <1>1, <1>2 DEF IInv, Consistent, Request, Token
<1>4. req' = [req EXCEPT ![r] = q]
  BY DEF Send
<1>5. req' \in [Requests -> Request]
  BY <1>3, <1>4 DEF IInv, TypeOK, Consistent
<1>6. \A s \in Requests : Consistent(req'[s])
  BY <1>3, <1>4 DEF IInv, TypeOK
<1>7. TypeOK'
  BY <1>5 DEF IInv, TypeOK, Send
<1> QED
  BY <1>6, <1>7 DEF IInv, Send, Consistent

LEMMA ReceiveKeeps ==
  ASSUME IInv, NEW r \in Requests, Receive(r)
  PROVE  IInv'
<1> DEFINE a == req[r]
           b == a.browser
           cookie == Received(jar[b].cookie, a.cookie)
           token == Received(jar[b].token, a.token)
           now == IF a.told = Keep /\ a.cookie # Keep THEN None
                  ELSE Received(told[b], a.told)
<1>1. a \in Request /\ b \in Browsers
  BY DEF IInv, Consistent, Request, Receive
<1>2. cookie \in Choice /\ token \in Token /\ now \in Choice
  BY <1>1 DEF IInv, TypeOK, Received, Request, Choice
<1>3. now # None => cookie = now
  BY <1>1 DEF IInv, TypeOK, Received, Request, Consistent, Receive
<1>4. Consistent(Idle)
  BY IdleConsistent DEF IInv, TypeOK
<1>5. /\ jar' = [jar EXCEPT ![b] = [cookie |-> cookie, token |-> token]]
      /\ told' = [told EXCEPT ![b] = now]
      /\ req' = [req EXCEPT ![r] = Idle]
      /\ UNCHANGED <<id, active, current>>
  BY DEF Receive
<1> HIDE DEF cookie, token, now
<1>6. TypeOK'
  BY <1>1, <1>2, <1>4, <1>5 DEF IInv, TypeOK, Consistent
<1>7. \A s \in Requests : Consistent(req'[s])
  BY <1>4, <1>5 DEF IInv, TypeOK
<1>8. \A c \in Browsers : told'[c] # None => jar'[c].cookie = told'[c]
  BY <1>1, <1>3, <1>5 DEF IInv, TypeOK
<1> QED
  BY <1>6, <1>7, <1>8 DEF IInv, Consistent

LEMMA HandleKeeps ==
  ASSUME IInv, NEW r \in Requests, Handle(r)
  PROVE  IInv'
<1> DEFINE u == req[r].token.user
<1>1. req[r].pc = "sent"
  BY DEF Handle, Login, Me, Logout, SwitchBusiness, CreateBusiness, Scoped,
         ScopedFallback, Refuse, Handling
<1>2. u \in Users /\ req[r].target \in Choice
  BY <1>1, Sender
<1>3. /\ DefaultBusiness(u) \in Existing \cup {None}
      /\ Sole(u) \in Existing \cup {None}
      /\ DefaultCookie(u, req[r].cookie) \in Choice \cup {Keep}
  BY <1>2, DefaultExists, CookieType DEF IInv
<1>4. \A w \in Existing \cup {None} : w \in Choice /\ w # Keep
  BY WorkspaceAssumption DEF Existing, Choice
<1>5. \A w \in Choice : [user |-> u, claim |-> w] \in Token
  BY <1>2 DEF Token
<1>6. CASE Login(r)
  <2>1. DefaultBusiness(u) # None => DefaultCookie(u, req[r].cookie) = DefaultBusiness(u)
    BY DEF DefaultCookie
  <2> QED
    BY <1>1, <1>2, <1>3, <1>4, <1>5, <1>6, <2>1, FinishConsistent, Handled DEF Login
<1>7. CASE Me(r)
  <2>1. DefaultBusiness(u) # None => DefaultCookie(u, req[r].cookie) = DefaultBusiness(u)
    BY DEF DefaultCookie
  <2> QED
    BY <1>1, <1>2, <1>3, <1>4, <1>7, <2>1, FinishConsistent, Handled DEF Me
<1>8. CASE Logout(r)
  <2>1. NoToken \in Token /\ None \in Choice
    BY DEF NoToken, Token, Choice
  <2> QED
    BY <1>1, <1>2, <1>3, <1>8, <2>1, AnswerConsistent, Handled DEF Logout
<1>9. CASE SwitchBusiness(r)
  <2>1. req[r].target \in Existing
    BY <1>9 DEF SwitchBusiness, Member, IInv, TypeOK, Existing
  <2> QED
    BY <1>1, <1>2, <1>4, <1>5, <1>9, <2>1, FinishConsistent, Handled DEF SwitchBusiness
<1>10. ASSUME NEW w \in Businesses, CreateBusiness(r, w)
       PROVE  IInv'
  <2>1. w \in Choice
    BY DEF Choice
  <2>2. /\ req' \in [Requests -> Request]
        /\ \A s \in Requests : Consistent(req'[s])
        /\ current' = current \/ current' = [current EXCEPT ![u] = w]
    BY <1>1, <1>2, <1>5, <1>10, <2>1, FinishConsistent DEF CreateBusiness
  <2>3. TypeOK'
    <3>1. CASE current' = current
      BY <1>10, <2>2, <3>1 DEF CreateBusiness, IInv, TypeOK
    <3>2. CASE current' # current
      BY <1>2, <1>10, <2>2, <3>2 DEF CreateBusiness, IInv, TypeOK
    <3> QED
      BY <3>1, <3>2
  <2> QED
    BY <1>10, <2>2, <2>3 DEF CreateBusiness, IInv, Consistent
<1>11. CASE Scoped(r)
  BY <1>1, <1>2, <1>3, <1>11, AnswerConsistent, Handled DEF Scoped, Choice
<1>12. CASE ScopedFallback(r)
  <2>1. Resolved(req[r]) = Sole(u)
    <3> DEFINE c == Candidates(u, req[r].target, req[r].cookie, req[r].token.claim)
    <3>1. \A i \in 1..4 : ~Member(u, c[i])
      BY <1>12 DEF ScopedFallback, Falls, Candidates
    <3> QED
      BY <3>1 DEF Resolved
  <2> QED
    BY <1>1, <1>2, <1>3, <1>4, <1>12, <2>1, FinishConsistent, Handled DEF ScopedFallback
<1>13. CASE Refuse(r)
  BY <1>1, <1>2, <1>3, <1>13, AnswerConsistent, Handled DEF Refuse, Choice
<1> QED
  BY <1>6, <1>7, <1>8, <1>9, <1>10, <1>11, <1>12, <1>13 DEF Handle

LEMMA ChangeKeeps ==
  ASSUME IInv, NEW u \in Users, NEW w \in Businesses, ChangeMembership(u, w)
  PROVE  IInv'
<1>1. active' \subseteq {m \in Users \X Businesses : id'[m[2]] = "business"}
  BY DEF ChangeMembership, IInv, TypeOK
<1> QED
  BY <1>1 DEF ChangeMembership, IInv, TypeOK, Consistent

LEMMA Inductive == IInv /\ [Next]_vars => IInv'
<1> SUFFICES ASSUME IInv, [Next]_vars PROVE IInv'
  OBVIOUS
<1>1. CASE UNCHANGED vars
  BY <1>1 DEF vars, IInv, TypeOK, Consistent
<1>2. CASE Next
  <2>1. \A w \in Choice, op \in Operations, u \in Users, b \in Browsers, r \in Requests :
          Send(r, b, op, u, w) => IInv'
    BY SendKeeps
  <2> QED
    BY <1>2, <2>1, HandleKeeps, ReceiveKeeps, ChangeKeeps DEF Next
<1> QED
  BY <1>1, <1>2

-----------------------------------------------------------------------------

(* Whatever is in flight, fails or arrives late, every variable keeps its     *)
(* type; in particular a user's current business is one that was committed.   *)
THEOREM TypeCorrect == Spec => []TypeOK
<1>1. IInv => TypeOK
  BY DEF IInv
<1> QED
  BY <1>1, Start, Inductive, PTL DEF Spec

(* The request of a browser that was told a workspace carries the cookie that *)
(* names it, and the cookie is looked at before the token and the column.     *)
LEMMA CookieDecides ==
  ASSUME IInv, NEW r \in Requests, Handling(r, "scoped"), req[r].target = None,
         Member(req[r].token.user, req[r].told)
  PROVE  Resolved(req[r]) = req[r].told
<1> DEFINE u == req[r].token.user
           c == Candidates(u, req[r].target, req[r].cookie, req[r].token.claim)
           ok == {i \in 1..4 : Member(u, c[i])}
<1>1. req[r].told \in Businesses /\ ~Member(u, None)
  BY WorkspaceAssumption DEF IInv, TypeOK, Member
<1>2. req[r].cookie = req[r].told
  BY <1>1, WorkspaceAssumption DEF IInv, Consistent, Handling
<1>3. c[1] = None /\ c[2] = req[r].told
  BY <1>2 DEF Candidates
<1>4. 1 \notin ok /\ 2 \in ok
  BY <1>1, <1>3
<1>5. (CHOOSE i \in ok : \A j \in ok : i <= j) = 2
  <2>1. 2 \in ok /\ \A j \in ok : 2 <= j
    BY <1>4
  <2>2. \A i \in ok : (\A j \in ok : i <= j) => i = 2
    BY <1>4
  <2> QED
    BY <2>1, <2>2
<1> QED
  BY <1>3, <1>4, <1>5 DEF Resolved

(* For any number of users, browsers and requests in flight, what a browser   *)
(* was last told is where its requests are handled.                           *)
THEOREM LastAnswerDecides == Spec => []AnsweredWorkspaceIsUsed
<1>1. IInv => AnsweredWorkspaceIsUsed
  BY CookieDecides DEF AnsweredWorkspaceIsUsed
<1> QED
  BY <1>1, Start, Inductive, PTL DEF Spec

=============================================================================
