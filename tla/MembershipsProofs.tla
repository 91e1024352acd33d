------------------------- MODULE MembershipsProofs -------------------------
(***************************************************************************)
(* Theorems about Memberships, for every number of users, businesses and    *)
(* worker processes and every set of role and status inputs.                *)
(***************************************************************************)
EXTENDS Memberships, FiniteSetTheorems, TLAPS

(* What a request is made of at each point: an idle worker holds nothing, a  *)
(* request in progress has its user, and one that knows its workspace or     *)
(* assigns a row has a real business and a real target.                      *)
Framed(r) ==
  /\ r.pc = "idle" => r = Idle
  /\ r.pc # "idle" => r.actor \in Users
  /\ r.pc = "scoped" => r.biz \in Businesses
  /\ r.dirty # {} => r.pc = "checked" /\ r.biz \in Businesses /\ r.target \in Users

TypeInv == TypeOK /\ \A w \in Workers : Framed(req[w])

-----------------------------------------------------------------------------
LEMMA IdleIsRequest == Idle \in Request
BY DEF Idle, Request, Absent, Row, Columns

(* What LoadUser, the resolvers and the handlers all do: replace the request  *)
(* of one worker, and leave the tables alone.                                 *)
LEMMA StepOfOneRequest ==
  ASSUME TypeInv, NEW w \in Workers, NEW r \in Request, Framed(r),
         req' = [req EXCEPT ![w] = r], UNCHANGED <<member, current>>
  PROVE  TypeInv'
BY DEF TypeInv, TypeOK

LEMMA PatchedRow ==
  ASSUME NEW row \in Row, NEW role \in RoleInputs \cup {Keep},
         NEW status \in StatusInputs \cup {Keep}, status # Bogus
  PROVE  /\ WithRole(row, role) \in Row
         /\ status # Keep => 
              [WithRole(row, role) EXCEPT !.status = status,
                                          !.joined = @ \/ status = "active"] \in Row
BY InputAssumption DEF WithRole, Row, Keep, Bogus, RoleKeys, Statuses

LEMMA ResolveTyped ==
  ASSUME TypeInv, NEW w \in Workers, NEW b \in Businesses,
         ResolveNamed(w, b) \/ ResolveSole(w, b)
  PROVE  TypeInv'
<1>1. req[w] \in Request /\ Framed(req[w])
  BY DEF TypeInv, TypeOK
<1>2. req[w].pc = "user" /\ req[w].actor \in Users /\ member[b][req[w].actor] \in Row
  BY <1>1 DEF ResolveNamed, ResolveSole, Framed, TypeInv, TypeOK
<1>3. req[w].dirty = {}
  BY <1>1, <1>2 DEF Framed
<1>4. CASE ResolveNamed(w, b)
  <2> DEFINE r == [req[w] EXCEPT !.pc = "scoped", !.biz = b,
                                 !.me = member[b][req[w].actor]]
  <2>1. r \in Request
    BY <1>1, <1>2 DEF Request
  <2>2. Framed(r)
    BY <1>1, <1>2, <1>3 DEF Framed, Request
  <2> QED
    BY <1>4, <2>1, <2>2, StepOfOneRequest DEF ResolveNamed
<1>5. CASE ResolveSole(w, b)
  <2> DEFINE r == [req[w] EXCEPT !.pc = "scoped", !.biz = b,
                                 !.me = member[b][req[w].actor],
                                 !.curDirty = TRUE, !.curRead = TRUE, !.curNew = b]
  <2>1. r \in Request
    BY <1>1, <1>2 DEF Request
  <2>2. Framed(r)
    BY <1>1, <1>2, <1>3 DEF Framed, Request
  <2> QED
    BY <1>5, <2>1, <2>2, StepOfOneRequest DEF ResolveSole
<1> QED
  BY <1>4, <1>5

LEMMA UnscopedTyped ==
  ASSUME TypeInv, NEW w \in Workers,
         \/ \E u \in Users : LoadUser(w, u)
         \/ \E b \in Businesses : Switch(w, b)
         \/ EnsureDefault(w)
         \/ Accept(w)
  PROVE  TypeInv'
<1>1. req[w] \in Request /\ Framed(req[w])
  BY DEF TypeInv, TypeOK
<1>2. ASSUME NEW u \in Users, LoadUser(w, u)
      PROVE  TypeInv'
  <2> DEFINE r == [Idle EXCEPT !.pc = "user", !.actor = u, !.cur = current[u]]
  <2>1. r \in Request /\ Framed(r)
    BY IdleIsRequest DEF Request, Framed, Idle, TypeInv, TypeOK
  <2> QED
    BY <1>2, <2>1, StepOfOneRequest DEF LoadUser
<1>3. ASSUME NEW b \in Businesses, Switch(w, b)
      PROVE  TypeInv'
  <2> DEFINE r == [req[w] EXCEPT !.pc = "checked", !.op = "switch",
                                 !.curDirty = TRUE, !.curNew = b]
  <2>1. r \in Request /\ Framed(r)
    BY <1>1, <1>3 DEF Request, Framed, Switch
  <2> QED
    BY <1>3, <2>1, StepOfOneRequest DEF Switch
<1>4. CASE EnsureDefault(w)
  <2> DEFINE r == [req[w] EXCEPT !.pc = "checked", !.op = "default",
                                 !.curDirty = TRUE, !.curRead = TRUE,
                                 !.curNew = SoleBusiness(req[w].actor)]
  <2>1. SoleBusiness(req[w].actor) \in Businesses \cup {NoBusiness}
    BY DEF SoleBusiness
  <2>2. r \in Request /\ Framed(r)
    BY <1>1, <1>4, <2>1 DEF Request, Framed, EnsureDefault
  <2> QED
    BY <1>4, <2>2, StepOfOneRequest DEF EnsureDefault
<1>5. CASE Accept(w)
  <2> DEFINE row == member[req[w].cur][req[w].actor]
             r == [req[w] EXCEPT !.pc = "checked", !.op = "accept",
                                 !.biz = req[w].cur, !.target = req[w].actor,
                                 !.old = row,
                                 !.new = [row EXCEPT !.status = "active",
                                                     !.joined = TRUE],
                                 !.dirty = {"status", "joined"},
                                 !.read = {"status", "joined"}]
  <2>1. req[w].cur \in Businesses /\ req[w].actor \in Users
    BY <1>1, <1>5 DEF Request, Framed, Accept
  <2>2. row \in Row
    BY <2>1 DEF TypeInv, TypeOK
  <2>3. [row EXCEPT !.status = "active", !.joined = TRUE] \in Row
    BY <2>2 DEF Row, Statuses
  <2> HIDE DEF row
  <2>4. r \in Request /\ Framed(r)
    BY <1>1, <2>1, <2>2, <2>3 DEF Request, Framed, Columns
  <2> QED
    BY <1>5, <2>4, StepOfOneRequest DEF Accept, row
<1> QED
  BY <1>2, <1>3, <1>4, <1>5

(* The member-management handlers: a scoped request prepares one row. *)
LEMMA PrepareTyped ==
  ASSUME TypeInv, NEW w \in Workers, req[w].pc = "scoped",
         NEW op \in {"invite", "update", "remove"}, NEW t \in Users,
         NEW old \in Row, NEW new \in Row,
         NEW dirty \in SUBSET Columns, NEW read \in SUBSET Columns,
         NEW reply \in {"ok", "refused"},
         Prepare(w, op, t, old, new, dirty, read, reply)
  PROVE  TypeInv'
<1> DEFINE r == [req[w] EXCEPT !.pc = "checked", !.op = op, !.target = t,
                               !.old = old, !.new = new, !.dirty = dirty,
                               !.read = read, !.reply = reply]
<1>1. req[w] \in Request /\ Framed(req[w])
  BY DEF TypeInv, TypeOK
<1>2. r \in Request /\ Framed(r)
  BY <1>1 DEF Request, Framed
<1> QED
  BY <1>2, StepOfOneRequest DEF Prepare

LEMMA LoadedRow ==
  ASSUME TypeInv, NEW w \in Workers, Managing(w), NEW t \in Users
  PROVE  Loaded(w, t) \in Row /\ member[req[w].biz][t] \in Row
BY DEF TypeInv, TypeOK, Request, Framed, Managing, Loaded

LEMMA ManageTyped ==
  ASSUME TypeInv, NEW w \in Workers, NEW t \in Users, Manage(w, t)
  PROVE  TypeInv'
<1>1. ASSUME NEW role \in RoleInputs, Invite(w, t, role)
      PROVE  TypeInv'
  <2> DEFINE row == member[req[w].biz][t]
  <2>1. row \in Row /\ req[w].pc = "scoped"
    BY <1>1, LoadedRow DEF Invite, Managing
  <2>2. [row EXCEPT !.role = role, !.status = "invited"] \in Row
    BY <2>1, InputAssumption DEF Row, Statuses
  <2>3. {"role", "status"} \in SUBSET Columns /\ {"status"} \in SUBSET Columns
    BY DEF Columns
  <2> QED
    BY <1>1, <2>1, <2>2, <2>3, PrepareTyped DEF Invite
<1>2. ASSUME NEW role \in RoleInputs \cup {Keep},
             NEW status \in StatusInputs \cup {Keep},
             PatchReads(w, t, Loaded(w, t), role, status) \in SUBSET Columns,
             \/ UpdateMember(w, t, role, status)
             \/ UpdateMemberHalf(w, t, role, status)
      PROVE  TypeInv'
  <2> DEFINE row == Loaded(w, t)
             taken == WithRole(row, role)
             set == [taken EXCEPT !.status = status,
                                  !.joined = @ \/ status = "active"]
             dirty == (IF role # Keep THEN {"role"} ELSE {})
                      \cup (IF status # Keep THEN {"status"} ELSE {})
                      \cup (IF status = "active" THEN {"joined"} ELSE {})
  <2>1. row \in Row /\ req[w].pc = "scoped"
    BY <1>2, LoadedRow DEF UpdateMember, UpdateMemberHalf, Managing
  <2>2. CASE UpdateMember(w, t, role, status)
    <3>1. taken \in Row /\ (status # Keep => set \in Row)
      BY <2>1, <2>2, PatchedRow DEF UpdateMember
    <3>2. dirty \in SUBSET Columns
      BY DEF Columns
    <3>3. (IF status = Keep THEN taken ELSE set) \in Row
      BY <3>1
    <3>4. Prepare(w, "update", t, row, IF status = Keep THEN taken ELSE set,
                  dirty, PatchReads(w, t, row, role, status), "ok")
      BY <2>2 DEF UpdateMember
    <3> HIDE DEF row, taken, set, dirty
    <3> QED
      BY <1>2, <2>1, <3>2, <3>3, <3>4, PrepareTyped DEF row
  <2>3. CASE UpdateMemberHalf(w, t, role, status)
    <3>1. taken \in Row
      BY <2>1, InputAssumption DEF WithRole, Row
    <3>2. {"role"} \in SUBSET Columns
      BY DEF Columns
    <3>3. Prepare(w, "update", t, row, taken, {"role"},
                  PatchReads(w, t, row, role, status), "refused")
      BY <2>3 DEF UpdateMemberHalf
    <3> HIDE DEF row, taken
    <3> QED
      BY <1>2, <2>1, <3>1, <3>2, <3>3, PrepareTyped DEF row
  <2> QED
    BY <1>2, <2>2, <2>3
<1>3. ASSUME NEW role, NEW status
      PROVE  PatchReads(w, t, Loaded(w, t), role, status) \in SUBSET Columns
  BY DEF PatchReads, Columns
<1>4. ASSUME RemoveMember(w, t)
      PROVE  TypeInv'
  <2> DEFINE row == Loaded(w, t)
             read == IF row.role = "owner" THEN {"role", "status"} ELSE {"role"}
  <2>1. row \in Row /\ req[w].pc = "scoped"
    BY <1>4, LoadedRow DEF RemoveMember, Managing
  <2>2. [row EXCEPT !.status = "removed"] \in Row
    BY <2>1 DEF Row, Statuses
  <2>3. {"status"} \in SUBSET Columns /\ read \in SUBSET Columns
    BY DEF Columns
  <2>4. Prepare(w, "remove", t, row, [row EXCEPT !.status = "removed"],
                {"status"}, read, "ok")
    BY <1>4 DEF RemoveMember
  <2> HIDE DEF row, read
  <2> QED
    BY <2>1, <2>2, <2>3, <2>4, PrepareTyped
<1> QED
  BY <1>1, <1>2, <1>3, <1>4 DEF Manage

(* The steps that end a request. *)
LEMMA EndTyped ==
  ASSUME TypeInv, NEW w \in Workers,
         \/ \E b \in Businesses : CreateBusiness(w, b)
         \/ Commit(w)
         \/ Rollback(w)
  PROVE  TypeInv'
<1>1. req[w] \in Request /\ Framed(req[w])
  BY DEF TypeInv, TypeOK
<1>2. Framed(Idle)
  BY DEF Framed, Idle
<1>3. /\ req' \in [Workers -> Request]
      /\ \A v \in Workers : Framed(req'[v])
  BY <1>2, IdleIsRequest DEF TypeInv, TypeOK, CreateBusiness, Commit, Rollback
<1>4. ASSUME NEW b \in Businesses, CreateBusiness(w, b)
      PROVE  TypeOK'
  <2>1. Founder \in Row
    BY DEF Founder, Row, RoleKeys, Statuses
  <2>2. req[w].actor \in Users
    BY <1>1, <1>4 DEF CreateBusiness, Framed
  <2> QED
    BY <1>3, <1>4, <2>1, <2>2 DEF TypeInv, TypeOK, CreateBusiness
<1>5. CASE Commit(w)
  <2> DEFINE r == req[w]
  <2>1. member' \in [Businesses -> [Users -> Row]]
    <3>1. CASE r.dirty = {}
      BY <1>5, <3>1 DEF Commit, TypeInv, TypeOK
    <3>2. CASE r.dirty # {}
      <4>1. r.biz \in Businesses /\ r.target \in Users /\ r.new \in Row
        BY <1>1, <3>2 DEF Framed, Request
      <4>2. member[r.biz][r.target] \in Row
        BY <4>1 DEF TypeInv, TypeOK
      <4>3. Applied(r.dirty, r.new, member[r.biz][r.target]) \in Row
        BY <4>1, <4>2 DEF Applied, Row
      <4>4. member' = [member EXCEPT ![r.biz][r.target] =
                         Applied(r.dirty, r.new, member[r.biz][r.target])]
        BY <1>5, <3>2, <4>1 DEF Commit, TypeInv, TypeOK
      <4> QED
        BY <4>1, <4>3, <4>4 DEF TypeInv, TypeOK
    <3> QED
      BY <3>1, <3>2
  <2>2. current' \in [Users -> Businesses \cup {NoBusiness}]
    BY <1>1, <1>5 DEF Commit, TypeInv, TypeOK, Request
  <2> QED
    BY <1>3, <2>1, <2>2 DEF TypeInv, TypeOK
<1>6. CASE Rollback(w)
  BY <1>3, <1>6 DEF Rollback, TypeInv, TypeOK
<1> QED
  BY <1>3, <1>4, <1>5, <1>6 DEF TypeInv

LEMMA TypeStep == TypeInv /\ [Next]_vars => TypeInv'
<1> SUFFICES ASSUME TypeInv, [Next]_vars
             PROVE  TypeInv'
  OBVIOUS
<1>1. CASE UNCHANGED vars
  BY <1>1 DEF TypeInv, TypeOK, vars
<1>2. ASSUME NEW w \in Workers,
             \/ \E u \in Users : LoadUser(w, u)
             \/ \E b \in Businesses : ResolveNamed(w, b)
             \/ \E b \in Businesses : ResolveSole(w, b)
             \/ \E b \in Businesses : CreateBusiness(w, b)
             \/ \E b \in Businesses : Switch(w, b)
             \/ EnsureDefault(w)
             \/ Accept(w)
             \/ \E t \in Users : Manage(w, t)
             \/ Commit(w)
             \/ Rollback(w)
      PROVE  TypeInv'
  BY <1>2, ResolveTyped, UnscopedTyped, ManageTyped, EndTyped
<1> QED
  BY <1>1, <1>2 DEF Next

(* Type correctness: whatever requests the workers serve, and whatever       *)
(* clients send, the tables and the requests in progress keep their types.    *)
THEOREM TypeCorrect == Spec => []TypeOK
<1>1. Init => TypeInv
  <2>1. Absent \in Row /\ Framed(Idle)
    BY DEF Absent, Row, Framed, Idle
  <2> QED
    BY <2>1, IdleIsRequest DEF Init, TypeInv, TypeOK
<1>2. TypeInv => TypeOK
  BY DEF TypeInv
<1> QED
  BY <1>1, <1>2, TypeStep, PTL DEF Spec

-----------------------------------------------------------------------------
(* Joining.  WorkspaceWasJoined is not inductive: a request saves a           *)
(* workspace it chose earlier, and an acceptance saves a row it read earlier. *)
(* What makes it so is that active members have joined, that nobody un-joins, *)
(* and that every request in progress holds only workspaces already joined.   *)

Sound(r, rows) ==
  /\ r.cur # NoBusiness => r.pc # "idle" /\ rows[r.cur][r.actor].joined
  /\ r.curDirty /\ r.curNew # NoBusiness =>
       r.pc # "idle" /\ rows[r.curNew][r.actor].joined
  /\ "joined" \in r.dirty => r.new.joined /\ r.op \in {"update", "accept"}
  /\ "status" \in r.dirty /\ r.new.status = "active" => "joined" \in r.dirty
  /\ r.op = "accept" /\ r.dirty # {} => rows[r.biz][r.target].joined

JoinInv ==
  /\ \A b \in Businesses, u \in Users :
       member[b][u].status = "active" => member[b][u].joined
  /\ WorkspaceWasJoined
  /\ \A w \in Workers : Sound(req[w], member)

LEMMA IdleIsSound == ASSUME NEW rows PROVE Sound(Idle, rows)
BY DEF Sound, Idle

(* A sound request stays sound while members only join. *)
LEMMA SoundKept ==
  ASSUME NEW r \in Request, Framed(r),
         NEW rows \in [Businesses -> [Users -> Row]],
         NEW later \in [Businesses -> [Users -> Row]],
         \A b \in Businesses, u \in Users : rows[b][u].joined => later[b][u].joined,
         Sound(r, rows)
  PROVE  Sound(r, later)
<1>1. r.pc # "idle" => r.actor \in Users
  BY DEF Framed
<1>2. r.cur \in Businesses \cup {NoBusiness} /\ r.curNew \in Businesses \cup {NoBusiness}
  BY DEF Request
<1>3. r.dirty # {} => r.biz \in Businesses /\ r.target \in Users
  BY DEF Framed
<1> QED
  BY <1>1, <1>2, <1>3 DEF Sound

LEMMA SoundStepOfOneRequest ==
  ASSUME TypeInv, JoinInv, NEW w \in Workers, NEW r, Sound(r, member),
         req' = [req EXCEPT ![w] = r], UNCHANGED <<member, current>>
  PROVE  JoinInv'
BY DEF TypeInv, TypeOK, JoinInv, WorkspaceWasJoined

(* The steps that do not touch the tables. *)
LEMMA RequestSound ==
  ASSUME TypeInv, JoinInv, NEW w \in Workers,
         \/ \E u \in Users : LoadUser(w, u)
         \/ \E b \in Businesses : ResolveNamed(w, b)
         \/ \E b \in Businesses : ResolveSole(w, b)
         \/ \E b \in Businesses : Switch(w, b)
         \/ EnsureDefault(w)
         \/ Accept(w)
  PROVE  JoinInv'
<1>1. req[w] \in Request /\ Framed(req[w]) /\ Sound(req[w], member)
  BY DEF TypeInv, TypeOK, JoinInv
<1>2. ASSUME NEW b \in ActiveBusinesses(req[w].actor), req[w].pc = "user"
      PROVE  b \in Businesses /\ member[b][req[w].actor].joined
  BY <1>1, <1>2 DEF ActiveBusinesses, JoinInv, Framed
<1>3. req[w].pc = "user" => req[w].dirty = {} /\ req[w].actor \in Users
  BY <1>1 DEF Framed
<1>4. ASSUME NEW u \in Users, LoadUser(w, u)
      PROVE  JoinInv'
  <2> DEFINE r == [Idle EXCEPT !.pc = "user", !.actor = u, !.cur = current[u]]
  <2>1. Sound(r, member)
    BY DEF Sound, Idle, JoinInv, WorkspaceWasJoined
  <2> QED
    BY <1>4, <2>1, SoundStepOfOneRequest DEF LoadUser
<1>5. ASSUME NEW b \in Businesses, ResolveNamed(w, b)
      PROVE  JoinInv'
  <2> DEFINE r == [req[w] EXCEPT !.pc = "scoped", !.biz = b,
                                 !.me = member[b][req[w].actor]]
  <2>1. Sound(r, member)
    BY <1>1, <1>3, <1>5 DEF Sound, Request, ResolveNamed
  <2> QED
    BY <1>5, <2>1, SoundStepOfOneRequest DEF ResolveNamed
<1>6. ASSUME NEW b \in Businesses, ResolveSole(w, b)
      PROVE  JoinInv'
  <2> DEFINE r == [req[w] EXCEPT !.pc = "scoped", !.biz = b,
                                 !.me = member[b][req[w].actor],
                                 !.curDirty = TRUE, !.curRead = TRUE, !.curNew = b]
  <2>1. req[w].pc = "user" /\ member[b][req[w].actor].joined
    BY <1>2, <1>6 DEF ResolveSole
  <2>2. Sound(r, member)
    BY <1>1, <1>3, <2>1 DEF Sound, Request
  <2> QED
    BY <1>6, <2>2, SoundStepOfOneRequest DEF ResolveSole
<1>7. ASSUME NEW b \in Businesses, Switch(w, b)
      PROVE  JoinInv'
  <2> DEFINE r == [req[w] EXCEPT !.pc = "checked", !.op = "switch",
                                 !.curDirty = TRUE, !.curNew = b]
  <2>1. req[w].pc = "user" /\ member[b][req[w].actor].joined
    BY <1>2, <1>7 DEF Switch
  <2>2. Sound(r, member)
    BY <1>1, <1>3, <2>1 DEF Sound, Request
  <2> QED
    BY <1>7, <2>2, SoundStepOfOneRequest DEF Switch
<1>8. CASE EnsureDefault(w)
  <2> DEFINE b == SoleBusiness(req[w].actor)
             r == [req[w] EXCEPT !.pc = "checked", !.op = "default",
                                 !.curDirty = TRUE, !.curRead = TRUE, !.curNew = b]
  <2>1. b = NoBusiness \/ b \in ActiveBusinesses(req[w].actor)
    BY DEF SoleBusiness
  <2>2. req[w].pc = "user" /\ (b # NoBusiness => member[b][req[w].actor].joined)
    BY <1>2, <1>8, <2>1 DEF EnsureDefault
  <2> HIDE DEF b
  <2>3. Sound(r, member)
    BY <1>1, <1>3, <2>2 DEF Sound, Request
  <2> QED
    BY <1>8, <2>3, SoundStepOfOneRequest DEF EnsureDefault, b
<1>9. CASE Accept(w)
  <2> DEFINE row == member[req[w].cur][req[w].actor]
             new == [row EXCEPT !.status = "active", !.joined = TRUE]
             r == [req[w] EXCEPT !.pc = "checked", !.op = "accept",
                                 !.biz = req[w].cur, !.target = req[w].actor,
                                 !.old = row, !.new = new,
                                 !.dirty = {"status", "joined"},
                                 !.read = {"status", "joined"}]
  <2>1. req[w].cur \in Businesses /\ req[w].actor \in Users
    BY <1>1, <1>9 DEF Request, Framed, Accept
  <2>2. row \in Row /\ row.joined
    BY <1>1, <1>9, <2>1 DEF TypeInv, TypeOK, Sound, Accept
  <2>3. new.joined
    BY <2>2 DEF Row
  <2> HIDE DEF new
  <2>4. Sound(r, member)
    BY <1>1, <1>9, <2>2, <2>3 DEF Sound, Request, Accept
  <2> QED
    BY <1>9, <2>4, SoundStepOfOneRequest DEF Accept, new
<1> QED
  BY <1>4, <1>5, <1>6, <1>7, <1>8, <1>9

(* A handler of member management only makes a row active together with      *)
(* joined, so what it prepares is sound.                                      *)
LEMMA PrepareSound ==
  ASSUME TypeInv, JoinInv, NEW w \in Workers, req[w].pc = "scoped",
         NEW op \in {"invite", "update", "remove"}, NEW t, NEW old, NEW new,
         NEW dirty \in SUBSET Columns, NEW read, NEW reply,
         "joined" \in dirty => new.joined /\ op = "update",
         "status" \in dirty /\ new.status = "active" => "joined" \in dirty,
         Prepare(w, op, t, old, new, dirty, read, reply)
  PROVE  JoinInv'
<1> DEFINE r == [req[w] EXCEPT !.pc = "checked", !.op = op, !.target = t,
                               !.old = old, !.new = new, !.dirty = dirty,
                               !.read = read, !.reply = reply]
<1>1. req[w] \in Request /\ Sound(req[w], member)
  BY DEF TypeInv, TypeOK, JoinInv
<1>2. Sound(r, member)
  BY <1>1 DEF Sound, Request
<1> QED
  BY <1>2, SoundStepOfOneRequest DEF Prepare

LEMMA ManageSound ==
  ASSUME TypeInv, JoinInv, NEW w \in Workers, NEW t \in Users, Manage(w, t)
  PROVE  JoinInv'
<1>1. ASSUME NEW role \in RoleInputs, Invite(w, t, role)
      PROVE  JoinInv'
  <2> DEFINE row == member[req[w].biz][t]
             new == [row EXCEPT !.role = role, !.status = "invited"]
  <2>1. row \in Row /\ req[w].pc = "scoped"
    BY <1>1, LoadedRow DEF Invite, Managing
  <2>2. new.status = "invited" /\ {"role", "status"} \in SUBSET Columns
    BY <2>1 DEF Row, Columns
  <2>3. Prepare(w, "invite", t, row, new, {"role", "status"}, {"status"}, "ok")
    BY <1>1 DEF Invite
  <2> HIDE DEF row, new
  <2> QED
    BY <2>1, <2>2, <2>3, PrepareSound
<1>2. ASSUME NEW role \in RoleInputs \cup {Keep},
             NEW status \in StatusInputs \cup {Keep},
             UpdateMember(w, t, role, status)
      PROVE  JoinInv'
  <2> DEFINE row == Loaded(w, t)
             taken == WithRole(row, role)
             set == [taken EXCEPT !.status = status,
                                  !.joined = @ \/ status = "active"]
             new == IF status = Keep THEN taken ELSE set
             dirty == (IF role # Keep THEN {"role"} ELSE {})
                      \cup (IF status # Keep THEN {"status"} ELSE {})
                      \cup (IF status = "active" THEN {"joined"} ELSE {})
  <2>1. taken \in Row /\ req[w].pc = "scoped"
    BY <1>2, LoadedRow, PatchedRow DEF UpdateMember, Managing
  <2>2. dirty \in SUBSET Columns
    BY DEF Columns
  <2>3. "joined" \in dirty => status = "active" /\ new.joined
    BY <2>1 DEF Row, Keep
  <2>4. "status" \in dirty /\ new.status = "active" => "joined" \in dirty
    BY <2>1 DEF Row
  <2>5. Prepare(w, "update", t, row, new, dirty,
                PatchReads(w, t, row, role, status), "ok")
    BY <1>2 DEF UpdateMember
  <2> HIDE DEF row, taken, set, new, dirty
  <2> QED
    BY <2>1, <2>2, <2>3, <2>4, <2>5, PrepareSound
<1>3. ASSUME NEW role \in RoleInputs, NEW status \in StatusInputs,
             UpdateMemberHalf(w, t, role, status)
      PROVE  JoinInv'
  <2> DEFINE row == Loaded(w, t)
             taken == WithRole(row, role)
  <2>1. Prepare(w, "update", t, row, taken, {"role"},
                PatchReads(w, t, row, role, status), "refused")
    BY <1>3 DEF UpdateMemberHalf
  <2>2. req[w].pc = "scoped" /\ {"role"} \in SUBSET Columns
    BY <1>3 DEF UpdateMemberHalf, Managing, Columns
  <2> HIDE DEF row, taken
  <2> QED
    BY <2>1, <2>2, PrepareSound
<1>4. ASSUME RemoveMember(w, t)
      PROVE  JoinInv'
  <2> DEFINE row == Loaded(w, t)
             new == [row EXCEPT !.status = "removed"]
             read == IF row.role = "owner" THEN {"role", "status"} ELSE {"role"}
  <2>1. row \in Row /\ req[w].pc = "scoped"
    BY <1>4, LoadedRow DEF RemoveMember, Managing
  <2>2. new.status = "removed" /\ {"status"} \in SUBSET Columns
    BY <2>1 DEF Row, Columns
  <2>3. Prepare(w, "remove", t, row, new, {"status"}, read, "ok")
    BY <1>4 DEF RemoveMember
  <2> HIDE DEF row, new, read
  <2> QED
    BY <2>1, <2>2, <2>3, PrepareSound
<1> QED
  BY <1>1, <1>2, <1>3, <1>4 DEF Manage

(* What a commit does to the tables. *)
LEMMA CommitEffect ==
  ASSUME TypeInv, JoinInv, NEW w \in Workers, Commit(w)
  PROVE  \A b \in Businesses, u \in Users :
           /\ member[b][u].joined => member'[b][u].joined
           /\ member'[b][u].status = "active" => member'[b][u].joined
           /\ ~member[b][u].joined /\ member'[b][u].joined =>
                req[w].op = "update"
<1> DEFINE r == req[w]
<1>1. r \in Request /\ Framed(r) /\ Sound(r, member)
  BY DEF TypeInv, TypeOK, JoinInv
<1>2. CASE r.dirty = {}
  BY <1>2 DEF Commit, JoinInv
<1>3. CASE r.dirty # {}
  <2> DEFINE now == member[r.biz][r.target]
             saved == Applied(r.dirty, r.new, now)
  <2>1. r.biz \in Businesses /\ r.target \in Users
    BY <1>1, <1>3 DEF Framed
  <2>2. now \in Row /\ (now.status = "active" => now.joined)
    BY <2>1 DEF TypeInv, TypeOK, JoinInv
  <2>3. /\ now.joined => saved.joined
        /\ saved.status = "active" => saved.joined
        /\ ~now.joined /\ saved.joined => r.op = "update"
    BY <1>1, <1>3, <2>2 DEF Sound, Applied, Row
  <2>4. member' = [member EXCEPT ![r.biz][r.target] = saved]
    BY <1>3, <2>1 DEF Commit, TypeInv, TypeOK
  <2> HIDE DEF saved
  <2> QED
    BY <2>1, <2>3, <2>4 DEF TypeInv, TypeOK, JoinInv
<1> QED
  BY <1>2, <1>3

(* Nobody un-joins, and the tables agree with each other after the step. *)
LEMMA EndSound ==
  ASSUME TypeInv, TypeInv', JoinInv, NEW w \in Workers,
         \/ \E b \in Businesses : CreateBusiness(w, b)
         \/ Commit(w)
         \/ Rollback(w)
  PROVE  JoinInv'
<1>1. req[w] \in Request /\ Framed(req[w]) /\ Sound(req[w], member)
  BY DEF TypeInv, TypeOK, JoinInv
<1>2. \A v \in Workers : req'[v] = IF v = w THEN Idle ELSE req[v]
  BY DEF TypeInv, TypeOK, CreateBusiness, Commit, Rollback
<1>3. /\ \A b \in Businesses, u \in Users :
           /\ member[b][u].joined => member'[b][u].joined
           /\ member'[b][u].status = "active" => member'[b][u].joined
      /\ WorkspaceWasJoined'
  <2>1. ASSUME NEW b \in Businesses, CreateBusiness(w, b)
        PROVE  /\ \A c \in Businesses, u \in Users :
                    /\ member[c][u].joined => member'[c][u].joined
                    /\ member'[c][u].status = "active" => member'[c][u].joined
               /\ WorkspaceWasJoined'
    <3>1. req[w].actor \in Users /\ Founder.joined
      BY <1>1, <2>1 DEF CreateBusiness, Framed, Founder
    <3>2. \A c \in Businesses, u \in Users :
            member'[c][u] = IF c = b /\ u = req[w].actor THEN Founder ELSE member[c][u]
      BY <2>1 DEF CreateBusiness, TypeInv, TypeOK
    <3>3. \A u \in Users : current'[u] = IF u = req[w].actor THEN b ELSE current[u]
      BY <2>1 DEF CreateBusiness, TypeInv, TypeOK
    <3>4. /\ \A c \in Businesses, u \in Users :
               /\ member[c][u].joined => member'[c][u].joined
               /\ member'[c][u].status = "active" => member'[c][u].joined
      BY <3>1, <3>2 DEF JoinInv
    <3>5. ASSUME NEW u \in Users, current'[u] # NoBusiness
          PROVE  member'[current'[u]][u].joined
      <4>1. CASE u = req[w].actor
        BY <3>1, <3>2, <3>3, <4>1
      <4>2. CASE u # req[w].actor
        <5>1. current'[u] = current[u] /\ current[u] \in Businesses
          BY <3>3, <3>5, <4>2 DEF TypeInv, TypeOK
        <5>2. member[current[u]][u].joined
          BY <3>5, <5>1 DEF JoinInv, WorkspaceWasJoined
        <5> QED
          BY <3>4, <5>1, <5>2
      <4> QED
        BY <4>1, <4>2
    <3> QED
      BY <3>4, <3>5 DEF WorkspaceWasJoined
  <2>2. CASE Commit(w)
    <3>1. \A u \in Users :
            \/ current'[u] = current[u]
            \/ /\ req[w].curDirty
               /\ u = req[w].actor
               /\ current'[u] = req[w].curNew
      BY <2>2 DEF Commit, TypeInv, TypeOK
    <3>2. \A u \in Users :
            current'[u] # NoBusiness =>
              current'[u] \in Businesses /\ member[current'[u]][u].joined
      BY <1>1, <3>1 DEF Sound, JoinInv, WorkspaceWasJoined, TypeInv, TypeOK, Request
    <3> QED
      BY <2>2, <3>2, CommitEffect DEF WorkspaceWasJoined
  <2>3. CASE Rollback(w)
    BY <2>3 DEF Rollback, JoinInv, WorkspaceWasJoined
  <2> QED
    BY <2>1, <2>2, <2>3
<1>4. ASSUME NEW v \in Workers PROVE Sound(req'[v], member')
  <2>1. CASE v = w
    BY <1>2, <2>1, IdleIsSound
  <2>2. CASE v # w
    <3>1. req[v] \in Request /\ Framed(req[v]) /\ Sound(req[v], member)
      BY DEF TypeInv, TypeOK, JoinInv
    <3>2. /\ member \in [Businesses -> [Users -> Row]]
          /\ member' \in [Businesses -> [Users -> Row]]
      BY DEF TypeInv, TypeOK
    <3>3. Sound(req[v], member')
      BY <1>3, <3>1, <3>2, SoundKept
    <3> QED
      BY <1>2, <2>2, <3>3
  <2> QED
    BY <2>1, <2>2
<1> QED
  BY <1>3, <1>4 DEF JoinInv

LEMMA JoinStep == TypeInv /\ JoinInv /\ [Next]_vars => JoinInv'
<1> SUFFICES ASSUME TypeInv, JoinInv, [Next]_vars
             PROVE  JoinInv'
  OBVIOUS
<1>1. CASE UNCHANGED vars
  BY <1>1 DEF JoinInv, WorkspaceWasJoined, vars
<1>2. ASSUME NEW w \in Workers,
             \/ \E u \in Users : LoadUser(w, u)
             \/ \E b \in Businesses : ResolveNamed(w, b)
             \/ \E b \in Businesses : ResolveSole(w, b)
             \/ \E b \in Businesses : CreateBusiness(w, b)
             \/ \E b \in Businesses : Switch(w, b)
             \/ EnsureDefault(w)
             \/ Accept(w)
             \/ \E t \in Users : Manage(w, t)
             \/ Commit(w)
             \/ Rollback(w)
      PROVE  JoinInv'
  BY <1>2, TypeStep, RequestSound, ManageSound, EndSound
<1> QED
  BY <1>1, <1>2 DEF Next

LEMMA JoinedAlways == Spec => [](TypeInv /\ JoinInv)
<1>1. Init => TypeInv /\ JoinInv
  <2>1. Absent \in Row /\ Absent.status # "active" /\ Framed(Idle)
    BY DEF Absent, Row, Framed, Idle
  <2> QED
    BY <2>1, IdleIsRequest, IdleIsSound
    DEF Init, TypeInv, TypeOK, JoinInv, WorkspaceWasJoined
<1> QED
  BY <1>1, TypeStep, JoinStep, PTL DEF Spec

(* For every interleaving of any number of workers: the workspace a user     *)
(* works in has admitted them.                                                *)
THEOREM WorkspaceJoined == Spec => []WorkspaceWasJoined
<1>1. JoinInv => WorkspaceWasJoined
  BY DEF JoinInv
<1> QED
  BY <1>1, JoinedAlways, PTL

(* For every interleaving of any number of workers: the accept route never   *)
(* admits anyone for the first time.                                          *)
THEOREM FirstJoin == Spec => FirstJoinNeedsManager
<1> DEFINE Admits(b, u) ==
             ~member[b][u].joined /\ member'[b][u].joined =>
               \/ ~Exists(b)
               \/ \E w \in Workers : Ends(w) /\ req[w].op = "update"
<1>1. ASSUME TypeInv, JoinInv, [Next]_vars, NEW b \in Businesses, NEW u \in Users
      PROVE  Admits(b, u)
  <2>1. CASE member' = member
    BY <2>1
  <2>2. ASSUME NEW w \in Workers, NEW c \in Businesses, CreateBusiness(w, c)
        PROVE  Admits(b, u)
    <3>1. CASE c = b
      BY <2>2, <3>1 DEF CreateBusiness
    <3>2. CASE c # b
      BY <1>1, <2>2, <3>2 DEF CreateBusiness, TypeInv, TypeOK
    <3> QED
      BY <3>1, <3>2
  <2>3. ASSUME NEW w \in Workers, Commit(w)
        PROVE  Admits(b, u)
    <3>1. Ends(w)
      BY <1>1, <2>3 DEF Ends, Commit, Idle, TypeInv, TypeOK
    <3> QED
      BY <1>1, <2>3, <3>1, CommitEffect
  <2>4. ASSUME NEW w \in Workers, NEW t \in Users, Manage(w, t)
        PROVE  member' = member
    BY <2>4 DEF Manage, Invite, UpdateMember, UpdateMemberHalf, RemoveMember, Prepare
  <2> QED
    BY <1>1, <2>1, <2>2, <2>3, <2>4
    DEF Next, vars, LoadUser, ResolveNamed, ResolveSole, Switch, EnsureDefault,
        Accept, Rollback
<1>2. ASSUME TypeInv, JoinInv, [Next]_vars
      PROVE  [\A b \in Businesses, u \in Users : Admits(b, u)]_vars
  BY <1>1, <1>2
<1> QED
  BY <1>2, JoinedAlways, PTL DEF Spec, FirstJoinNeedsManager

-----------------------------------------------------------------------------
(* Decisions.  That an operation of the lifecycle takes effect on the row it  *)
(* was decided on, or on one that admits it as well, needs to be known of     *)
(* each request before it commits: what it will write, what it has read, and  *)
(* that the row it changes is still there.                                    *)

Real(row) == row.role \in RoleKeys /\ row.status \in Statuses

Present(rows, b, u) == rows[b][u].status # "absent"

Invites(r) ==
  /\ r.dirty = {"role", "status"} /\ "status" \in r.read
  /\ r.old.status \in {"absent", "removed"}
  /\ r.new.role # "owner" /\ r.new.status = "invited"

Accepts(r) ==
  /\ r.dirty = {"status", "joined"} /\ "status" \in r.read
  /\ r.old.status = "invited" /\ r.new.status = "active"

Decided(r, rows) ==
  /\ r.op \in {"invite", "accept", "update", "remove"}
  /\ "role" \in r.dirty => r.new.role \in RoleKeys
  /\ "status" \in r.dirty => r.new.status \in Statuses
  /\ "joined" \in r.dirty => "status" \in r.dirty /\ r.new.status = "active"
  /\ r.op = "invite" => Invites(r)
  /\ r.op = "accept" => Accepts(r)
  /\ r.op = "remove" => r.dirty = {"status"} /\ r.new.status = "removed"
  /\ r.op \in {"update", "remove"} => Present(rows, r.biz, r.target)
  /\ r.reply = "refused" => r.dirty = {"role"}

Meant(r, rows) ==
  /\ r.pc \in {"user", "scoped"} => r.op = "none" /\ r.reply = "ok"
  /\ r.pc = "scoped" => Present(rows, r.biz, r.actor)
  /\ r.dirty # {} => Decided(r, rows)

DecideInv ==
  /\ \A b \in Businesses, u \in Users :
       member[b][u] = Absent \/ Real(member[b][u])
  /\ \A w \in Workers : Meant(req[w], member)

LEMMA IdleIsMeant == ASSUME NEW rows PROVE Meant(Idle, rows)
BY DEF Meant, Idle

(* What was meant stays so while no row disappears. *)
LEMMA MeantKept ==
  ASSUME NEW r, Framed(r), NEW rows, NEW later,
         \A b \in Businesses, u \in Users : Present(rows, b, u) => Present(later, b, u),
         Meant(r, rows)
  PROVE  Meant(r, later)
BY DEF Framed, Meant, Decided

LEMMA MeantStepOfOneRequest ==
  ASSUME TypeInv, DecideInv, NEW w \in Workers, NEW r, Meant(r, member),
         req' = [req EXCEPT ![w] = r], UNCHANGED <<member, current>>
  PROVE  DecideInv'
BY DEF TypeInv, TypeOK, DecideInv

(* The steps before a handler of member management. *)
LEMMA RequestMeant ==
  ASSUME TypeInv, DecideInv, NEW w \in Workers,
         \/ \E u \in Users : LoadUser(w, u)
         \/ \E b \in Businesses : ResolveNamed(w, b)
         \/ \E b \in Businesses : ResolveSole(w, b)
         \/ \E b \in Businesses : Switch(w, b)
         \/ EnsureDefault(w)
         \/ Accept(w)
  PROVE  DecideInv'
<1>1. req[w] \in Request /\ Framed(req[w]) /\ Meant(req[w], member)
  BY DEF TypeInv, TypeOK, DecideInv
<1>0. req[w].pc = "user" => req[w].dirty = {}
  BY <1>1 DEF Framed
<1>2. ASSUME NEW u \in Users, LoadUser(w, u)
      PROVE  DecideInv'
  <2> DEFINE r == [Idle EXCEPT !.pc = "user", !.actor = u, !.cur = current[u]]
  <2>1. Meant(r, member)
    BY DEF Meant, Idle
  <2>2. req' = [req EXCEPT ![w] = r] /\ UNCHANGED <<member, current>>
    BY <1>2 DEF LoadUser
  <2> HIDE DEF r
  <2> QED
    BY <2>1, <2>2, MeantStepOfOneRequest
<1>3. ASSUME NEW b \in Businesses, ResolveNamed(w, b)
      PROVE  DecideInv'
  <2> DEFINE r == [req[w] EXCEPT !.pc = "scoped", !.biz = b,
                                 !.me = member[b][req[w].actor]]
  <2>1. req[w].pc = "user" /\ b \in ActiveBusinesses(req[w].actor)
    BY <1>3 DEF ResolveNamed
  <2>2. Present(member, b, req[w].actor)
    BY <2>1 DEF ActiveBusinesses, Present
  <2>3. Meant(r, member)
    BY <1>0, <1>1, <2>1, <2>2 DEF Meant, Request
  <2>4. req' = [req EXCEPT ![w] = r] /\ UNCHANGED <<member, current>>
    BY <1>3 DEF ResolveNamed
  <2> HIDE DEF r
  <2> QED
    BY <2>3, <2>4, MeantStepOfOneRequest
<1>4. ASSUME NEW b \in Businesses, ResolveSole(w, b)
      PROVE  DecideInv'
  <2> DEFINE r == [req[w] EXCEPT !.pc = "scoped", !.biz = b,
                                 !.me = member[b][req[w].actor],
                                 !.curDirty = TRUE, !.curRead = TRUE, !.curNew = b]
  <2>1. req[w].pc = "user" /\ b \in ActiveBusinesses(req[w].actor)
    BY <1>4 DEF ResolveSole
  <2>2. Present(member, b, req[w].actor)
    BY <2>1 DEF ActiveBusinesses, Present
  <2>3. Meant(r, member)
    BY <1>0, <1>1, <2>1, <2>2 DEF Meant, Request
  <2>4. req' = [req EXCEPT ![w] = r] /\ UNCHANGED <<member, current>>
    BY <1>4 DEF ResolveSole
  <2> HIDE DEF r
  <2> QED
    BY <2>3, <2>4, MeantStepOfOneRequest
<1>5. ASSUME NEW b \in Businesses, Switch(w, b)
      PROVE  DecideInv'
  <2> DEFINE r == [req[w] EXCEPT !.pc = "checked", !.op = "switch",
                                 !.curDirty = TRUE, !.curNew = b]
  <2>1. Meant(r, member)
    BY <1>0, <1>1, <1>5 DEF Meant, Request, Switch
  <2>2. req' = [req EXCEPT ![w] = r] /\ UNCHANGED <<member, current>>
    BY <1>5 DEF Switch
  <2> HIDE DEF r
  <2> QED
    BY <2>1, <2>2, MeantStepOfOneRequest
<1>6. CASE EnsureDefault(w)
  <2> DEFINE r == [req[w] EXCEPT !.pc = "checked", !.op = "default",
                                 !.curDirty = TRUE, !.curRead = TRUE,
                                 !.curNew = SoleBusiness(req[w].actor)]
  <2>1. Meant(r, member)
    BY <1>0, <1>1, <1>6 DEF Meant, Request, EnsureDefault
  <2>2. req' = [req EXCEPT ![w] = r] /\ UNCHANGED <<member, current>>
    BY <1>6 DEF EnsureDefault
  <2> HIDE DEF r
  <2> QED
    BY <2>1, <2>2, MeantStepOfOneRequest
<1>7. CASE Accept(w)
  <2> DEFINE row == member[req[w].cur][req[w].actor]
             new == [row EXCEPT !.status = "active", !.joined = TRUE]
             r == [req[w] EXCEPT !.pc = "checked", !.op = "accept",
                                 !.biz = req[w].cur, !.target = req[w].actor,
                                 !.old = row, !.new = new,
                                 !.dirty = {"status", "joined"},
                                 !.read = {"status", "joined"}]
  <2>1. req[w].cur \in Businesses /\ req[w].actor \in Users
    BY <1>1, <1>7 DEF Request, Framed, Accept
  <2>2. row \in Row /\ row.status = "invited" /\ req[w].reply = "ok"
    BY <1>1, <1>7, <2>1 DEF TypeInv, TypeOK, Accept, Meant
  <2>3. new.status = "active"
    BY <2>2 DEF Row
  <2> HIDE DEF row, new
  <2>4. Meant(r, member)
    BY <1>1, <2>2, <2>3 DEF Meant, Decided, Accepts, Request, Statuses
  <2>5. req' = [req EXCEPT ![w] = r] /\ UNCHANGED <<member, current>>
    BY <1>7 DEF Accept, row, new
  <2> HIDE DEF r
  <2> QED
    BY <2>4, <2>5, MeantStepOfOneRequest
<1> QED
  BY <1>2, <1>3, <1>4, <1>5, <1>6, <1>7

LEMMA PrepareMeant ==
  ASSUME TypeInv, DecideInv, NEW w \in Workers,
         NEW op, NEW t, NEW old, NEW new, NEW dirty, NEW read, NEW reply,
         \A r : /\ r.op = op /\ r.biz = req[w].biz /\ r.target = t
                /\ r.old = old /\ r.new = new /\ r.dirty = dirty /\ r.read = read
                /\ r.reply = reply
                => Decided(r, member),
         Prepare(w, op, t, old, new, dirty, read, reply)
  PROVE  DecideInv'
<1> DEFINE r == [req[w] EXCEPT !.pc = "checked", !.op = op, !.target = t,
                               !.old = old, !.new = new, !.dirty = dirty,
                               !.read = read, !.reply = reply]
<1>1. req[w] \in Request
  BY DEF TypeInv, TypeOK
<1>2. /\ r.pc = "checked" /\ r.op = op /\ r.biz = req[w].biz /\ r.target = t
      /\ r.old = old /\ r.new = new /\ r.dirty = dirty /\ r.read = read
      /\ r.reply = reply
  BY <1>1 DEF Request
<1> HIDE DEF r
<1>3. Meant(r, member)
  BY <1>2 DEF Meant
<1> QED
  BY <1>3, MeantStepOfOneRequest DEF Prepare, r

(* A row that was loaded is still there, the manager's own included. *)
LEMMA LoadedPresent ==
  ASSUME TypeInv, DecideInv, NEW w \in Workers, Managing(w), NEW t \in Users,
         Loaded(w, t) # Absent
  PROVE  Present(member, req[w].biz, t)
<1>1. Framed(req[w]) /\ Meant(req[w], member) /\ req[w].pc = "scoped"
  BY DEF TypeInv, DecideInv, Managing
<1>2. CASE t = req[w].actor
  BY <1>1, <1>2 DEF Meant
<1>3. CASE t # req[w].actor
  BY <1>1, <1>3 DEF Loaded, Framed, DecideInv, Real, Present, Statuses
<1> QED
  BY <1>2, <1>3

LEMMA ManageMeant ==
  ASSUME TypeInv, DecideInv, NEW w \in Workers, NEW t \in Users, Manage(w, t)
  PROVE  DecideInv'
<1>1. ASSUME NEW role \in RoleInputs, Invite(w, t, role)
      PROVE  DecideInv'
  <2> DEFINE row == member[req[w].biz][t]
             new == [row EXCEPT !.role = role, !.status = "invited"]
  <2>1. row \in Row /\ row.status \in {"absent", "removed"} /\ role # "owner"
    BY <1>1, LoadedRow DEF Invite
  <2>2. new.status = "invited" /\ new.role = role /\ role \in RoleKeys
    BY <2>1, InputAssumption DEF Row
  <2>3. Prepare(w, "invite", t, row, new, {"role", "status"}, {"status"}, "ok")
    BY <1>1 DEF Invite
  <2> HIDE DEF row, new
  <2> QED
    BY <2>1, <2>2, <2>3, PrepareMeant DEF Decided, Invites, Statuses
<1>2. ASSUME NEW role \in RoleInputs \cup {Keep},
             NEW status \in StatusInputs \cup {Keep},
             UpdateMember(w, t, role, status)
      PROVE  DecideInv'
  <2> DEFINE row == Loaded(w, t)
             taken == WithRole(row, role)
             set == [taken EXCEPT !.status = status,
                                  !.joined = @ \/ status = "active"]
             new == IF status = Keep THEN taken ELSE set
             dirty == (IF role # Keep THEN {"role"} ELSE {})
                      \cup (IF status # Keep THEN {"status"} ELSE {})
                      \cup (IF status = "active" THEN {"joined"} ELSE {})
             read == PatchReads(w, t, row, role, status)
  <2>0. Managing(w) /\ row # Absent /\ status # Bogus
    BY <1>2 DEF UpdateMember
  <2>1. row \in Row /\ taken \in Row /\ Present(member, req[w].biz, t)
    BY <2>0, LoadedRow, LoadedPresent, PatchedRow
  <2>2. "role" \in dirty => role # Keep /\ new.role \in RoleKeys
    BY <2>1, InputAssumption DEF Row, WithRole, Keep
  <2>3. "status" \in dirty => status # Keep /\ new.status = status /\ status \in Statuses
    BY <1>2, <2>1, InputAssumption DEF Row, UpdateMember
  <2>4. "joined" \in dirty => "status" \in dirty /\ new.status = "active"
    BY <2>1 DEF Row, Keep
  <2>5. Prepare(w, "update", t, row, new, dirty, read, "ok")
    BY <1>2 DEF UpdateMember
  <2> HIDE DEF row, taken, set, new, dirty, read
  <2> QED
    BY <2>1, <2>2, <2>3, <2>4, <2>5, PrepareMeant DEF Decided
<1>3. ASSUME NEW role \in RoleInputs, NEW status \in StatusInputs,
             UpdateMemberHalf(w, t, role, status)
      PROVE  DecideInv'
  <2> DEFINE row == Loaded(w, t)
             taken == WithRole(row, role)
             read == PatchReads(w, t, row, role, status)
  <2>1. row \in Row /\ role # Keep /\ Present(member, req[w].biz, t)
    BY <1>3, LoadedRow, LoadedPresent DEF UpdateMemberHalf
  <2>2. taken.role \in RoleKeys
    BY <2>1, InputAssumption DEF Row, WithRole
  <2>3. Prepare(w, "update", t, row, taken, {"role"}, read, "refused")
    BY <1>3 DEF UpdateMemberHalf
  <2> HIDE DEF row, taken, read
  <2> QED
    BY <2>1, <2>2, <2>3, PrepareMeant DEF Decided
<1>4. ASSUME RemoveMember(w, t)
      PROVE  DecideInv'
  <2> DEFINE row == Loaded(w, t)
             new == [row EXCEPT !.status = "removed"]
             read == IF row.role = "owner" THEN {"role", "status"} ELSE {"role"}
  <2>1. row \in Row /\ Present(member, req[w].biz, t)
    BY <1>4, LoadedRow, LoadedPresent DEF RemoveMember
  <2>2. new.status = "removed"
    BY <2>1 DEF Row
  <2>3. Prepare(w, "remove", t, row, new, {"status"}, read, "ok")
    BY <1>4 DEF RemoveMember
  <2> HIDE DEF row, new, read
  <2> QED
    BY <2>1, <2>2, <2>3, PrepareMeant DEF Decided, Statuses
<1> QED
  BY <1>1, <1>2, <1>3, <1>4 DEF Manage

(* A commit that saves a row is an operation of the lifecycle on that row as   *)
(* it is now.                                                                 *)
LEMMA CommitIsOperation ==
  ASSUME TypeInv, JoinInv, DecideInv, NEW w \in Workers, Commit(w),
         req[w].dirty # {}
  PROVE  LET b == req[w].biz
             u == req[w].target
             now == member[b][u]
         IN /\ b \in Businesses /\ u \in Users
            /\ \E row : /\ member' = [member EXCEPT ![b][u] = row]
                        /\ Real(row)
                        /\ now.status = "removed" /\ row.status # "removed" =>
                             req[w].op \in {"invite", "update"} /\ "status" \in req[w].dirty
            /\ \/ req[w].op = "invite" /\ R!Invite(b, u)
               \/ req[w].op = "accept" /\ R!Accept(b, u)
               \/ req[w].op \in {"update", "remove"} /\ R!Administer(b, u)
<1> DEFINE r == req[w]
           now == member[r.biz][r.target]
           saved == Applied(r.dirty, r.new, now)
<1>1. /\ r \in Request /\ r.biz \in Businesses /\ r.target \in Users
      /\ Sound(r, member) /\ Decided(r, member)
  BY DEF TypeInv, TypeOK, Framed, JoinInv, DecideInv, Meant
<1>2. /\ now \in Row /\ (now = Absent \/ Real(now))
      /\ now.status = "active" => now.joined
  BY <1>1 DEF TypeInv, TypeOK, JoinInv, DecideInv
<1>3. member' = [member EXCEPT ![r.biz][r.target] = saved]
  BY <1>1 DEF Commit, TypeInv, TypeOK
<1>4. "status" \in r.read => r.old.status = now.status
  BY DEF Commit, StillCurrent
<1>5. /\ r.new \in Row
      /\ saved.role = IF "role" \in r.dirty THEN r.new.role ELSE now.role
      /\ saved.status = IF "status" \in r.dirty THEN r.new.status ELSE now.status
      /\ saved.joined = IF "joined" \in r.dirty THEN r.new.joined ELSE now.joined
      /\ saved = [role |-> saved.role, status |-> saved.status, joined |-> saved.joined]
  BY <1>1 DEF Applied, Request
<1> HIDE DEF saved
<1>6. CASE r.op = "invite"
  <2>1. /\ saved.role = r.new.role /\ saved.status = "invited" /\ saved.joined = now.joined
        /\ now.status \in {"absent", "removed"}
        /\ r.new.role \in RoleKeys \ {"owner"}
    BY <1>1, <1>4, <1>5, <1>6 DEF Decided, Invites
  <2>2. saved = [now EXCEPT !.role = r.new.role, !.status = "invited"]
    BY <1>2, <1>5, <2>1 DEF Row
  <2>3. R!Invite(r.biz, r.target)
    BY <1>3, <2>1, <2>2 DEF R!Invite, R!SetRow, R!RoleKeys, RoleKeys
  <2>4. Real(saved) /\ "status" \in r.dirty
    BY <1>1, <1>6, <2>1 DEF Real, Statuses, Decided, Invites
  <2> QED
    BY <1>1, <1>3, <1>6, <2>3, <2>4
<1>7. CASE r.op = "accept"
  <2>1. /\ saved.role = now.role /\ saved.status = "active" /\ saved.joined = r.new.joined
        /\ now.status = "invited" /\ now.joined /\ r.new.joined
    BY <1>1, <1>4, <1>5, <1>7 DEF Decided, Accepts, Sound
  <2>2. saved = [now EXCEPT !.status = "active"]
    BY <1>2, <1>5, <2>1 DEF Row
  <2>3. R!Accept(r.biz, r.target)
    BY <1>3, <2>1, <2>2 DEF R!Accept, R!SetRow
  <2>4. Real(saved)
    BY <1>2, <2>1 DEF Real, Statuses, Absent
  <2> QED
    BY <1>1, <1>3, <1>7, <2>1, <2>3, <2>4
<1>8. CASE r.op \in {"update", "remove"}
  <2>1. now # Absent /\ Real(now)
    BY <1>1, <1>2, <1>8 DEF Decided, Present, Absent
  <2>2. saved.role \in RoleKeys /\ saved.status \in Statuses
    BY <1>1, <1>5, <2>1 DEF Decided, Real
  <2>3. saved.joined = (now.joined \/ saved.status = "active")
    BY <1>1, <1>2, <1>5 DEF Decided, Sound, Row
  <2>4. R!Administer(r.biz, r.target)
    BY <1>3, <1>5, <2>1, <2>2, <2>3
    DEF R!Administer, R!SetRow, R!RoleKeys, R!Statuses, R!Absent, RoleKeys, Statuses, Absent
  <2>5. now.status = "removed" /\ saved.status # "removed" =>
          r.op = "update" /\ "status" \in r.dirty
    BY <1>1, <1>5, <1>8 DEF Decided
  <2> QED
    BY <1>1, <1>3, <1>8, <2>2, <2>4, <2>5 DEF Real
<1> QED
  BY <1>1, <1>6, <1>7, <1>8 DEF Decided

(* The steps that end a request remove no row and make none that is not real. *)
LEMMA EndMeant ==
  ASSUME TypeInv, TypeInv', JoinInv, DecideInv, NEW w \in Workers,
         \/ \E b \in Businesses : CreateBusiness(w, b)
         \/ Commit(w)
         \/ Rollback(w)
  PROVE  DecideInv'
<1>1. \A b \in Businesses, u \in Users :
        member'[b][u] = member[b][u] \/ Real(member'[b][u])
  <2>1. ASSUME NEW c \in Businesses, CreateBusiness(w, c)
        PROVE  \A b \in Businesses, u \in Users :
                 member'[b][u] = member[b][u] \/ Real(member'[b][u])
    BY <2>1 DEF CreateBusiness, TypeInv, TypeOK, Real, Founder, RoleKeys, Statuses
  <2>2. CASE Commit(w) /\ req[w].dirty # {}
    <3>1. PICK row : /\ member' = [member EXCEPT ![req[w].biz][req[w].target] = row]
                     /\ Real(row)
      BY <2>2, CommitIsOperation
    <3> QED
      BY <3>1 DEF TypeInv, TypeOK
  <2>3. CASE Commit(w) /\ req[w].dirty = {}
    BY <2>3 DEF Commit
  <2>4. CASE Rollback(w)
    BY <2>4 DEF Rollback
  <2> QED
    BY <2>1, <2>2, <2>3, <2>4
<1>2. \A b \in Businesses, u \in Users : Present(member, b, u) => Present(member', b, u)
  BY <1>1 DEF Present, Real, Statuses
<1>3. \A b \in Businesses, u \in Users : member'[b][u] = Absent \/ Real(member'[b][u])
  BY <1>1 DEF DecideInv
<1>4. \A v \in Workers : req'[v] = IF v = w THEN Idle ELSE req[v]
  BY DEF TypeInv, TypeOK, CreateBusiness, Commit, Rollback
<1>5. ASSUME NEW v \in Workers PROVE Meant(req'[v], member')
  <2>1. CASE v = w
    BY <1>4, <2>1, IdleIsMeant
  <2>2. CASE v # w
    <3>1. Framed(req[v]) /\ Meant(req[v], member)
      BY DEF TypeInv, DecideInv
    <3>2. Meant(req[v], member')
      BY <1>2, <3>1, MeantKept
    <3> QED
      BY <1>4, <2>2, <3>2
  <2> QED
    BY <2>1, <2>2
<1> QED
  BY <1>3, <1>5 DEF DecideInv

LEMMA DecideStep == TypeInv /\ JoinInv /\ DecideInv /\ [Next]_vars => DecideInv'
<1> SUFFICES ASSUME TypeInv, JoinInv, DecideInv, [Next]_vars
             PROVE  DecideInv'
  OBVIOUS
<1>1. CASE UNCHANGED vars
  BY <1>1 DEF DecideInv, vars
<1>2. ASSUME NEW w \in Workers,
             \/ \E u \in Users : LoadUser(w, u)
             \/ \E b \in Businesses : ResolveNamed(w, b)
             \/ \E b \in Businesses : ResolveSole(w, b)
             \/ \E b \in Businesses : CreateBusiness(w, b)
             \/ \E b \in Businesses : Switch(w, b)
             \/ EnsureDefault(w)
             \/ Accept(w)
             \/ \E t \in Users : Manage(w, t)
             \/ Commit(w)
             \/ Rollback(w)
      PROVE  DecideInv'
  BY <1>2, TypeStep, RequestMeant, ManageMeant, EndMeant
<1> QED
  BY <1>1, <1>2 DEF Next

LEMMA DecidedAlways == Spec => [](TypeInv /\ JoinInv /\ DecideInv)
<1>1. Init => DecideInv
  BY IdleIsMeant DEF Init, DecideInv
<1> QED
  BY <1>1, JoinedAlways, DecideStep, PTL DEF Spec

(* Only two kinds of steps touch the tables. *)
LEMMA TableSteps ==
  ASSUME [Next]_vars
  PROVE  \/ UNCHANGED <<member, current>>
         \/ \E w \in Workers, b \in Businesses : CreateBusiness(w, b)
         \/ \E w \in Workers : Commit(w)
<1>1. ASSUME NEW w \in Workers, NEW t \in Users, Manage(w, t)
      PROVE  member' = member /\ current' = current
  BY <1>1 DEF Manage, Invite, UpdateMember, UpdateMemberHalf, RemoveMember, Prepare
<1>2. \A w \in Workers :
        /\ \A u \in Users : LoadUser(w, u) => UNCHANGED <<member, current>>
        /\ \A b \in Businesses :
             ResolveNamed(w, b) \/ ResolveSole(w, b) \/ Switch(w, b)
               => UNCHANGED <<member, current>>
        /\ EnsureDefault(w) \/ Accept(w) \/ Rollback(w) => UNCHANGED <<member, current>>
  BY DEF LoadUser, ResolveNamed, ResolveSole, Switch, EnsureDefault, Accept, Rollback
<1>3. UNCHANGED vars => UNCHANGED <<member, current>>
  BY DEF vars
<1> QED
  BY <1>1, <1>2, <1>3 DEF Next

LEMMA EndingIsItsOwn ==
  ASSUME TypeInv, NEW v \in Workers, NEW w \in Workers, Ends(w),
         Commit(v) \/ \E b \in Businesses : CreateBusiness(v, b)
  PROVE  v = w
BY DEF TypeInv, TypeOK, Ends, Commit, CreateBusiness

(* For every interleaving of any number of workers: no invitation overwrites *)
(* a membership and no acceptance revives a withdrawn one.                    *)
THEOREM NoStaleDecision == Spec => StaleDecisionsAreRefused
<1> DEFINE Fresh(w) ==
             Ends(w) /\ member' # member /\ req[w].op \in {"invite", "accept"} =>
               member[req[w].biz][req[w].target].status \in
                 (IF req[w].op = "invite" THEN {"absent", "removed"} ELSE {"invited"})
<1>1. ASSUME TypeInv, JoinInv, DecideInv, [Next]_vars, NEW w \in Workers,
             Ends(w), member' # member, req[w].op \in {"invite", "accept"}
      PROVE  member[req[w].biz][req[w].target].status \in
               (IF req[w].op = "invite" THEN {"absent", "removed"} ELSE {"invited"})
  <2>1. PICK v \in Workers : Commit(v) \/ \E b \in Businesses : CreateBusiness(v, b)
    BY <1>1, TableSteps
  <2>2. v = w
    BY <1>1, <2>1, EndingIsItsOwn
  <2>3. ~ \E b \in Businesses : CreateBusiness(w, b)
    BY <1>1 DEF CreateBusiness, DecideInv, Meant
  <2>4. Commit(w) /\ req[w].dirty # {}
    BY <1>1, <2>1, <2>2, <2>3 DEF Commit
  <2> QED
    BY <1>1, <2>4, CommitIsOperation DEF R!Invite, R!Accept
<1>2. TypeInv /\ JoinInv /\ DecideInv /\ [Next]_vars => [\A w \in Workers : Fresh(w)]_vars
  BY <1>1
<1> QED
  BY <1>2, DecidedAlways, PTL DEF Spec, StaleDecisionsAreRefused

(* For every interleaving of any number of workers: what a request read       *)
(* before a removal does not bring the member back.                           *)
THEOREM RemovedStaysRemoved == Spec => RemovalOutlivesStaleRequests
<1> DEFINE Returns(b, u) == member[b][u].status = "removed" /\ member'[b][u].status # "removed"
           Anew == \E w \in Workers : /\ Ends(w)
                                      /\ req[w].op \in {"invite", "update"}
                                      /\ "status" \in req[w].dirty
<1>1. ASSUME TypeInv, JoinInv, DecideInv, [Next]_vars,
             NEW b \in Businesses, NEW u \in Users, Returns(b, u)
      PROVE  Anew
  <2>1. ASSUME NEW w \in Workers, NEW c \in Businesses, CreateBusiness(w, c)
        PROVE  FALSE
    BY <1>1, <2>1 DEF CreateBusiness, Exists, Absent, TypeInv, TypeOK
  <2>2. PICK w \in Workers : Commit(w)
    BY <1>1, <2>1, TableSteps
  <2>3. req[w].dirty # {} /\ Ends(w)
    BY <1>1, <2>2 DEF Commit, Ends, Idle, TypeInv, TypeOK
  <2>4. PICK row : /\ member' = [member EXCEPT ![req[w].biz][req[w].target] = row]
                   /\ member[req[w].biz][req[w].target].status = "removed"
                        /\ row.status # "removed" =>
                          req[w].op \in {"invite", "update"} /\ "status" \in req[w].dirty
    BY <1>1, <2>2, <2>3, CommitIsOperation
  <2>5. b = req[w].biz /\ u = req[w].target /\ member'[b][u] = row
    BY <1>1, <2>4 DEF TypeInv, TypeOK
  <2> QED
    BY <1>1, <2>3, <2>4, <2>5
<1>2. TypeInv /\ JoinInv /\ DecideInv /\ [Next]_vars =>
        [\A b \in Businesses, u \in Users : Returns(b, u) => Anew]_vars
  BY <1>1
<1> QED
  BY <1>2, DecidedAlways, PTL DEF Spec, RemovalOutlivesStaleRequests

(* For every interleaving of any number of workers: a PATCH answered 400 has  *)
(* saved neither a status nor a joined_at.                                    *)
THEOREM RefusalKeepsStatus == Spec => RefusedKeepsStatus
<1> DEFINE Kept == \A b \in Businesses, u \in Users :
                     /\ member'[b][u].status = member[b][u].status
                     /\ member'[b][u].joined = member[b][u].joined
<1>1. ASSUME TypeInv, DecideInv, [Next]_vars, NEW w \in Workers,
             Ends(w), req[w].reply = "refused"
      PROVE  Kept
  <2>1. CASE member' = member
    BY <2>1
  <2>2. CASE member' # member
    <3>1. PICK v \in Workers : Commit(v) \/ \E b \in Businesses : CreateBusiness(v, b)
      BY <1>1, <2>2, TableSteps
    <3>2. v = w /\ req[w].pc # "user"
      BY <1>1, <3>1, EndingIsItsOwn DEF DecideInv, Meant
    <3>3. Commit(w) /\ req[w].dirty # {}
      BY <2>2, <3>1, <3>2 DEF Commit, CreateBusiness
    <3>4. /\ req[w].dirty = {"role"}
          /\ req[w].biz \in Businesses /\ req[w].target \in Users
      BY <1>1, <3>3 DEF DecideInv, Meant, Decided, TypeInv, Framed
    <3> DEFINE now == member[req[w].biz][req[w].target]
               saved == Applied(req[w].dirty, req[w].new, now)
    <3>5. saved.status = now.status /\ saved.joined = now.joined
      BY <3>4 DEF Applied
    <3>6. member' = [member EXCEPT ![req[w].biz][req[w].target] = saved]
      BY <1>1, <3>3, <3>4 DEF Commit, TypeInv, TypeOK
    <3> HIDE DEF saved
    <3> QED
      BY <1>1, <3>4, <3>5, <3>6 DEF TypeInv, TypeOK
  <2> QED
    BY <2>1, <2>2
<1>2. TypeInv /\ JoinInv /\ DecideInv /\ [Next]_vars =>
        [\A w \in Workers : Ends(w) /\ req[w].reply = "refused" => Kept]_vars
  BY <1>1
<1> QED
  BY <1>2, DecidedAlways, PTL DEF Spec, RefusedKeepsStatus

(* A step of Memberships is one of Roster, or changes neither table. *)
LEMMA RosterStep ==
  TypeInv /\ JoinInv /\ DecideInv /\ [Next]_vars => [R!Next]_<<member, current>>
<1> SUFFICES ASSUME TypeInv, JoinInv, DecideInv, [Next]_vars
             PROVE  [R!Next]_<<member, current>>
  OBVIOUS
<1>1. ASSUME NEW w \in Workers, NEW b \in Businesses, CreateBusiness(w, b)
      PROVE  R!Next
  <2>1. req[w].actor \in Users
    BY <1>1 DEF CreateBusiness, TypeInv, Framed
  <2>2. R!Found(b, req[w].actor)
    BY <1>1 DEF CreateBusiness, Exists, R!Found, R!SetRow, R!Absent, R!Founder, Absent, Founder
  <2> QED
    BY <2>1, <2>2 DEF R!Next
<1>2. ASSUME NEW w \in Workers, Commit(w)
      PROVE  R!Next
  <2>1. R!ChangeMember \/ UNCHANGED member
    <3>1. CASE req[w].dirty = {}
      BY <1>2, <3>1 DEF Commit
    <3>2. CASE req[w].dirty # {}
      BY <1>2, <3>2, CommitIsOperation DEF R!ChangeMember
    <3> QED
      BY <3>1, <3>2
  <2>2. (\E u \in Users : R!Move(u)) \/ UNCHANGED current
    <3>1. CASE ~req[w].curDirty
      BY <1>2, <3>1 DEF Commit
    <3>2. CASE req[w].curDirty
      <4>1. /\ req[w] \in Request /\ req[w].actor \in Users
            /\ req[w].curNew # NoBusiness => member[req[w].curNew][req[w].actor].joined
        BY <1>2, <3>2 DEF Commit, TypeInv, TypeOK, Framed, JoinInv, Sound
      <4>2. current' = [current EXCEPT ![req[w].actor] = req[w].curNew]
        BY <1>2, <3>2 DEF Commit
      <4>3. R!Move(req[w].actor)
        BY <4>1, <4>2 DEF R!Move, Request
      <4> QED
        BY <4>1, <4>3
    <3> QED
      BY <3>1, <3>2
  <2> QED
    BY <2>1, <2>2 DEF R!Next
<1> QED
  BY <1>1, <1>2, TableSteps

(* For every interleaving of any number of workers: the committed tables      *)
(* change as the atomic operations of the lifecycle would change them.        *)
THEOREM RosterImplemented == Spec => ImplementsRoster
<1>1. Init => R!Init
  BY DEF Init, R!Init, R!Absent, Absent
<1> QED
  BY <1>1, RosterStep, DecidedAlways, PTL DEF Spec, ImplementsRoster, R!Spec, R!vars
-----------------------------------------------------------------------------
(* Owners.  What the owner guard decides holds at the commit only if nothing  *)
(* was committed in between: with two workers OwnersRace takes the last owner  *)
(* away.  With one worker the rows a request has loaded are the rows of the    *)
(* table, and every change it prepares is safe for the owners there are now.   *)

OneWorker == \A v, w \in Workers : v = w

(* Saving row t of a business is safe for its owners. *)
OwnerSafe(rows, actor, t, saved) ==
  /\ \E u \in Users : rows[u] # Absent
  /\ rows[t].role # "owner" /\ saved.role = "owner" => actor \in ActiveOwners(rows)
  /\ ActiveOwnerRow(rows[t]) /\ ~ActiveOwnerRow(saved) =>
       \/ saved.status \in StatusInputs \cap {"suspended", "invited"}
       \/ ActiveOwners(rows) \ {t} # {}

Guarded(r, rows) ==
  /\ r.pc = "scoped" => r.me = rows[r.biz][r.actor] /\ r.me.status = "active"
  /\ r.dirty # {} =>
       OwnerSafe(rows[r.biz], r.actor, r.target,
                 Applied(r.dirty, r.new, rows[r.biz][r.target]))

SerialInv == \A w \in Workers : Guarded(req[w], member)

LEMMA GuardedStepOfOneRequest ==
  ASSUME TypeInv, SerialInv, NEW w \in Workers, NEW r, Guarded(r, member),
         req' = [req EXCEPT ![w] = r], UNCHANGED <<member, current>>
  PROVE  SerialInv'
BY DEF TypeInv, TypeOK, SerialInv

LEMMA RequestGuarded ==
  ASSUME TypeInv, SerialInv, NEW w \in Workers,
         \/ \E u \in Users : LoadUser(w, u)
         \/ \E b \in Businesses : ResolveNamed(w, b)
         \/ \E b \in Businesses : ResolveSole(w, b)
         \/ \E b \in Businesses : Switch(w, b)
         \/ EnsureDefault(w)
         \/ Accept(w)
  PROVE  SerialInv'
<1>1. req[w] \in Request /\ Framed(req[w])
  BY DEF TypeInv, TypeOK
<1>0. req[w].pc = "user" => req[w].dirty = {}
  BY <1>1 DEF Framed
<1>2. ASSUME NEW r, r.pc # "scoped", r.dirty = {},
             req' = [req EXCEPT ![w] = r], UNCHANGED <<member, current>>
      PROVE  SerialInv'
  BY <1>2, GuardedStepOfOneRequest DEF Guarded
<1>3. ASSUME NEW u \in Users, LoadUser(w, u)
      PROVE  SerialInv'
  <2> DEFINE r == [Idle EXCEPT !.pc = "user", !.actor = u, !.cur = current[u]]
  <2>1. r.pc # "scoped" /\ r.dirty = {}
    BY DEF Idle
  <2>2. req' = [req EXCEPT ![w] = r] /\ UNCHANGED <<member, current>>
    BY <1>3 DEF LoadUser
  <2> HIDE DEF r
  <2> QED
    BY <1>2, <2>1, <2>2
<1>4. ASSUME NEW b \in Businesses, ResolveNamed(w, b) \/ ResolveSole(w, b)
      PROVE  SerialInv'
  <2>1. /\ req[w].pc = "user" /\ member[b][req[w].actor].status = "active"
        /\ UNCHANGED <<member, current>>
    BY <1>4 DEF ResolveNamed, ResolveSole, ActiveBusinesses
  <2> DEFINE named == [req[w] EXCEPT !.pc = "scoped", !.biz = b,
                                     !.me = member[b][req[w].actor]]
             sole == [named EXCEPT !.curDirty = TRUE, !.curRead = TRUE, !.curNew = b]
  <2>a. \A r \in {named, sole} :
          /\ r.biz = b /\ r.actor = req[w].actor /\ r.dirty = req[w].dirty
          /\ r.me = member[b][req[w].actor]
    BY <1>1 DEF Request
  <2>b. \/ req' = [req EXCEPT ![w] = named]
        \/ req' = [req EXCEPT ![w] = sole]
    BY <1>1, <1>4 DEF ResolveNamed, ResolveSole, Request
  <2> HIDE DEF named, sole
  <2>2. PICK r : /\ req' = [req EXCEPT ![w] = r]
                 /\ r.biz = b /\ r.actor = req[w].actor /\ r.dirty = req[w].dirty
                 /\ r.me = member[b][req[w].actor]
    BY <2>a, <2>b
  <2>3. Guarded(r, member)
    BY <1>0, <2>1, <2>2 DEF Guarded
  <2> QED
    BY <2>1, <2>2, <2>3, GuardedStepOfOneRequest
<1>5. ASSUME NEW b \in Businesses, Switch(w, b)
      PROVE  SerialInv'
  <2> DEFINE r == [req[w] EXCEPT !.pc = "checked", !.op = "switch",
                                 !.curDirty = TRUE, !.curNew = b]
  <2>1. r.pc # "scoped" /\ r.dirty = {}
    BY <1>0, <1>1, <1>5 DEF Request, Switch
  <2>2. req' = [req EXCEPT ![w] = r] /\ UNCHANGED <<member, current>>
    BY <1>5 DEF Switch
  <2> HIDE DEF r
  <2> QED
    BY <1>2, <2>1, <2>2
<1>6. CASE EnsureDefault(w)
  <2> DEFINE r == [req[w] EXCEPT !.pc = "checked", !.op = "default",
                                 !.curDirty = TRUE, !.curRead = TRUE,
                                 !.curNew = SoleBusiness(req[w].actor)]
  <2>1. r.pc # "scoped" /\ r.dirty = {}
    BY <1>0, <1>1, <1>6 DEF Request, EnsureDefault
  <2>2. req' = [req EXCEPT ![w] = r] /\ UNCHANGED <<member, current>>
    BY <1>6 DEF EnsureDefault
  <2> HIDE DEF r
  <2> QED
    BY <1>2, <2>1, <2>2
<1>7. CASE Accept(w)
  <2> DEFINE b == req[w].cur
             u == req[w].actor
             row == member[b][u]
             new == [row EXCEPT !.status = "active", !.joined = TRUE]
             r == [req[w] EXCEPT !.pc = "checked", !.op = "accept",
                                 !.biz = b, !.target = u, !.old = row, !.new = new,
                                 !.dirty = {"status", "joined"},
                                 !.read = {"status", "joined"}]
  <2>1. b \in Businesses /\ u \in Users /\ row.status = "invited"
    BY <1>1, <1>7 DEF Request, Framed, Accept
  <2>2. row # Absent /\ ~ActiveOwnerRow(row)
    BY <2>1 DEF Absent, ActiveOwnerRow
  <2>3. Applied({"status", "joined"}, new, row).role = row.role
    BY DEF Applied
  <2>4. /\ r.pc = "checked" /\ r.biz = b /\ r.actor = u /\ r.target = u /\ r.new = new
        /\ r.dirty = {"status", "joined"}
    BY <1>1 DEF Request
  <2>5. req' = [req EXCEPT ![w] = r] /\ UNCHANGED <<member, current>>
    BY <1>7 DEF Accept
  <2> HIDE DEF r, new
  <2>6. OwnerSafe(member[b], u, u, Applied({"status", "joined"}, new, row))
    BY <2>1, <2>2, <2>3 DEF OwnerSafe
  <2>7. Guarded(r, member)
    BY <2>4, <2>6 DEF Guarded
  <2> QED
    BY <2>5, <2>7, GuardedStepOfOneRequest
<1> QED
  BY <1>3, <1>4, <1>5, <1>6, <1>7

LEMMA PrepareGuarded ==
  ASSUME TypeInv, SerialInv, NEW w \in Workers,
         NEW op, NEW t, NEW old, NEW new, NEW dirty, NEW read, NEW reply,
         dirty # {} =>
           OwnerSafe(member[req[w].biz], req[w].actor, t,
                     Applied(dirty, new, member[req[w].biz][t])),
         Prepare(w, op, t, old, new, dirty, read, reply)
  PROVE  SerialInv'
<1> DEFINE r == [req[w] EXCEPT !.pc = "checked", !.op = op, !.target = t,
                               !.old = old, !.new = new, !.dirty = dirty,
                               !.read = read, !.reply = reply]
<1>1. req[w] \in Request
  BY DEF TypeInv, TypeOK
<1>2. /\ r.pc = "checked" /\ r.biz = req[w].biz /\ r.target = t
      /\ r.actor = req[w].actor /\ r.new = new /\ r.dirty = dirty
  BY <1>1 DEF Request
<1>3. req' = [req EXCEPT ![w] = r] /\ UNCHANGED <<member, current>>
  BY DEF Prepare
<1> HIDE DEF r
<1>4. Guarded(r, member)
  BY <1>2 DEF Guarded
<1> QED
  BY <1>3, <1>4, GuardedStepOfOneRequest

(* What a manager has loaded is what is in the table, the manager included. *)
LEMMA LoadedIsCurrent ==
  ASSUME TypeInv, SerialInv, NEW w \in Workers, Managing(w), NEW t \in Users
  PROVE  LET b == req[w].biz
             u == req[w].actor
         IN /\ b \in Businesses /\ u \in Users
            /\ Loaded(w, t) = member[b][t] /\ member[b][t] \in Row
            /\ member[b][u] # Absent
            /\ req[w].me.role = "owner" => u \in ActiveOwners(member[b])
<1>1. /\ req[w].pc = "scoped" /\ req[w].biz \in Businesses /\ req[w].actor \in Users
      /\ req[w].me = member[req[w].biz][req[w].actor] /\ req[w].me.status = "active"
  BY DEF Managing, TypeInv, TypeOK, Framed, SerialInv, Guarded
<1> QED
  BY <1>1 DEF Loaded, Absent, ActiveOwners, ActiveOwnerRow, TypeInv, TypeOK

(* ensure_can_remove_or_demote_owner lets an owner go only if another one     *)
(* stays.                                                                    *)
LEMMA AnotherOwnerStays ==
  ASSUME TypeInv, NEW w \in Workers, NEW t \in Users, req[w].biz \in Businesses,
         ActiveOwnerRow(member[req[w].biz][t]),
         MayLose(w, t, member[req[w].biz][t])
  PROVE  ActiveOwners(member[req[w].biz]) \ {t} # {}
<1> DEFINE rows == member[req[w].biz]
<1>1. [rows EXCEPT ![t] = rows[t]] = rows
  BY DEF TypeInv, TypeOK
<1>2. ~(Cardinality(ActiveOwners(rows)) <= 1)
  BY <1>1 DEF MayLose, LastOwner
<1>3. t \in ActiveOwners(rows)
  BY DEF ActiveOwners
<1>4. Cardinality({t}) = 1
  BY FS_Singleton
<1> HIDE DEF rows
<1>5. ActiveOwners(rows) # {t}
  BY <1>2, <1>4
<1> QED
  BY <1>3, <1>5 DEF rows

LEMMA ManageGuarded ==
  ASSUME TypeInv, SerialInv, NEW w \in Workers, NEW t \in Users, Manage(w, t)
  PROVE  SerialInv'
<1> DEFINE b == req[w].biz
           u == req[w].actor
           now == member[b][t]
<1>1. /\ Managing(w)
      /\ b \in Businesses /\ u \in Users /\ Loaded(w, t) = now /\ now \in Row
      /\ member[b][u] # Absent
      /\ req[w].me.role = "owner" => u \in ActiveOwners(member[b])
  <2>1. Managing(w)
    BY DEF Manage, Invite, UpdateMember, UpdateMemberHalf, RemoveMember
  <2> QED
    BY <2>1, LoadedIsCurrent
<1>2. ActiveOwnerRow(now) /\ MayLose(w, t, now) => ActiveOwners(member[b]) \ {t} # {}
  BY <1>1, AnotherOwnerStays
<1>3. ASSUME NEW role \in RoleInputs, Invite(w, t, role)
      PROVE  SerialInv'
  <2> DEFINE new == [now EXCEPT !.role = role, !.status = "invited"]
             saved == Applied({"role", "status"}, new, now)
  <2>1. now.status \in {"absent", "removed"} /\ role # "owner"
    BY <1>3 DEF Invite
  <2>2. ~ActiveOwnerRow(now) /\ saved.role # "owner"
    BY <1>1, <2>1 DEF ActiveOwnerRow, Applied, Row
  <2>3. Prepare(w, "invite", t, now, new, {"role", "status"}, {"status"}, "ok")
    BY <1>3 DEF Invite
  <2> HIDE DEF now, new
  <2>4. OwnerSafe(member[b], u, t, saved)
    BY <1>1, <2>2 DEF OwnerSafe, now
  <2> QED
    BY <2>3, <2>4, PrepareGuarded DEF now
(* A PATCH of the role, of the status, or of both. *)
<1>4. ASSUME NEW role \in RoleInputs \cup {Keep}, NEW new, NEW dirty,
             RoleAllowed(w, t, now, role),
             "role" \in dirty => role # Keep /\ new.role = role,
             now.role = "owner" /\ role # Keep /\ role # "owner" => "role" \in dirty,
             "status" \in dirty =>
               \/ new.status = "active"
               \/ new.status \in StatusInputs \cap {"suspended", "invited"}
               \/ /\ new.status = "removed"
                  /\ WithRole(now, role).role = "owner" => MayLose(w, t, WithRole(now, role))
      PROVE  OwnerSafe(member[b], u, t, Applied(dirty, new, now))
  <2> DEFINE saved == Applied(dirty, new, now)
  <2>1. /\ saved.role = IF "role" \in dirty THEN new.role ELSE now.role
        /\ saved.status = IF "status" \in dirty THEN new.status ELSE now.status
    BY DEF Applied
  <2> HIDE DEF saved
  <2>2. ASSUME now.role # "owner", saved.role = "owner"
        PROVE  u \in ActiveOwners(member[b])
    <3>1. role = "owner" /\ role # Keep
      BY <1>4, <2>1, <2>2
    <3> QED
      BY <1>1, <1>4, <3>1 DEF RoleAllowed, RoleManagers
  <2>3. ASSUME ActiveOwnerRow(now), ~ActiveOwnerRow(saved)
        PROVE  \/ saved.status \in StatusInputs \cap {"suspended", "invited"}
               \/ ActiveOwners(member[b]) \ {t} # {}
    <3>1. now.role = "owner" /\ now.status = "active"
      BY <2>3 DEF ActiveOwnerRow
    <3>2. CASE role # Keep /\ role # "owner"
      BY <1>2, <1>4, <2>3, <3>1, <3>2 DEF RoleAllowed
    <3>3. CASE role = Keep \/ role = "owner"
      <4>1. saved.role = "owner"
        BY <1>4, <2>1, <3>1, <3>3
      <4>2. WithRole(now, role) = now
        BY <1>1, <3>1, <3>3 DEF WithRole, Row
      <4>3. saved.status # "active"
        BY <2>3, <4>1 DEF ActiveOwnerRow
      <4>4. CASE "status" \in dirty /\ new.status = "removed"
        BY <1>2, <1>4, <2>3, <3>1, <4>2, <4>4
      <4>5. CASE ~("status" \in dirty /\ new.status = "removed")
        BY <1>4, <2>1, <3>1, <4>3, <4>5
      <4> QED
        BY <4>4, <4>5
    <3> QED
      BY <3>2, <3>3
  <2> QED
    BY <1>1, <2>2, <2>3 DEF OwnerSafe, saved
<1>5. ASSUME NEW role \in RoleInputs \cup {Keep}, NEW status \in StatusInputs \cup {Keep},
             UpdateMember(w, t, role, status)
      PROVE  SerialInv'
  <2> DEFINE taken == WithRole(now, role)
             set == [taken EXCEPT !.status = status,
                                  !.joined = @ \/ status = "active"]
             new == IF status = Keep THEN taken ELSE set
             dirty == (IF role # Keep THEN {"role"} ELSE {})
                      \cup (IF status # Keep THEN {"status"} ELSE {})
                      \cup (IF status = "active" THEN {"joined"} ELSE {})
             read == PatchReads(w, t, now, role, status)
  <2>1. /\ RoleAllowed(w, t, now, role) /\ status # Bogus
        /\ status = "removed" /\ taken.role = "owner" => MayLose(w, t, taken)
        /\ Prepare(w, "update", t, now, new, dirty, read, "ok")
    BY <1>1, <1>5 DEF UpdateMember
  <2>2. taken \in Row /\ (role # Keep => taken.role = role)
    <3>1. taken \in Row
      BY <1>1, <2>1, PatchedRow
    <3>2. role # Keep => taken.role = role
      BY <1>1 DEF WithRole, Row
    <3> QED
      BY <3>1, <3>2
  <2>3. new.role = taken.role /\ (status # Keep => new.status = status)
    BY <2>2 DEF Row
  <2>4. /\ "role" \in dirty <=> role # Keep
        /\ "status" \in dirty <=> status # Keep
    OBVIOUS
  <2>5. status # Keep => status \in {"active", "removed"} \cup
                                    (StatusInputs \cap {"suspended", "invited"})
    BY <2>1, InputAssumption DEF Statuses
  <2> HIDE DEF now, set, new, dirty, read
  <2>6. OwnerSafe(member[b], u, t, Applied(dirty, new, now))
    BY <1>4, <2>1, <2>2, <2>3, <2>4, <2>5
  <2> QED
    BY <2>1, <2>6, PrepareGuarded DEF now
<1>6. ASSUME NEW role \in RoleInputs, NEW status \in StatusInputs,
             UpdateMemberHalf(w, t, role, status)
      PROVE  SerialInv'
  <2> DEFINE taken == WithRole(now, role)
             read == PatchReads(w, t, now, role, status)
  <2>1. /\ RoleAllowed(w, t, now, role) /\ role # Keep
        /\ Prepare(w, "update", t, now, taken, {"role"}, read, "refused")
    BY <1>1, <1>6 DEF UpdateMemberHalf
  <2>2. taken.role = role
    BY <1>1, <2>1 DEF WithRole, Row
  <2> HIDE DEF now, taken, read
  <2>3. OwnerSafe(member[b], u, t, Applied({"role"}, taken, now))
    BY <1>4, <2>1, <2>2
  <2> QED
    BY <2>1, <2>3, PrepareGuarded DEF now
<1>7. ASSUME RemoveMember(w, t)
      PROVE  SerialInv'
  <2> DEFINE new == [now EXCEPT !.status = "removed"]
             read == IF now.role = "owner" THEN {"role", "status"} ELSE {"role"}
             saved == Applied({"status"}, new, now)
  <2>1. /\ MayLose(w, t, now)
        /\ Prepare(w, "remove", t, now, new, {"status"}, read, "ok")
    BY <1>1, <1>7 DEF RemoveMember
  <2>2. saved.role = now.role
    BY DEF Applied
  <2> HIDE DEF now, new, read
  <2>3. OwnerSafe(member[b], u, t, saved)
    BY <1>1, <1>2, <2>1, <2>2 DEF OwnerSafe, now
  <2> QED
    BY <2>1, <2>3, PrepareGuarded DEF now
<1> QED
  BY <1>3, <1>5, <1>6, <1>7 DEF Manage

LEMMA SerialStep ==
  OneWorker /\ TypeInv /\ SerialInv /\ [Next]_vars => SerialInv'
<1> SUFFICES ASSUME OneWorker, TypeInv, SerialInv, [Next]_vars
             PROVE  SerialInv'
  OBVIOUS
<1>1. CASE UNCHANGED vars
  BY <1>1 DEF SerialInv, vars
<1>2. ASSUME NEW w \in Workers,
             \/ \E b \in Businesses : CreateBusiness(w, b)
             \/ Commit(w)
             \/ Rollback(w)
      PROVE  SerialInv'
  <2>1. \A v \in Workers : req'[v] = Idle
    BY <1>2 DEF OneWorker, TypeInv, TypeOK, CreateBusiness, Commit, Rollback
  <2> QED
    BY <2>1 DEF SerialInv, Guarded, Idle
<1> QED
  BY <1>1, <1>2, RequestGuarded, ManageGuarded DEF Next

(* What one step can do to the owners of a business. *)
LEMMA OwnerStep ==
  ASSUME TypeInv, SerialInv, [Next]_vars, NEW b \in Businesses,
         member'[b] # member[b]
  PROVE  \/ /\ ~Exists(b)
            /\ \E u \in Users : member'[b] = [member[b] EXCEPT ![u] = Founder]
         \/ \E w \in Workers, t \in Users : \E row :
              /\ Ends(w) /\ req[w].actor \in Users
              /\ member'[b] = [member[b] EXCEPT ![t] = row]
              /\ OwnerSafe(member[b], req[w].actor, t, row)
<1>1. CASE \E w \in Workers, c \in Businesses : CreateBusiness(w, c)
  <2>1. PICK w \in Workers, c \in Businesses : CreateBusiness(w, c)
    BY <1>1
  <2>2. req[w].actor \in Users
    BY <2>1 DEF CreateBusiness, TypeInv, Framed
  <2> QED
    BY <2>1, <2>2 DEF CreateBusiness, TypeInv, TypeOK
<1>2. CASE \E w \in Workers : Commit(w)
  <2>1. PICK w \in Workers : Commit(w)
    BY <1>2
  <2> DEFINE r == req[w]
             saved == Applied(r.dirty, r.new, member[r.biz][r.target])
  <2>2. r.dirty # {} /\ r.biz \in Businesses /\ r.target \in Users /\ r.actor \in Users
    BY <2>1 DEF Commit, TypeInv, Framed
  <2>3. member' = [member EXCEPT ![r.biz][r.target] = saved]
    BY <2>1, <2>2 DEF Commit, TypeInv, TypeOK
  <2>4. OwnerSafe(member[r.biz], r.actor, r.target, saved)
    BY <2>2 DEF SerialInv, Guarded
  <2>5. Ends(w)
    BY <2>1 DEF Commit, Ends, Idle, TypeInv, TypeOK
  <2> HIDE DEF saved
  <2>6. b = r.biz /\ member'[b] = [member[b] EXCEPT ![r.target] = saved]
    BY <2>2, <2>3 DEF TypeInv, TypeOK
  <2> QED
    BY <2>2, <2>4, <2>5, <2>6
<1> QED
  BY <1>1, <1>2, TableSteps

LEMMA SerialAlways == OneWorker => (Spec => [](TypeInv /\ SerialInv))
<1>1. Init => TypeInv
  <2>1. Absent \in Row /\ Framed(Idle)
    BY DEF Absent, Row, Framed, Idle
  <2> QED
    BY <2>1, IdleIsRequest DEF Init, TypeInv, TypeOK
<1>2. Init => SerialInv
  BY DEF Init, SerialInv, Guarded, Idle
<1> SUFFICES ASSUME OneWorker PROVE Spec => [](TypeInv /\ SerialInv)
  OBVIOUS
<1>3. TypeInv /\ SerialInv /\ [Next]_vars => SerialInv'
  BY SerialStep
<1> QED
  BY <1>1, <1>2, <1>3, TypeStep, PTL DEF Spec

(* One request at a time: the owner role is given by an active owner, for     *)
(* any users, businesses and inputs.                                          *)
THEOREM OwnersMakeOwners == OneWorker => (Spec => OwnerGrantedByOwner)
<1> SUFFICES ASSUME OneWorker PROVE Spec => OwnerGrantedByOwner
  OBVIOUS
<1> DEFINE Becomes(b, u) == member[b][u].role # "owner" /\ member'[b][u].role = "owner"
           ByOwner(b) == \E w \in Workers : Ends(w) /\ req[w].actor \in ActiveOwners(member[b])
<1>1. ASSUME TypeInv, SerialInv, [Next]_vars,
             NEW b \in Businesses, NEW u \in Users, Becomes(b, u), Exists(b)
      PROVE  ByOwner(b)
  <2> DEFINE Saves(w, t, row) == /\ member'[b] = [member[b] EXCEPT ![t] = row]
                                 /\ OwnerSafe(member[b], req[w].actor, t, row)
  <2>0. PICK w \in Workers, t \in Users : Ends(w) /\ \E row : Saves(w, t, row)
    BY <1>1, OwnerStep
  <2>1. PICK row : Saves(w, t, row)
    BY <2>0
  <2>2. u = t /\ row.role = "owner"
    BY <1>1, <2>1 DEF TypeInv, TypeOK
  <2> QED
    BY <1>1, <2>0, <2>1, <2>2 DEF OwnerSafe
<1>2. TypeInv /\ SerialInv /\ [Next]_vars =>
        [\A b \in Businesses, u \in Users :
           Becomes(b, u) => \/ ~Exists(b)
                            \/ ByOwner(b)]_vars
  BY <1>1
<1> QED
  BY <1>2, SerialAlways, PTL DEF Spec, OwnerGrantedByOwner

(* One request at a time: what takes the last active owner away is a PATCH    *)
(* that suspends them or sends them back to invited.                          *)
THEOREM LastOwnerIsSuspended == OneWorker => (Spec => OwnerLossOnlyBySuspension)
<1> SUFFICES ASSUME OneWorker PROVE Spec => OwnerLossOnlyBySuspension
  OBVIOUS
<1> DEFINE Loses(b) == ActiveOwners(member[b]) # {} /\ ActiveOwners(member'[b]) = {}
           Suspends(b) == \E u \in ActiveOwners(member[b]) :
                            member'[b][u].status \in {"suspended", "invited"}
<1>1. ASSUME TypeInv, SerialInv, [Next]_vars, NEW b \in Businesses, Loses(b)
      PROVE  Suspends(b)
  <2>1. Exists(b)
    BY <1>1 DEF ActiveOwners, ActiveOwnerRow, Exists, Absent
  <2> DEFINE Saves(w, t, row) == /\ member'[b] = [member[b] EXCEPT ![t] = row]
                                 /\ OwnerSafe(member[b], req[w].actor, t, row)
  <2>0. PICK w \in Workers, t \in Users : \E row : Saves(w, t, row)
    BY <1>1, <2>1, OwnerStep
  <2>2. PICK row : Saves(w, t, row)
    BY <2>0
  <2>3. \A u \in Users : member'[b][u] = IF u = t THEN row ELSE member[b][u]
    BY <1>1, <2>2 DEF TypeInv, TypeOK
  <2>4. ActiveOwners(member[b]) \ {t} = {} /\ t \in ActiveOwners(member[b])
    BY <1>1, <2>3 DEF ActiveOwners
  <2>5. ActiveOwnerRow(member[b][t]) /\ ~ActiveOwnerRow(row)
    BY <1>1, <2>3, <2>4 DEF ActiveOwners
  <2>6. row.status \in {"suspended", "invited"}
    BY <2>2, <2>4, <2>5 DEF OwnerSafe
  <2> QED
    BY <2>3, <2>4, <2>6
<1>2. TypeInv /\ SerialInv /\ [Next]_vars => [\A b \in Businesses : Loses(b) => Suspends(b)]_vars
  BY <1>1
<1> QED
  BY <1>2, SerialAlways, PTL DEF Spec, OwnerLossOnlyBySuspension

(* The two runs that find a business without an owner have found all there    *)
(* is to find: one request at a time, and clients that name neither of those   *)
(* two statuses, and "every business must have at least one owner" is true.    *)
THEOREM OwnerKept ==
  OneWorker /\ StatusInputs \cap {"suspended", "invited"} = {} =>
    (Spec => []EveryBusinessHasOwner)
<1> SUFFICES ASSUME OneWorker, StatusInputs \cap {"suspended", "invited"} = {}
             PROVE  Spec => []EveryBusinessHasOwner
  OBVIOUS
<1>1. Init => EveryBusinessHasOwner
  BY DEF Init, EveryBusinessHasOwner, Exists
<1>2. ASSUME TypeInv, SerialInv, EveryBusinessHasOwner, [Next]_vars,
             NEW b \in Businesses, Exists(b)'
      PROVE  ActiveOwners(member'[b]) # {}
  <2>1. CASE member'[b] = member[b]
    BY <1>2, <2>1 DEF EveryBusinessHasOwner, Exists
  <2>2. ASSUME NEW u \in Users, member'[b] = [member[b] EXCEPT ![u] = Founder]
        PROVE  ActiveOwners(member'[b]) # {}
    <3>1. member'[b][u] = Founder
      <4>1. member[b] \in [Users -> Row]
        BY <1>2 DEF TypeInv, TypeOK
      <4> QED
        BY <2>2, <4>1
    <3> QED
      BY <3>1 DEF ActiveOwners, ActiveOwnerRow, Founder
  <2>3. ASSUME NEW actor, NEW t \in Users, NEW row,
               member'[b] = [member[b] EXCEPT ![t] = row],
               OwnerSafe(member[b], actor, t, row)
        PROVE  ActiveOwners(member'[b]) # {}
    <3>1. \A u \in Users : member'[b][u] = IF u = t THEN row ELSE member[b][u]
      BY <1>2, <2>3 DEF TypeInv, TypeOK
    <3>2. PICK o \in Users : ActiveOwnerRow(member[b][o])
      BY <1>2, <2>3 DEF OwnerSafe, EveryBusinessHasOwner, Exists, ActiveOwners
    <3>3. CASE o # t \/ ActiveOwnerRow(row)
      BY <3>1, <3>2, <3>3 DEF ActiveOwners
    <3>4. CASE o = t /\ ~ActiveOwnerRow(row)
      <4>1. PICK p \in Users \ {t} : ActiveOwnerRow(member[b][p])
        BY <2>3, <3>2, <3>4 DEF OwnerSafe, ActiveOwners
      <4> QED
        BY <3>1, <4>1 DEF ActiveOwners
    <3> QED
      BY <3>3, <3>4
  <2> QED
    BY <1>2, <2>1, <2>2, <2>3, OwnerStep
<1>3. TypeInv /\ SerialInv /\ EveryBusinessHasOwner /\ [Next]_vars => EveryBusinessHasOwner'
  BY <1>2 DEF EveryBusinessHasOwner
<1> QED
  BY <1>1, <1>3, SerialAlways, PTL DEF Spec

=============================================================================
