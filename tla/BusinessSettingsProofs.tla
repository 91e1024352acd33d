----------------------- MODULE BusinessSettingsProofs -----------------------
(***************************************************************************)
(* Theorems about BusinessSettings, for every set of keys, fields, values   *)
(* and workers.                                                             *)
(***************************************************************************)
EXTENDS BusinessSettings, TLAPS

(* A PATCH in progress that sends an owner-only key is an owner's. *)
OwnerKeysSentByOwner ==
  \A w \in Workers :
    Sent(req[w].incoming) \cap OwnerKeys # {} => req[w].role = "owner"

(* What a request has assigned is what its body sent; a request that will be *)
(* answered 200 has assigned all of it.                                      *)
AssignedAsSent ==
  \A w \in Workers :
    /\ \A f \in Fields : req[w].new[f] # Keep => req[w].new[f] = req[w].sent[f]
    /\ req[w].pc = "assigned" => req[w].new = req[w].sent

Inv == TypeOK /\ NoLostUpdate /\ OwnerKeysSentByOwner /\ AssignedAsSent /\ FieldsAsAnswered

LEMMA MergedSettings ==
  ASSUME NEW current \in Settings, NEW incoming \in SettingsPatches
  PROVE  MergeSettings(current, incoming) \in Settings
BY DEF MergeSettings, Settings, SettingsPatches, Sent

(* The conjuncts that speak of one request. *)
Sound(r) ==
  /\ r \in Request
  /\ Sent(r.incoming) \cap OwnerKeys # {} => r.role = "owner"
  /\ \A f \in Fields : r.new[f] # Keep => r.new[f] = r.sent[f]
  /\ r.pc = "assigned" => r.new = r.sent

LEMMA IdleIsSound == Sound(Idle)
BY DEF Sound, Idle, Request, Roles, Settings, SettingsPatches, Sent, Columns, NoColumns

(* Only request w changes, to a sound one. *)
LEMMA OneRequest ==
  ASSUME Inv, NEW w \in Workers, NEW r, Sound(r),
         req' = [req EXCEPT ![w] = r],
         settings' \in Settings, acked' = settings',
         fields' \in [Fields -> FieldValues],
         told' \in [Fields -> SUBSET FieldValues],
         FieldsAsAnswered'
  PROVE  Inv'
<1>1. req' \in [Workers -> Request]
  BY DEF Inv, TypeOK, Sound
<1>2. OwnerKeysSentByOwner'
  BY DEF Inv, TypeOK, OwnerKeysSentByOwner, Sound
<1>3. AssignedAsSent'
  BY DEF Inv, TypeOK, AssignedAsSent, Sound
<1> QED
  BY <1>1, <1>2, <1>3 DEF Inv, TypeOK, NoLostUpdate

LEMMA OnlyColumns ==
  ASSUME NEW patch \in FieldPatches, NEW names \in SUBSET Storable(patch)
  PROVE  /\ Only(names, patch) \in Columns
         /\ \A f \in Fields : Only(names, patch)[f] =
                             IF f \in names THEN patch[f] ELSE Keep
BY DEF Only, Columns, Storable, Sent, FieldPatches

(* A PATCH of the profile changes no row before it is committed. *)
LEMMA AssignStep ==
  ASSUME Inv, NEW w \in Workers, NEW patch \in FieldPatches,
         NEW pc \in {"assigned", "refused"}, NEW names \in SUBSET Storable(patch),
         pc = "assigned" => names = Storable(patch),
         Assign(w, pc, names, patch)
  PROVE  Inv'
<1> DEFINE sent == Only(Storable(patch), patch)
           new  == Only(names, patch)
           r    == [Idle EXCEPT !.pc = pc, !.sent = sent, !.new = new]
<1>1. sent \in Columns /\ new \in Columns
  BY OnlyColumns
<1>2. \A f \in Fields : new[f] # Keep => new[f] = sent[f]
  BY OnlyColumns
<1>3. pc = "assigned" => new = sent
  OBVIOUS
<1>4. req' = [req EXCEPT ![w] = r] /\ UNCHANGED <<settings, fields, acked, told>>
  BY DEF Assign
<1>5. Sound(r)
  <2> HIDE DEF sent, new
  <2>1. /\ r.pc = pc /\ r.sent = sent /\ r.new = new
        /\ r.incoming = Idle.incoming /\ r.role = Idle.role /\ r.read = Idle.read
    BY DEF Idle
  <2>2. r \in Request
    BY <1>1, IdleIsSound DEF Idle, Sound, Request
  <2> QED
    BY <1>2, <1>3, <2>1, <2>2, IdleIsSound DEF Sound
<1> HIDE DEF r
<1> QED
  BY <1>4, <1>5, OneRequest DEF Inv, TypeOK, NoLostUpdate, FieldsAsAnswered

LEMMA SaveFieldsStep ==
  ASSUME Inv, NEW w \in Workers, SaveFields(w)
  PROVE  Inv'
<1> DEFINE r == req[w]
<1>1. r \in Request
  BY DEF Inv, TypeOK
<1>2. /\ Sent(r.new) \in SUBSET Fields /\ Sent(r.sent) \in SUBSET Fields
      /\ \A f \in Sent(r.new) : r.new[f] \in FieldValues
      /\ \A f \in Sent(r.sent) : r.sent[f] \in FieldValues
  BY <1>1 DEF Request, Columns, Sent
<1>3. \A f \in Sent(r.new) : f \in Sent(r.sent) /\ r.new[f] = r.sent[f]
  BY <1>1, <1>2 DEF Inv, AssignedAsSent, Request, Columns, Sent
<1>4. r.pc = "assigned" => Sent(r.new) = Sent(r.sent)
  BY DEF Inv, AssignedAsSent
<1>5. fields' \in [Fields -> FieldValues]
  BY <1>2 DEF SaveFields, Inv, TypeOK
<1>6. told' = [f \in Fields |->
                 IF f \notin Sent(r.sent) THEN told[f]
                 ELSE IF r.pc = "assigned" THEN {r.sent[f]}
                 ELSE told[f] \cup {r.sent[f]}]
  BY DEF SaveFields
<1>7. told' \in [Fields -> SUBSET FieldValues]
  BY <1>2, <1>6 DEF Inv, TypeOK
<1>8. FieldsAsAnswered'
  <2> SUFFICES ASSUME NEW f \in Fields
               PROVE  fields'[f] \in told'[f]
    BY DEF FieldsAsAnswered
  <2>1. fields[f] \in told[f]
    BY DEF Inv, FieldsAsAnswered
  <2>2. fields'[f] = IF f \in Sent(r.new) THEN r.new[f] ELSE fields[f]
    BY DEF SaveFields
  <2> QED
    BY <1>3, <1>4, <1>6, <2>1, <2>2
<1>9. req' = [req EXCEPT ![w] = Idle] /\ UNCHANGED <<settings, acked>>
  BY DEF SaveFields
<1> QED
  BY <1>5, <1>7, <1>8, <1>9, IdleIsSound, OneRequest DEF Inv, TypeOK, NoLostUpdate

LEMMA InitInv == Init => Inv
<1> SUFFICES ASSUME Init
             PROVE  Inv
  OBVIOUS
<1>1. \A w \in Workers : req[w] = Idle
  BY DEF Init
<1>2. TypeOK
  BY <1>1, IdleIsSound DEF Init, TypeOK, Settings, Sound
<1> QED
  BY <1>1, <1>2, IdleIsSound
  DEF Init, Inv, NoLostUpdate, OwnerKeysSentByOwner, AssignedAsSent, FieldsAsAnswered, Sound

LEMMA StepInv == Inv /\ [Next]_vars => Inv'
<1> SUFFICES ASSUME Inv, [Next]_vars
             PROVE  Inv'
  OBVIOUS
<1>1. ASSUME NEW w \in Workers, NEW role \in Roles, NEW incoming \in SettingsPatches,
             UpdateSettings(w, role, incoming)
      PROVE  Inv'
  <2> DEFINE r == [Idle EXCEPT !.pc = "merged", !.role = role,
                               !.read = settings, !.incoming = incoming]
  <2>1. /\ r.pc = "merged" /\ r.role = role /\ r.read = settings
        /\ r.incoming = incoming /\ r.new = Idle.new /\ r.sent = Idle.sent
    BY DEF Idle
  <2>2. r \in Request
    BY IdleIsSound DEF Idle, Sound, Request, Inv, TypeOK
  <2>3. Sent(r.incoming) \cap OwnerKeys # {} => r.role = "owner"
    BY <1>1, <2>1 DEF UpdateSettings
  <2>4. Sound(r)
    BY <2>1, <2>2, <2>3, IdleIsSound DEF Sound
  <2>5. req' = [req EXCEPT ![w] = r] /\ UNCHANGED <<settings, fields, acked, told>>
    BY <1>1 DEF UpdateSettings
  <2> HIDE DEF r
  <2> QED
    BY <2>4, <2>5, OneRequest DEF Inv, TypeOK, NoLostUpdate, FieldsAsAnswered
<1>2. ASSUME NEW w \in Workers, SaveSettings(w)
      PROVE  Inv'
  <2>1. req[w] \in Request
    BY DEF Inv, TypeOK
  <2>2. settings' \in Settings
    BY <1>2, <2>1, MergedSettings DEF SaveSettings, Request
  <2>3. settings' = acked'
    BY <1>2 DEF SaveSettings, StillCurrent, Inv, NoLostUpdate
  <2>4. req' = [req EXCEPT ![w] = Idle] /\ UNCHANGED <<fields, told>>
    BY <1>2 DEF SaveSettings
  <2> QED
    BY <2>2, <2>3, <2>4, IdleIsSound, OneRequest DEF Inv, TypeOK, FieldsAsAnswered
<1>3. ASSUME NEW w \in Workers, Abort(w)
      PROVE  Inv'
  BY <1>3, IdleIsSound, OneRequest DEF Abort, Inv, TypeOK, NoLostUpdate, FieldsAsAnswered
<1>4. ASSUME NEW w \in Workers, NEW role \in Roles, NEW patch \in FieldPatches,
             UpdateFields(w, role, patch)
      PROVE  Inv'
  BY <1>4, AssignStep DEF UpdateFields
<1>5. ASSUME NEW w \in Workers, NEW role \in Roles, NEW patch \in FieldPatches,
             UpdateFieldsHalf(w, role, patch)
      PROVE  Inv'
  BY <1>5, AssignStep DEF UpdateFieldsHalf
<1>6. ASSUME NEW w \in Workers, SaveFields(w)
      PROVE  Inv'
  BY <1>6, SaveFieldsStep
<1>7. CASE UNCHANGED vars
  BY <1>7 DEF vars, Inv, TypeOK, NoLostUpdate, OwnerKeysSentByOwner, AssignedAsSent,
              FieldsAsAnswered
<1> QED
  BY <1>1, <1>2, <1>3, <1>4, <1>5, <1>6, <1>7 DEF Next

LEMMA InvAlways == Spec => []Inv
BY InitInv, StepInv, PTL DEF Spec

(* Settings, fields, requests and answers keep their types. *)
THEOREM TypeCorrect == Spec => []TypeOK
<1>1. Inv => TypeOK
  BY DEF Inv
<1> QED
  BY <1>1, InvAlways, PTL

(* However many workers merge settings at once, no acknowledged change of a  *)
(* setting is lost.                                                          *)
THEOREM UpdatesKept == Spec => []NoLostUpdate
<1>1. Inv => NoLostUpdate
  BY DEF Inv
<1> QED
  BY <1>1, InvAlways, PTL

(* Whatever PATCHes of the profile overlap, fail or are answered 400 after   *)
(* half of their fields were assigned, every field has a value the answers   *)
(* account for.                                                              *)
THEOREM AnswersKept == Spec => []FieldsAsAnswered
<1>1. Inv => FieldsAsAnswered
  BY DEF Inv
<1> QED
  BY <1>1, InvAlways, PTL

(* An owner-only setting changes only by an owner's request. *)
THEOREM OwnerKeysSafe == Spec => OwnerKeysChangedByOwner
<1> DEFINE Changed(k) ==
             settings'[k] # settings[k] =>
               \E w \in Workers : /\ req[w].pc = "merged" /\ req'[w].pc = "idle"
                                  /\ req[w].role = "owner"
<1>1. ASSUME Inv, [Next]_vars, NEW k \in OwnerKeys
      PROVE  Changed(k)
  <2>1. ASSUME NEW w \in Workers, SaveSettings(w), settings'[k] # settings[k]
        PROVE  /\ req[w].pc = "merged" /\ req'[w].pc = "idle"
               /\ req[w].role = "owner"
    <3>1. k \in Keys
      BY SettingsAssumption
    <3>2. k \in Sent(req[w].incoming)
      BY <2>1, <3>1 DEF SaveSettings, StillCurrent, MergeSettings
    <3>3. req[w].role = "owner"
      BY <1>1, <3>2 DEF Inv, OwnerKeysSentByOwner
    <3> QED
      BY <1>1, <2>1, <3>3 DEF SaveSettings, Inv, TypeOK, Idle
  <2>2. CASE UNCHANGED settings
    BY <2>2
  <2>3. ASSUME NEW w \in Workers, NEW role \in Roles, NEW patch \in FieldPatches,
               UpdateFields(w, role, patch) \/ UpdateFieldsHalf(w, role, patch)
        PROVE  UNCHANGED settings
    BY <2>3 DEF UpdateFields, UpdateFieldsHalf, Assign
  <2> QED
    BY <1>1, <2>1, <2>2, <2>3 DEF Next, vars, UpdateSettings, SaveFields, Abort
<1>2. ASSUME Inv, [Next]_vars
      PROVE  [\A k \in OwnerKeys : Changed(k)]_vars
  BY <1>1, <1>2
<1> QED
  BY <1>2, InvAlways, PTL DEF Spec, OwnerKeysChangedByOwner
=============================================================================
