-------------------------- MODULE BusinessSettings --------------------------
(***************************************************************************)
(* One row of the businesses table under PATCH /businesses/current and      *)
(* PATCH /businesses/current/settings.  The settings are one JSONB column    *)
(* that a request reads, merges its own keys into and writes back whole; the *)
(* profile fields are columns of their own, assigned without being read.     *)
(* Pony's UPDATE repeats the settings that were read and writes the assigned *)
(* columns only.  The session commits after a 400 as well, but is rolled     *)
(* back by an exception.                                                     *)
(***************************************************************************)
CONSTANTS
  Keys,           \* setting keys
  OwnerKeys,      \* OWNER_ONLY_SETTING_KEYS
  Fields,         \* UPDATABLE_FIELDS
  OwnerFields,    \* OWNER_ONLY_BUSINESS_FIELDS
  Values,         \* the values of settings that clients send
  FieldValues,    \* the strings that fit the columns of the fields
  Null,           \* JSON null, or a key that was never set
  Unfit,          \* a field value Pony refuses: null, empty, longer than the column
  Malformed,      \* a field value that is not a string
  Keep,           \* a key or field the body does not have
  Workers         \* worker processes, one request each

ASSUME SettingsAssumption ==
  /\ OwnerKeys \subseteq Keys
  /\ OwnerFields \subseteq Fields
  /\ Unfit \notin FieldValues
  /\ Malformed \notin FieldValues \cup {Unfit}
  /\ Keep \notin Values \cup FieldValues \cup {Null, Unfit, Malformed}

Roles == {"owner", "admin"}   \* those with manage_business_settings

VARIABLES
  settings,   \* the committed settings_json
  fields,     \* the committed profile columns
  req,        \* req[w]: the PATCH worker w is serving
  acked,      \* acked[k]: the value in the last PATCH of k answered 200
  told        \* told[f]: what f may be, by the answers to the PATCHes of f

vars == <<settings, fields, req, acked, told>>

Settings == [Keys -> Values \cup {Null}]

SettingsPatches == [Keys -> Values \cup {Null, Keep}]

FieldPatches == [Fields -> FieldValues \cup {Unfit, Malformed, Keep}]

Columns == [Fields -> FieldValues \cup {Keep}]

(* read is settings_json as the session loaded it; sent are the storable     *)
(* fields of the body, new the columns that have been assigned.              *)
Request ==
  [pc : {"idle", "merged", "assigned", "refused"}, role : Roles, read : Settings,
   incoming : SettingsPatches, sent : Columns, new : Columns]

Sent(patch) == {k \in DOMAIN patch : patch[k] # Keep}

NoColumns == [f \in Fields |-> Keep]

Idle == [pc |-> "idle", role |-> "admin", read |-> [k \in Keys |-> Null],
         incoming |-> [k \in Keys |-> Keep], sent |-> NoColumns, new |-> NoColumns]

(* Mutant: the incoming object replaces the stored one. *)
ReplaceSettings(current, incoming) == incoming

(* merge_settings *)
MergeSettings(current, incoming) ==
  [k \in Keys |-> IF k \in Sent(incoming) THEN incoming[k] ELSE current[k]]

(* create_business has set every field. *)
Init ==
  /\ settings = [k \in Keys |-> Null]
  /\ fields \in [Fields -> FieldValues]
  /\ told = [f \in Fields |-> {fields[f]}]
  /\ req = [w \in Workers |-> Idle]
  /\ acked = [k \in Keys |-> Null]

-----------------------------------------------------------------------------
(* PATCH /businesses/current/settings *)

(* The body is accepted and merged into the settings as loaded. *)
UpdateSettings(w, role, incoming) ==
  /\ req[w].pc = "idle"
  /\ Sent(incoming) \cap OwnerKeys # {} => role = "owner"
  /\ req' = [req EXCEPT ![w] = [Idle EXCEPT !.pc = "merged", !.role = role,
                                            !.read = settings, !.incoming = incoming]]
  /\ UNCHANGED <<settings, fields, acked, told>>

(* Mutant: the UPDATE does not repeat the settings that were read. *)
NotCompared(r) == TRUE

(* The WHERE clause of the UPDATE. *)
StillCurrent(r) == settings = r.read

(* The commit; 200. *)
SaveSettings(w) ==
  LET r == req[w] IN
  /\ r.pc = "merged"
  /\ StillCurrent(r)
  /\ settings' = MergeSettings(r.read, r.incoming)
  /\ acked' = MergeSettings(acked, r.incoming)
  /\ req' = [req EXCEPT ![w] = Idle]
  /\ UNCHANGED <<fields, told>>

(* OptimisticCheckError, another failure, or a killed worker: no answer that  *)
(* promises anything.  What dies after its commit counts as answered.        *)
Abort(w) ==
  /\ req[w].pc # "idle"
  /\ req' = [req EXCEPT ![w] = Idle]
  /\ UNCHANGED <<settings, fields, acked, told>>

-----------------------------------------------------------------------------
(* PATCH /businesses/current.  A 403, a 400 for the name and an exception     *)
(* change nothing.                                                           *)

MayPatch(role, patch) ==
  /\ Sent(patch) # {}
  /\ Sent(patch) \cap OwnerFields # {} => role = "owner"

Storable(patch) == {f \in Sent(patch) : patch[f] \in FieldValues}

Only(names, patch) == [f \in Fields |-> IF f \in names THEN patch[f] ELSE Keep]

(* The columns of names are assigned; the answer is on its way. *)
Assign(w, pc, names, patch) ==
  /\ req' = [req EXCEPT ![w] = [Idle EXCEPT !.pc = pc, !.sent = Only(Storable(patch), patch),
                                            !.new = Only(names, patch)]]
  /\ UNCHANGED <<settings, fields, acked, told>>

(* Mutant: the fields the body does not have are taken from the loaded row. *)
UpdateFieldsWhole(w, role, patch) ==
  /\ req[w].pc = "idle"
  /\ MayPatch(role, patch)
  /\ Storable(patch) = Sent(patch)
  /\ req' = [req EXCEPT ![w] =
       [Idle EXCEPT !.pc = "assigned", !.sent = patch,
                    !.new = [f \in Fields |-> IF f \in Sent(patch) THEN patch[f] ELSE fields[f]]]]
  /\ UNCHANGED <<settings, fields, acked, told>>

(* Every field can be stored. *)
UpdateFields(w, role, patch) ==
  /\ req[w].pc = "idle"
  /\ MayPatch(role, patch)
  /\ Storable(patch) = Sent(patch)
  /\ Assign(w, "assigned", Sent(patch), patch)

(* A field is malformed: the response is 400, but the name and whichever     *)
(* fields come before the malformed one in the iteration order of the        *)
(* frozenset (it differs between processes) have been assigned, and the       *)
(* session commits them.  A null among them raises first.                    *)
UpdateFieldsHalf(w, role, patch) ==
  /\ req[w].pc = "idle"
  /\ MayPatch(role, patch)
  /\ \E bad \in Sent(patch) \ {"name"} : patch[bad] = Malformed
  /\ "name" \in Sent(patch) => "name" \in Storable(patch)
  /\ \E names \in SUBSET Storable(patch) :
       /\ Sent(patch) \cap {"name"} \subseteq names
       /\ Assign(w, "refused", names, patch)

(* The commit, and the answer 200 or 400.  Nothing that was read is repeated. *)
SaveFields(w) ==
  LET r == req[w] IN
  /\ r.pc \in {"assigned", "refused"}
  /\ fields' = [f \in Fields |-> IF f \in Sent(r.new) THEN r.new[f] ELSE fields[f]]
  /\ told' = [f \in Fields |->
                CASE f \notin Sent(r.sent) -> told[f]
                  [] f \in Sent(r.sent) /\ r.pc = "assigned" -> {r.sent[f]}
                  [] OTHER -> told[f] \cup {r.sent[f]}]
  /\ req' = [req EXCEPT ![w] = Idle]
  /\ UNCHANGED <<settings, acked>>

Next ==
  \E w \in Workers :
    \/ \E role \in Roles, incoming \in SettingsPatches :
         UpdateSettings(w, role, incoming)
    \/ SaveSettings(w)
    \/ \E role \in Roles, patch \in FieldPatches :
         UpdateFields(w, role, patch) \/ UpdateFieldsHalf(w, role, patch)
    \/ SaveFields(w)
    \/ Abort(w)

Spec == Init /\ [][Next]_vars

-----------------------------------------------------------------------------
(* Properties *)

TypeOK ==
  /\ settings \in Settings
  /\ fields \in [Fields -> FieldValues]
  /\ told \in [Fields -> SUBSET FieldValues]
  /\ req \in [Workers -> Request]
  /\ acked \in Settings

(* No acknowledged change of a setting is lost: each key holds the value of  *)
(* the last PATCH of that key answered 200, although every PATCH writes the   *)
(* whole object back.                                                        *)
NoLostUpdate == settings = acked

(* An owner-only setting changes only when an owner's request commits: an    *)
(* admin's request does not set one back to what it had read.                *)
OwnerKeysChangedByOwner ==
  [][\A k \in OwnerKeys :
       settings'[k] # settings[k] =>
         \E w \in Workers : /\ req[w].pc = "merged" /\ req'[w].pc = "idle"
                            /\ req[w].role = "owner"]_vars

(* A field is what the answers say: the value of the last PATCH of it that   *)
(* was answered 200, or of one that named it and was answered 400 since (such *)
(* a PATCH is saved by halves).  No other field is touched by a PATCH, and    *)
(* whatever was loaded before another's commit is not written over it.       *)
FieldsAsAnswered == \A f \in Fields : fields[f] \in told[f]

=============================================================================
