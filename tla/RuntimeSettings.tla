--------------------------- MODULE RuntimeSettings ---------------------------
(***************************************************************************)
(* PUT /v1/settings (setting_service.py): the fields of the request are       *)
(* validated and written one after another, in a fixed order, in one          *)
(* transaction; the default lifecycle policy is read, changed and written     *)
(* back.  Three keys stand for the eight of the code: the default bucket, a   *)
(* number (the thresholds, sizes and expiries) and the policy.                *)
(***************************************************************************)
EXTENDS Buckets

CONSTANTS
  Updates,       \* bound: PUT requests, each once
  ConfiguredDefault, \* storage.default_bucket
  Numbers,       \* bound: numbers clients send
  Patches,       \* bound: policies clients send, fields of them or None
  MinTtl, MaxTtl, AllowOverride, PermanentAllowed, AllowedModes, AllowedActions,
  DefaultPolicy  \* lifecycle.default_policy of the configuration

(* The adjudication of requests under a default policy. *)
Policy == INSTANCE LifecyclePolicy

Order == <<"bucket", "number", "policy">>
SettingKeys == {"bucket", "number", "policy"}
Modes == {"ttl", "temporary", "sliding_ttl", "permanent", "expires_at"}
Actions == {"delete", "notify", "none"}
PolicyValue == [mode : Modes, action : Actions, ttl : Int]
Patch == [mode : Modes \union {None}, action : Actions \union {None}, ttl : Int \union {None}]
Ask == [bucket : Names \union {None}, number : Int \union {None}, policy : Patch \union {None}]

ASSUME SettingsAssumption ==
  /\ Updates \subseteq Nat \ {0}
  /\ ConfiguredDefault \in Configured
  /\ Numbers \subseteq Int /\ Patches \subseteq Patch
  /\ DefaultPolicy \in PolicyValue /\ MinTtl \in Int /\ MaxTtl \in Int
  /\ None \notin Int \union Names \union Modes \union Actions \union PolicyValue \union Patch

Asks == [bucket : Names \union {None}, number : Numbers \union {None}, policy : Patches \union {None}]

VARIABLES
  setting, \* app_settings: the committed value of each key, None without a row
  writer,  \* the transaction that has written the row of a key and is still open
  update   \* the requests

settingVars == <<setting, writer, update>>

Values == [bucket : Names \union {None}, number : Int \union {None}, policy : PolicyValue \union {None}]
NoValues == [k \in SettingKeys |-> None]

(* i: the field being written; insert: no row was found for it; made: the        *)
(* values not committed yet; seen: for the properties only, the updates that     *)
(* had ended when this one read the policy.                                    *)
Updating == [at : {"idle", "check", "look", "write", "commit", "done", "refused", "failed"},
             ask : Ask, allowed : SUBSET Names, i : 0 .. 3, insert : BOOLEAN,
             made : Values, seen : SUBSET Updates]

NoUpdate == [at |-> "idle", ask |-> NoValues, allowed |-> {}, i |-> 0, insert |-> FALSE,
             made |-> NoValues, seen |-> {}]

(* The committed rows, the locks and the requests have the form of the code's.  *)
SettingsTypeOK ==
  /\ setting \in Values
  /\ writer \in [SettingKeys -> Updates \union {None}]
  /\ update \in [Updates -> Updating]

SettingsInit ==
  /\ setting = NoValues
  /\ writer = [k \in SettingKeys |-> None]
  /\ update = [u \in Updates |-> NoUpdate]

-----------------------------------------------------------------------------

\* Mutant: a policy with a mode is written before the rest.
NextFieldModeFirst(ask, i) ==
  LET first == ask.policy # None /\ ask.policy.mode # None
      ahead == {j \in 1 .. 3 : ask[Order[j]] # None /\ IF first /\ i > 0 THEN j < i ELSE j > i}
  IN  IF ahead = {} THEN 0
      ELSE CHOOSE j \in ahead : \A k \in ahead : IF first THEN j >= k ELSE j <= k

(* The next field a body names after field i, or 0: storage, uploads, lifecycle, *)
(* whatever their order in it.                                                  *)
NextField(ask, i) ==
  LET ahead == {j \in 1 .. 3 : j > i /\ ask[Order[j]] # None}
  IN  IF ahead = {} THEN 0 ELSE CHOOSE j \in ahead : \A k \in ahead : j <= k

Key(u) == Order[update[u].i]

(* get_default_bucket *)
DefaultBucket == IF setting["bucket"] = None THEN ConfiguredDefault ELSE setting["bucket"]

(* get_lifecycle_default *)
CurrentPolicy == IF setting["policy"] = None THEN DefaultPolicy ELSE setting["policy"]

\* Mutant: the policy becomes what the request says of it.
PatchedWhole(policy, patch) ==
  [policy EXCEPT !.mode = patch.mode, !.action = patch.action, !.ttl = patch.ttl]

\* Mutant: what the request leaves out comes from the configuration.
PatchedFromConfiguration(policy, patch) ==
  [field \in {"mode", "action", "ttl"} |->
     IF patch[field] = None THEN DefaultPolicy[field] ELSE patch[field]]

Patched(policy, patch) ==
  [policy EXCEPT !.mode = IF patch.mode = None THEN @ ELSE patch.mode,
                 !.action = IF patch.action = None THEN @ ELSE patch.action,
                 !.ttl = IF patch.ttl = None THEN @ ELSE patch.ttl]

\* Mutant: the ttl of a default policy is taken as it is.
ValidModeOnly(u) ==
  LET ask == update[u].ask IN
  CASE Key(u) = "bucket" -> ask.bucket \in update[u].allowed
    [] Key(u) = "number" -> ask.number >= 0
    [] Key(u) = "policy" -> /\ ask.policy.mode \in AllowedModes \union {None}
                            /\ ask.policy.action \in AllowedActions \union {None}

(* _update_storage, _update_uploads, _update_lifecycle. *)
Valid(u) ==
  LET ask == update[u].ask IN
  CASE Key(u) = "bucket" -> ask.bucket \in update[u].allowed
    [] Key(u) = "number" -> ask.number >= 0
    [] Key(u) = "policy" -> /\ ask.policy.mode \in AllowedModes \union {None}
                            /\ ask.policy.action \in AllowedActions \union {None}
                            /\ ask.policy.ttl = None \/ ask.policy.ttl \in MinTtl .. MaxTtl

(* The end of a transaction. *)
Release(u) == writer' = [k \in SettingKeys |-> IF writer[k] = u THEN None ELSE writer[k]]

Rollback(u, at) == update' = [update EXCEPT ![u].at = at] /\ Release(u) /\ UNCHANGED setting

\* Mutant: the buckets that are in storage.
BucketsInStorage(t) == Configured \union dirs

(* list_buckets_for_tenant *)
BucketsOf(t) == Configured \union {b.name : b \in {c \in rows : c.tenant = t}}

(* A body, and the buckets of its sender, which the request keeps. *)
Update(u, t, ask) ==
  /\ update[u] = NoUpdate
  /\ \A v \in Updates : v < u => update[v] # NoUpdate
  /\ update' = [update EXCEPT ![u] =
       [NoUpdate EXCEPT !.ask = ask, !.allowed = BucketsOf(t), !.i = NextField(ask, 0),
                        !.at = IF NextField(ask, 0) = 0 THEN "refused" ELSE "check"]]
  /\ UNCHANGED <<setting, writer>>

Ended == {"done", "refused", "failed"}

(* A field is refused, and with it what was written before, or its value is     *)
(* made: that of the policy from the one that is committed.                     *)
CheckField(u) ==
  /\ update[u].at = "check"
  /\ \/ ~Valid(u) /\ Rollback(u, "refused")
     \/ /\ Valid(u)
        /\ update' = [update EXCEPT ![u].at = "look",
             ![u].made[Key(u)] = IF Key(u) = "policy" THEN Patched(CurrentPolicy, update[u].ask.policy)
                                 ELSE update[u].ask[Key(u)],
             ![u].seen = IF Key(u) = "policy" THEN {v \in Updates : update[v].at = "done"} ELSE @]
        /\ UNCHANGED <<setting, writer>>

(* The update, in state p, goes to its next field. *)
Onwards(u, p) ==
  LET i == NextField(p.ask, p.i) IN
  update' = [update EXCEPT ![u] = IF i = 0 THEN [p EXCEPT !.at = "commit"]
                                  ELSE [p EXCEPT !.at = "check", !.i = i]]

(* set_value: SELECT; a value that is already there is not written again.       *)
LookUp(u) ==
  /\ update[u].at = "look"
  /\ IF setting[Key(u)] = update[u].made[Key(u)]
     THEN Onwards(u, [update[u] EXCEPT !.made[Key(u)] = None])
     ELSE update' = [update EXCEPT ![u].at = "write", ![u].insert = setting[Key(u)] = None]
  /\ UNCHANGED <<setting, writer>>

(* INSERT or UPDATE, which waits for the transaction that has written the row;  *)
(* an INSERT that finds a row after all breaks the unique key.                  *)
WriteField(u) ==
  /\ update[u].at = "write" /\ writer[Key(u)] = None
  /\ \/ update[u].insert /\ setting[Key(u)] # None /\ Rollback(u, "refused")
     \/ /\ update[u].insert => setting[Key(u)] = None
        /\ writer' = [writer EXCEPT ![Key(u)] = u]
        /\ Onwards(u, update[u])
        /\ UNCHANGED setting

Commit(u) ==
  /\ update[u].at = "commit"
  /\ setting' = [k \in SettingKeys |-> IF update[u].made[k] = None THEN setting[k] ELSE update[u].made[k]]
  /\ update' = [update EXCEPT ![u].at = "done"]
  /\ Release(u)

(* A crash, a client that goes away, or a failed database call. *)
FailUpdate(u) == update[u].at \notin Ended \union {"idle"} /\ Rollback(u, "failed")

UpdateStep(u) == CheckField(u) \/ LookUp(u) \/ WriteField(u) \/ Commit(u)

-----------------------------------------------------------------------------
(* Properties. *)

(* A field of the default policy that no update has changed and that the         *)
(* configuration itself does not allow: validation.py does not look at it.      *)
Unvalidated ==
  \/ CurrentPolicy.mode = DefaultPolicy.mode /\ DefaultPolicy.mode \notin AllowedModes
  \/ CurrentPolicy.action = DefaultPolicy.action /\ DefaultPolicy.action \notin AllowedActions
  \/ CurrentPolicy.ttl = DefaultPolicy.ttl /\ DefaultPolicy.ttl \notin MinTtl .. MaxTtl

(* An upload that asks for nothing is accepted under whatever default policy    *)
(* the settings have come to, but for two modes PUT /v1/settings takes without   *)
(* asking compute_effective_lifecycle - expires_at, and permanent where the       *)
(* server does not permit it - and for a field that is still, or by an           *)
(* overlapping update again, an unacceptable one of the configuration.          *)
DefaultIsAcceptable ==
  \/ CurrentPolicy.mode = "expires_at"
  \/ CurrentPolicy.mode = "permanent" /\ ~PermanentAllowed
  \/ Unvalidated
  \/ Policy!Acceptable(CurrentPolicy, Policy!NoRequest, 0)

(* A field of the default policy that was acknowledged is in force, unless       *)
(* a later update has changed it, or one that had read the policy before wrote   *)
(* the old value back (the read, change and write of _update_lifecycle).         *)
PolicyLostOnlyToOverlap ==
  \A u \in Updates, field \in {"mode", "action", "ttl"} :
    update[u].at = "done" /\ update[u].ask.policy # None =>
      \/ update[u].ask.policy[field] \in {None, CurrentPolicy[field]}
      \/ \E v \in Updates \ ({u} \union update[u].seen) :
           /\ update[v].at = "done" /\ update[v].ask.policy # None
           /\ update[v].ask.policy[field] # None \/ u \notin update[v].seen

(* The default bucket is one that exists for everybody, or was a bucket of the  *)
(* tenant who made it the default, if it has been deleted since: multipart and   *)
(* directory uploads that name no bucket go there, whoever sends them           *)
(* (BucketService.delete_bucket, SettingService._update_storage).               *)
DefaultBucketWasOwned ==
  \/ DefaultBucket \in Configured
  \/ \E b \in rows : b.name = DefaultBucket
  \/ \E r \in Requests : call[r].op = "delete" /\ call[r].name = DefaultBucket /\ call[r].at = "done"

(* Every PUT /v1/settings ends: two of them never wait for each other.          *)
EveryUpdateEnds == \A u \in Updates : update[u].at = "check" ~> update[u].at \in Ended
=============================================================================
