------------------------ MODULE AdministrationProofs ------------------------
(***************************************************************************)
(* Proofs about Administration, for any requests, updates, buckets, policies  *)
(* and limits.                                                               *)
(***************************************************************************)
EXTENDS Administration, BucketsProofs

LEMMA NoValuesTyped == NoValues \in Values /\ NoValues \in Ask
BY DEF NoValues, Values, Ask, SettingKeys

LEMMA NoUpdateTyped == NoUpdate \in Updating
BY NoValuesTyped DEF NoUpdate, Updating

(* The next field is one of those ahead, if there are any. *)
LEMMA NextIsAhead ==
  ASSUME NEW ask, NEW i
  PROVE  LET ahead == {j \in 1 .. 3 : j > i /\ ask[Order[j]] # None}
         IN  NextField(ask, i) \in IF ahead = {} THEN {0} ELSE ahead
  <1> DEFINE ahead == {j \in 1 .. 3 : j > i /\ ask[Order[j]] # None}
  <1>1. CASE ahead = {} BY <1>1 DEF NextField
  <1>2. CASE ahead # {}
    <2>1. \E j \in ahead : \A k \in ahead : j <= k
      <3>1. ahead \subseteq 1 .. 3 OBVIOUS
      <3> HIDE DEF ahead
      <3>2. CASE 1 \in ahead BY <3>1, <3>2
      <3>3. CASE 1 \notin ahead /\ 2 \in ahead BY <3>1, <3>3
      <3>4. CASE 1 \notin ahead /\ 2 \notin ahead
        <4>1. \A x \in ahead : x = 3 BY <3>1, <3>4
        <4>2. \E x : x \in ahead BY <1>2
        <4> QED BY <4>1, <4>2
      <3> QED BY <3>2, <3>3, <3>4
    <2> QED BY <1>2, <2>1 DEF NextField
  <1> QED BY <1>1, <1>2

LEMMA FieldsTyped ==
  ASSUME NEW ask \in Ask, NEW i \in 0 .. 3
  PROVE  /\ NextField(ask, i) \in 0 .. 3
         /\ NextField(ask, i) # 0 => NextField(ask, i) \in 1 .. 3 /\ ask[Order[NextField(ask, i)]] # None
BY NextIsAhead

(* The policy is the last field. *)
LEMMA PolicyIsLast ==
  ASSUME NEW ask \in Ask, NEW i \in 0 .. 3
  PROVE  /\ NextField(ask, i) = 0 => i = 3 \/ ask["policy"] = None
         /\ i = 3 => NextField(ask, i) = 0
  <1>1. Order[3] = "policy" BY DEF Order
  <1> QED BY <1>1, NextIsAhead

LEMMA KeyTyped ==
  ASSUME NEW i \in 1 .. 3
  PROVE  Order[i] \in SettingKeys
BY DEF Order, SettingKeys


(* An update that is under way works on a field its body names.                  *)
UpdateShape ==
  \A u \in Updates :
    update[u].at \in {"check", "look", "write"} =>
      update[u].i \in 1 .. 3 /\ update[u].ask[Key(u)] # None

SettingsTyping == SettingsTypeOK /\ UpdateShape

UpdatesTyped == update \in [Updates -> Updating]

LEMMA OnwardsTyped ==
  ASSUME UpdatesTyped, NEW u \in Updates, NEW p \in Updating, Onwards(u, p)
  PROVE  /\ UpdatesTyped'
         /\ \A v \in Updates \ {u} : update'[v] = update[v]
         /\ update'[u] \in {[p EXCEPT !.at = "commit"], [p EXCEPT !.at = "check", !.i = NextField(p.ask, p.i)]}
         /\ update'[u].at = "check" => update'[u].i \in 1 .. 3 /\ p.ask[Order[update'[u].i]] # None
  <1> DEFINE i == NextField(p.ask, p.i)
  <1>1. p.ask \in Ask /\ p.i \in 0 .. 3 BY DEF Updating
  <1>2. i \in 0 .. 3 /\ (i # 0 => i \in 1 .. 3 /\ p.ask[Order[i]] # None) BY <1>1, FieldsTyped
  <1> DEFINE q == IF i = 0 THEN [p EXCEPT !.at = "commit"] ELSE [p EXCEPT !.at = "check", !.i = i]
  <1>3. update' = [update EXCEPT ![u] = q] BY DEF Onwards
  <1> HIDE DEF i
  <1>4. q \in Updating BY <1>2 DEF Updating
  <1>5. q.at = "check" => q.i = i /\ i # 0 BY <1>2 DEF Updating
  <1>6. q = [p EXCEPT !.at = "commit"] \/ q = [p EXCEPT !.at = "check", !.i = i] OBVIOUS
  <1> HIDE DEF q
  <1>7. update'[u] = q BY <1>3 DEF UpdatesTyped
  <1> QED BY <1>2, <1>3, <1>4, <1>5, <1>6, <1>7 DEF UpdatesTyped, i


(* What the fields of a default policy are validated against, taken together:    *)
(* those of the configuration are not.                                          *)
WithinLimits(policy) ==
  /\ policy.mode \in AllowedModes \union {DefaultPolicy.mode}
  /\ policy.action \in AllowedActions \union {DefaultPolicy.action}
  /\ policy.ttl \in (MinTtl .. MaxTtl) \union {DefaultPolicy.ttl}

LEMMA WithinLimitsIsAcceptable ==
  ASSUME NEW policy \in PolicyValue, WithinLimits(policy)
  PROVE  \/ policy.mode = "expires_at"
         \/ policy.mode = "permanent" /\ ~PermanentAllowed
         \/ policy.mode = DefaultPolicy.mode /\ DefaultPolicy.mode \notin AllowedModes
         \/ policy.action = DefaultPolicy.action /\ DefaultPolicy.action \notin AllowedActions
         \/ policy.ttl = DefaultPolicy.ttl /\ DefaultPolicy.ttl \notin MinTtl .. MaxTtl
         \/ Policy!Acceptable(policy, Policy!NoRequest, 0)
  <1> DEFINE P == Policy!Merged(policy, Policy!NoRequest)
  <1>1. P.mode = policy.mode /\ P.action = policy.action /\ P.ttl = policy.ttl
    BY DEF Policy!Merged, Policy!NoRequest
  <1>2. SUFFICES ASSUME policy.mode \in AllowedModes, policy.action \in AllowedActions,
                        policy.ttl \in MinTtl .. MaxTtl, policy.mode # "expires_at",
                        policy.mode = "permanent" => PermanentAllowed
                 PROVE  Policy!Acceptable(policy, Policy!NoRequest, 0)
    BY DEF WithinLimits
  <1> HIDE DEF P
  <1> QED BY <1>1, <1>2, SettingsAssumption DEF Policy!Acceptable, Policy!TtlModes, P


(* A bucket that is everybody's, somebody's, or was deleted by a request.        *)
Known(n) ==
  \/ n \in Configured
  \/ \E b \in rows : b.name = n
  \/ \E r \in Requests : call[r].op = "delete" /\ call[r].name = n /\ call[r].at = "done"

(* What is, or will be, committed names a known bucket and a policy within limits. *)
Sound(values) ==
  /\ values.bucket # None => Known(values.bucket)
  /\ values.policy # None => WithinLimits(values.policy)

SoundUpdates == \A u \in Updates : Sound(update[u].made) /\ \A n \in update[u].allowed : Known(n)

SettingsSound == SettingsTyping /\ Sound(setting) /\ SoundUpdates

-----------------------------------------------------------------------------
LEMMA CurrentPolicySound ==
  ASSUME SettingsTypeOK, Sound(setting)
  PROVE  CurrentPolicy \in PolicyValue /\ WithinLimits(CurrentPolicy)
  <1>1. CASE setting["policy"] = None
    <2>1. DefaultPolicy.ttl \in Int BY SettingsAssumption DEF PolicyValue
    <2> QED BY <1>1, <2>1, SettingsAssumption DEF CurrentPolicy, WithinLimits
  <1>2. CASE setting["policy"] # None
    BY <1>2 DEF CurrentPolicy, SettingsTypeOK, Values, Sound
  <1> QED BY <1>1, <1>2

LEMMA PatchedSound ==
  ASSUME NEW policy \in PolicyValue, WithinLimits(policy), NEW patch \in Patch,
         patch.mode \in AllowedModes \union {None}, patch.action \in AllowedActions \union {None},
         patch.ttl = None \/ patch.ttl \in MinTtl .. MaxTtl
  PROVE  Patched(policy, patch) \in PolicyValue /\ WithinLimits(Patched(policy, patch))
  <1> DEFINE mode == IF patch.mode = None THEN policy.mode ELSE patch.mode
             action == IF patch.action = None THEN policy.action ELSE patch.action
             ttl == IF patch.ttl = None THEN policy.ttl ELSE patch.ttl
  <1>1. Patched(policy, patch) = [policy EXCEPT !.mode = mode, !.action = action, !.ttl = ttl]
    BY DEF Patched
  <1>2. mode \in Modes /\ mode \in AllowedModes \union {DefaultPolicy.mode}
    BY DEF Patch, PolicyValue, WithinLimits
  <1>3. action \in Actions /\ action \in AllowedActions \union {DefaultPolicy.action}
    BY DEF Patch, PolicyValue, WithinLimits
  <1>4. ttl \in Int /\ ttl \in (MinTtl .. MaxTtl) \union {DefaultPolicy.ttl}
    BY SettingsAssumption DEF Patch, PolicyValue, WithinLimits
  <1> HIDE DEF mode, action, ttl
  <1> QED BY <1>1, <1>2, <1>3, <1>4 DEF PolicyValue, WithinLimits

LEMMA NoneApart == None \notin PolicyValue /\ None \notin Names /\ None \notin Patch
BY SettingsAssumption

(* The value CheckField makes of a valid field. *)
MadeOf(u) == IF Key(u) = "policy" THEN Patched(CurrentPolicy, update[u].ask.policy) ELSE update[u].ask[Key(u)]

LEMMA MadeSound ==
  ASSUME SettingsSound, NEW u \in Updates, update[u].at = "check", Valid(u)
  PROVE  LET made == [update[u].made EXCEPT ![Key(u)] = MadeOf(u)]
         IN  made \in Values /\ Sound(made)
  <1> DEFINE ask == update[u].ask
             old == update[u].made
  <1>1. ask \in Ask /\ old \in Values /\ Sound(old) /\ Key(u) \in SettingKeys /\ ask[Key(u)] # None
    BY KeyTyped DEF SettingsSound, SettingsTyping, SettingsTypeOK, UpdateShape, Updating, SoundUpdates, Key
  <1>2. CASE Key(u) = "bucket"
    <2>1. ask.bucket \in update[u].allowed /\ MadeOf(u) = ask.bucket BY <1>2 DEF Valid, MadeOf
    <2>2. ask.bucket \in Names /\ Known(ask.bucket) BY <1>1, <1>2, <2>1 DEF Ask, SettingsSound, SoundUpdates
    <2> QED BY <1>1, <1>2, <2>1, <2>2 DEF Values, Sound
  <1>3. CASE Key(u) = "number"
    <2>1. MadeOf(u) = ask.number /\ ask.number \in Int BY <1>1, <1>3 DEF MadeOf, Ask
    <2> QED BY <1>1, <1>3, <2>1 DEF Values, Sound
  <1>4. CASE Key(u) = "policy"
    <2>1. ask.policy \in Patch /\ MadeOf(u) = Patched(CurrentPolicy, ask.policy) BY <1>1, <1>4 DEF MadeOf, Ask
    <2>2. /\ ask.policy.mode \in AllowedModes \union {None}
          /\ ask.policy.action \in AllowedActions \union {None}
          /\ ask.policy.ttl = None \/ ask.policy.ttl \in MinTtl .. MaxTtl
      BY <1>4 DEF Valid
    <2>3. MadeOf(u) \in PolicyValue /\ WithinLimits(MadeOf(u))
      BY <2>1, <2>2, CurrentPolicySound, PatchedSound DEF SettingsSound, SettingsTyping
    <2> QED BY <1>1, <1>4, <2>3 DEF Values, Sound
  <1> QED BY <1>1, <1>2, <1>3, <1>4 DEF SettingKeys


(* What a step of update u leaves of the others and of its own request.           *)
Continues(u) ==
  /\ UpdatesTyped'
  /\ \A v \in Updates \ {u} : update'[v] = update[v]
  /\ update'[u].allowed = update[u].allowed
  /\ update'[u].at \in {"check", "look", "write"} =>
       update'[u].i \in 1 .. 3 /\ update'[u].ask[Order[update'[u].i]] # None

(* A step of an update keeps its own values and the committed ones sound.         *)
Advances(u) ==
  /\ Continues(u)
  /\ Sound(update'[u].made) /\ Sound(setting')
  /\ setting' \in Values /\ writer' \in [SettingKeys -> Updates \union {None}]

LEMMA ReleaseTyped ==
  ASSUME SettingsTypeOK, NEW u \in Updates, Release(u)
  PROVE  writer' \in [SettingKeys -> Updates \union {None}]
BY DEF SettingsTypeOK, Release

LEMMA RollbackAdvances ==
  ASSUME SettingsSound, NEW u \in Updates, NEW at \in Ended, Rollback(u, at)
  PROVE  Advances(u)
  <1>1. update' = [update EXCEPT ![u].at = at] /\ setting' = setting BY DEF Rollback
  <1>2. update'[u] = [update[u] EXCEPT !.at = at] /\ \A v \in Updates \ {u} : update'[v] = update[v]
    BY <1>1 DEF SettingsSound, SettingsTyping, SettingsTypeOK
  <1>3. UpdatesTyped' BY <1>1 DEF SettingsSound, SettingsTyping, SettingsTypeOK, UpdatesTyped, Updating, Ended
  <1>4. writer' \in [SettingKeys -> Updates \union {None}]
    BY ReleaseTyped DEF Rollback, SettingsSound, SettingsTyping
  <1>5. update'[u].made = update[u].made /\ update'[u].allowed = update[u].allowed /\ update'[u].at = at
    BY <1>2 DEF SettingsSound, SettingsTyping, SettingsTypeOK, Updating
  <1> QED BY <1>1, <1>2, <1>3, <1>4, <1>5
       DEF Advances, Continues, SettingsSound, SettingsTyping, SettingsTypeOK, SoundUpdates, Ended

LEMMA OnwardsAdvances ==
  ASSUME SettingsSound, NEW u \in Updates, NEW p \in Updating, Onwards(u, p),
         p.ask = update[u].ask, p.allowed = update[u].allowed, Sound(p.made),
         UNCHANGED setting, writer' \in [SettingKeys -> Updates \union {None}]
  PROVE  Advances(u)
  <1>1. UpdatesTyped BY DEF SettingsSound, SettingsTyping, SettingsTypeOK, UpdatesTyped
  <1>2. /\ UpdatesTyped'
        /\ \A v \in Updates \ {u} : update'[v] = update[v]
        /\ update'[u] \in {[p EXCEPT !.at = "commit"], [p EXCEPT !.at = "check", !.i = NextField(p.ask, p.i)]}
        /\ update'[u].at = "check" => update'[u].i \in 1 .. 3 /\ p.ask[Order[update'[u].i]] # None
    BY <1>1, OnwardsTyped
  <1>3. /\ update'[u].at \in {"commit", "check"} /\ update'[u].made = p.made
        /\ update'[u].allowed = p.allowed /\ update'[u].ask = p.ask
    BY <1>2 DEF Updating
  <1> QED BY <1>2, <1>3 DEF Advances, Continues, SettingsSound, SettingsTyping, SettingsTypeOK

LEMMA CheckAdvances ==
  ASSUME SettingsSound, NEW u \in Updates, CheckField(u)
  PROVE  Advances(u)
  <1>1. CASE Rollback(u, "refused") BY <1>1, RollbackAdvances DEF Ended
  <1>2. CASE ~Rollback(u, "refused")
    <2> DEFINE k == Key(u)
               value == MadeOf(u)
               seen == IF k = "policy" THEN {v \in Updates : update[v].at = "done"} ELSE update[u].seen
    <2>1. /\ update[u].at = "check" /\ Valid(u) /\ UNCHANGED <<setting, writer>>
          /\ update' = [update EXCEPT ![u].at = "look", ![u].made[k] = value, ![u].seen = seen]
      BY <1>2 DEF CheckField, MadeOf
    <2> DEFINE made == [update[u].made EXCEPT ![k] = value]
    <2>2. made \in Values /\ Sound(made) BY <2>1, MadeSound
    <2>3. update[u] \in Updating BY DEF SettingsSound, SettingsTyping, SettingsTypeOK
    <2>4. seen \in SUBSET Updates BY <2>3 DEF Updating
    <2> HIDE DEF k, value, seen
    <2> DEFINE p == [update[u] EXCEPT !.at = "look", !.made = made, !.seen = seen]
    <2>5. update' = [update EXCEPT ![u] = p]
      BY <2>1, <2>3 DEF SettingsSound, SettingsTyping, SettingsTypeOK, Updating
    <2> HIDE DEF made
    <2>6. /\ p \in Updating /\ p.at = "look" /\ p.made = made /\ p.i = update[u].i /\ p.ask = update[u].ask
          /\ p.allowed = update[u].allowed
      BY <2>2, <2>3, <2>4 DEF Updating
    <2> HIDE DEF p
    <2>7. update'[u] = p /\ UpdatesTyped' /\ \A v \in Updates \ {u} : update'[v] = update[v]
      BY <2>5, <2>6 DEF SettingsSound, SettingsTyping, SettingsTypeOK, UpdatesTyped
    <2>8. update[u].i \in 1 .. 3 /\ update[u].ask[Order[update[u].i]] # None
      BY <2>1 DEF SettingsSound, SettingsTyping, UpdateShape, Key
    <2> QED BY <2>1, <2>2, <2>6, <2>7, <2>8 DEF Advances, Continues, SettingsSound, SettingsTyping, SettingsTypeOK
  <1> QED BY <1>1, <1>2


LEMMA LookUpAdvances ==
  ASSUME SettingsSound, NEW u \in Updates, LookUp(u)
  PROVE  Advances(u)
  <1> DEFINE k == Key(u)
             same == setting[k] = update[u].made[k]
             p == [update[u] EXCEPT !.made[k] = None]
             q == [update[u] EXCEPT !.at = "write", !.insert = setting[k] = None]
  <1>1. /\ update[u] \in Updating /\ UNCHANGED <<setting, writer>> /\ update[u].at = "look" /\ k \in SettingKeys
        /\ update[u].i \in 1 .. 3 /\ update[u].ask[Order[update[u].i]] # None
    BY KeyTyped DEF LookUp, SettingsSound, SettingsTyping, SettingsTypeOK, UpdateShape, Key
  <1>2. CASE same
    <2>1. Onwards(u, p) BY <1>2 DEF LookUp
    <2> DEFINE made == [update[u].made EXCEPT ![k] = None]
    <2>2. update[u].made \in Values /\ Sound(update[u].made)
      BY <1>1 DEF Updating, SettingsSound, SoundUpdates
    <2>3. made \in Values /\ Sound(made)
      <3>1. CASE k = "bucket" BY <2>2, <3>1 DEF Values, Sound
      <3>2. CASE k = "number" BY <2>2, <3>2 DEF Values, Sound
      <3>3. CASE k = "policy" BY <2>2, <3>3 DEF Values, Sound
      <3> QED BY <1>1, <3>1, <3>2, <3>3 DEF SettingKeys
    <2> HIDE DEF k
    <2>4. p = [update[u] EXCEPT !.made = made] BY <1>1 DEF Updating
    <2> HIDE DEF made
    <2>5. p \in Updating /\ p.made = made /\ p.ask = update[u].ask /\ p.allowed = update[u].allowed
      BY <1>1, <2>3, <2>4 DEF Updating
    <2> HIDE DEF p
    <2> QED BY <1>1, <2>1, <2>3, <2>5, OnwardsAdvances DEF SettingsSound, SettingsTyping, SettingsTypeOK
  <1>3. CASE ~same
    <2>1. update' = [update EXCEPT ![u] = q]
      BY <1>1, <1>3 DEF LookUp, SettingsSound, SettingsTyping, SettingsTypeOK, Updating
    <2> DEFINE b == setting[k] = None
    <2>2. b \in BOOLEAN OBVIOUS
    <2> HIDE DEF b, k
    <2>3. /\ q \in Updating /\ q.made = update[u].made /\ q.i = update[u].i /\ q.ask = update[u].ask
          /\ q.allowed = update[u].allowed
      BY <1>1, <2>2 DEF Updating, b
    <2> HIDE DEF q
    <2>4. update'[u] = q /\ UpdatesTyped' /\ \A v \in Updates \ {u} : update'[v] = update[v]
      BY <2>1, <2>3 DEF SettingsSound, SettingsTyping, SettingsTypeOK, UpdatesTyped
    <2> QED BY <1>1, <2>3, <2>4
         DEF Advances, Continues, SettingsSound, SettingsTyping, SettingsTypeOK, SoundUpdates
  <1> QED BY <1>2, <1>3

LEMMA WriteAdvances ==
  ASSUME SettingsSound, NEW u \in Updates, WriteField(u)
  PROVE  Advances(u)
  <1>1. CASE Rollback(u, "refused") BY <1>1, RollbackAdvances DEF Ended
  <1>2. CASE ~Rollback(u, "refused")
    <2>1. writer' = [writer EXCEPT ![Key(u)] = u] /\ Onwards(u, update[u]) /\ UNCHANGED setting
      BY <1>2 DEF WriteField
    <2>2. update[u] \in Updating /\ writer' \in [SettingKeys -> Updates \union {None}]
      BY <2>1 DEF SettingsSound, SettingsTyping, SettingsTypeOK
    <2> QED BY <2>1, <2>2, OnwardsAdvances DEF SettingsSound, SoundUpdates
  <1> QED BY <1>1, <1>2

LEMMA CommitAdvances ==
  ASSUME SettingsSound, NEW u \in Updates, Commit(u)
  PROVE  Advances(u)
  <1> DEFINE made == update[u].made
  <1>1. made \in Values /\ Sound(made) /\ setting \in Values /\ Sound(setting)
    BY DEF SettingsSound, SettingsTyping, SettingsTypeOK, Updating, SoundUpdates
  <1>2. setting' = [k \in SettingKeys |-> IF made[k] = None THEN setting[k] ELSE made[k]] BY DEF Commit
  <1> HIDE DEF made
  <1>3. setting' \in Values /\ Sound(setting') BY <1>1, <1>2 DEF Values, Sound, SettingKeys
  <1>4. update' = [update EXCEPT ![u].at = "done"] BY DEF Commit
  <1>5. update'[u] = [update[u] EXCEPT !.at = "done"] /\ \A v \in Updates \ {u} : update'[v] = update[v]
    BY <1>4 DEF SettingsSound, SettingsTyping, SettingsTypeOK
  <1>6. UpdatesTyped' BY <1>4 DEF SettingsSound, SettingsTyping, SettingsTypeOK, UpdatesTyped, Updating
  <1>7. update'[u].made = update[u].made /\ update'[u].allowed = update[u].allowed /\ update'[u].at = "done"
    BY <1>5 DEF SettingsSound, SettingsTyping, SettingsTypeOK, Updating
  <1>8. writer' \in [SettingKeys -> Updates \union {None}]
    BY ReleaseTyped DEF Commit, SettingsSound, SettingsTyping
  <1> QED BY <1>3, <1>5, <1>6, <1>7, <1>8 DEF Advances, Continues, SettingsSound, SoundUpdates

LEMMA UpdateAdvances ==
  ASSUME SettingsSound, NEW u \in Updates, UpdateStep(u) \/ FailUpdate(u)
  PROVE  Advances(u)
  <1>1. CASE FailUpdate(u) BY <1>1, RollbackAdvances DEF FailUpdate, Ended
  <1>2. CASE UpdateStep(u) BY <1>2, CheckAdvances, LookUpAdvances, WriteAdvances, CommitAdvances DEF UpdateStep
  <1> QED BY <1>1, <1>2

(* What was made stays known, whatever is created or deleted.                    *)
LEMMA KnownForLong ==
  ASSUME Typing, BucketsNext, NEW n, Known(n)
  PROVE  Known(n)'
  <1>1. ASSUME NEW r \in Requests, BucketsStep(r) PROVE Known(n)'
    <2>1. Framed(r) /\ Affects(r) BY <1>1, StepFrame, StepAffects
    <2>2. \A q \in Requests : call[q].at = "done" => q # r BY <2>1 DEF Affects
    <2>3. CASE \E b \in rows : b.name = n
      <3>1. PICK b \in rows : b.name = n BY <2>3
      <3>2. CASE b \in rows' BY <3>1, <3>2 DEF Known
      <3>3. CASE b \notin rows'
        <4>1. Drops(r) /\ call[r].name = n BY <2>1, <3>1, <3>3 DEF Affects, Makes, Inserts, Removes, Drops, Passes
        <4>2. call'[r].op = "delete" /\ call'[r].name = n /\ call'[r].at = "done"
          BY <2>1, <4>1 DEF Drops, Framed, Typing, RequestShape, Deleting
        <4> QED BY <4>2 DEF Known
      <3> QED BY <3>2, <3>3
    <2>4. CASE \E q \in Requests : call[q].op = "delete" /\ call[q].name = n /\ call[q].at = "done"
      BY <2>1, <2>2, <2>4 DEF Known, Framed
    <2> QED BY <2>3, <2>4 DEF Known
  <1>2. CASE BucketsArrive
    <2>1. PICK r \in Requests : Arrived(r) BY <1>2, ArriveFrame
    <2>2. call[r].at = "idle" /\ UNCHANGED rows /\ \A q \in Requests \ {r} : call'[q] = call[q]
      BY <2>1 DEF Arrived, NoCall
    <2> QED BY <2>2 DEF Known
  <1> QED BY <1>1, <1>2 DEF BucketsNext


-----------------------------------------------------------------------------
(* A step is one of the buckets, which leaves the settings alone, or an update's. *)
LEMMA StepIsOneOf ==
  ASSUME [Next]_vars
  PROVE  \/ BucketsNext /\ UNCHANGED settingVars
         \/ /\ UNCHANGED bucketVars
            /\ \/ \E u \in Updates, t \in Tenants, ask \in Asks : Update(u, t, ask)
               \/ \E u \in Updates : UpdateStep(u) \/ FailUpdate(u)
         \/ UNCHANGED vars
BY DEF Next, Arrival, BucketsNext, vars, bucketVars, settingVars

LEMMA UpdateArrives ==
  ASSUME SettingsSound, NEW u \in Updates, NEW t \in Tenants, NEW ask \in Asks, Update(u, t, ask),
         Typing, UNCHANGED bucketVars
  PROVE  SettingsSound'
  <1> DEFINE i == NextField(ask, 0)
             p == [NoUpdate EXCEPT !.ask = ask, !.allowed = BucketsOf(t), !.i = i,
                                   !.at = IF i = 0 THEN "refused" ELSE "check"]
  <1>1. ask \in Ask BY SettingsAssumption DEF Asks, Ask
  <1>2. i \in 0 .. 3 /\ (i # 0 => i \in 1 .. 3 /\ ask[Order[i]] # None) BY <1>1, FieldsTyped
  <1>3. update' = [update EXCEPT ![u] = p] /\ UNCHANGED <<setting, writer>> BY DEF Update
  <1>4. \A n \in BucketsOf(t) : n \in Names /\ Known(n)
    BY BucketsAssumption DEF BucketsOf, Known, Typing, BucketsTypeOK, BucketRow
  <1> HIDE DEF i
  <1>5. p \in Updating /\ p.made = NoValues /\ p.allowed = BucketsOf(t) /\ p.i = i /\ p.ask = ask
        /\ (p.at \in {"check", "look", "write"} => i # 0)
    BY <1>1, <1>2, <1>4, NoUpdateTyped DEF NoUpdate, Updating
  <1> HIDE DEF p
  <1>6. update'[u] = p /\ \A v \in Updates \ {u} : update'[v] = update[v]
    BY <1>3 DEF SettingsSound, SettingsTyping, SettingsTypeOK
  <1>7. SettingsTypeOK' BY <1>3, <1>5 DEF SettingsSound, SettingsTyping, SettingsTypeOK
  <1>8. UpdateShape' BY <1>2, <1>5, <1>6 DEF SettingsSound, SettingsTyping, UpdateShape, Key
  <1>9. \A n : Known(n)' <=> Known(n) BY DEF Known, bucketVars
  <1>10. \A v : Sound(v) => (v.bucket # None => Known(v.bucket)') BY <1>9 DEF Sound
  <1>11. NoValues.bucket = None /\ NoValues.policy = None BY DEF NoValues, SettingKeys
  <1>12. SoundUpdates' BY <1>4, <1>5, <1>6, <1>9, <1>11 DEF SettingsSound, SoundUpdates, Sound
  <1>13. Sound(setting)' BY <1>3, <1>9 DEF SettingsSound, Sound
  <1> QED BY <1>7, <1>8, <1>12, <1>13 DEF SettingsSound, SettingsTyping

LEMMA SettingsStep ==
  ASSUME Typing, SettingsSound, [Next]_vars
  PROVE  SettingsSound'
  <1>1. CASE UNCHANGED settingVars /\ \A n : Known(n) => Known(n)'
    BY <1>1 DEF settingVars, SettingsSound, SettingsTyping, SettingsTypeOK, UpdateShape, Key, SoundUpdates, Sound, WithinLimits
  <1>2. CASE BucketsNext /\ UNCHANGED settingVars
    <2>1. \A n : Known(n) => Known(n)' BY <1>2, KnownForLong
    <2> QED BY <1>1, <1>2, <2>1
  <1>3. CASE UNCHANGED vars
    <2>1. \A n : Known(n) => Known(n)' BY <1>3 DEF Known, vars, bucketVars
    <2> QED BY <1>1, <1>3, <2>1 DEF vars
  <1>4. ASSUME NEW u \in Updates, UpdateStep(u) \/ FailUpdate(u), UNCHANGED bucketVars PROVE SettingsSound'
    <2>1. Advances(u) BY <1>4, UpdateAdvances
    <2>2. \A n : Known(n)' <=> Known(n) BY <1>4 DEF Known, bucketVars
    <2>3. SettingsTypeOK' BY <2>1 DEF Advances, Continues, UpdatesTyped, SettingsTypeOK
    <2>4. UpdateShape' BY <2>1 DEF Advances, Continues, SettingsSound, SettingsTyping, UpdateShape, Key
    <2>5. SoundUpdates' BY <2>1, <2>2 DEF Advances, Continues, SettingsSound, SoundUpdates, Sound, WithinLimits
    <2>6. Sound(setting)' BY <2>1, <2>2 DEF Advances, Sound
    <2> QED BY <2>3, <2>4, <2>5, <2>6 DEF SettingsSound, SettingsTyping
  <1> QED BY <1>2, <1>3, <1>4, StepIsOneOf, UpdateArrives

LEMMA SettingsStart ==
  ASSUME SettingsInit
  PROVE  SettingsSound
  <1>1. NoValues.bucket = None /\ NoValues.policy = None BY DEF NoValues, SettingKeys
  <1> QED BY <1>1, NoValuesTyped, NoUpdateTyped
       DEF SettingsInit, SettingsSound, SettingsTyping, SettingsTypeOK, UpdateShape, SoundUpdates, Sound, NoUpdate

LEMMA AlwaysSound == Spec => [](Typing /\ Backed /\ SettingsSound)
  <1>1. Init => Typing /\ Backed /\ SettingsSound BY TypingInit, BackedInit, SettingsStart DEF Init
  <1>2. Typing /\ Backed /\ SettingsSound /\ [Next]_vars => (Typing /\ Backed /\ SettingsSound)'
    <2> SUFFICES ASSUME Typing, Backed, SettingsSound, [Next]_vars
                 PROVE  (Typing /\ Backed /\ SettingsSound)'
      OBVIOUS
    <2>1. [BucketsNext]_bucketVars BY StepIsOneOf DEF vars
    <2> QED BY <2>1, TypingStep, BackedStep, SettingsStep
  <1> QED BY <1>1, <1>2, PTL DEF Spec

(* The calls, the tables, the settings and the updates keep the form the code     *)
(* gives them, Order and set_value included: every step works on a field.         *)
THEOREM DeploymentTypeCorrect == Spec => []TypeOK
  <1>1. Typing /\ Backed /\ SettingsSound => TypeOK
    BY DEF Typing, SettingsSound, SettingsTyping, TypeOK
  <1> QED BY <1>1, AlwaysSound, PTL

(* _update_storage and delete_bucket: the default bucket is configured,           *)
(* somebody's, or was deleted by a request, however many updates and deletions    *)
(* overlap.                                                                     *)
THEOREM DefaultBucketSafe == Spec => []DefaultBucketWasOwned
  <1>1. Typing /\ Backed /\ SettingsSound => DefaultBucketWasOwned
    BY SettingsAssumption DEF SettingsSound, Sound, Known, DefaultBucketWasOwned, DefaultBucket
  <1> QED BY <1>1, AlwaysSound, PTL

(* _update_lifecycle validates each field alone, and yet every default policy     *)
(* accepted updates lead to admits an upload that asks for nothing, but for the   *)
(* modes expires_at and, where it is not permitted, permanent, and for a field    *)
(* of the configuration that is out of its own limits and has not been replaced.  *)
THEOREM DefaultPolicySafe == Spec => []DefaultIsAcceptable
  <1>1. Typing /\ Backed /\ SettingsSound => DefaultIsAcceptable
    BY CurrentPolicySound, WithinLimitsIsAcceptable DEF SettingsSound, SettingsTyping, DefaultIsAcceptable,
                                                       Unvalidated
  <1> QED BY <1>1, AlwaysSound, PTL

-----------------------------------------------------------------------------
(* What becomes of a field of the default policy that was asked for.        *)

Fields == {"mode", "action", "ttl"}
Sets(u, field) == update[u].ask.policy # None /\ update[u].ask.policy[field] # None

(* An update that u did not know of has set the field, or has written the policy  *)
(* without knowing of u.                                                       *)
Overlapped(u, field) ==
  \E v \in Updates \ ({u} \union update[u].seen) :
    /\ update[v].at = "done" /\ update[v].ask.policy # None
    /\ update[v].ask.policy[field] # None \/ u \notin update[v].seen

InForce(u, field) == CurrentPolicy[field] = update[u].ask.policy[field] \/ Overlapped(u, field)

SeenHaveEnded == \A u \in Updates, v \in Updates : v \in update[u].seen => update[v].at = "done"

(* The policy an update has made is what it asks for ... *)
MadeAsAsked ==
  \A u \in Updates :
    /\ update[u].made.policy # None =>
         /\ update[u].ask.policy # None
         /\ \A field \in Fields : Sets(u, field) => update[u].made.policy[field] = update[u].ask.policy[field]
    /\ update[u].at \in {"look", "write"} /\ update[u].i = 3 => update[u].made.policy # None

(* ... and, where it asks for nothing, what the updates before it asked for.     *)
MadeAsSeen ==
  \A u \in Updates, v \in Updates, field \in Fields :
    update[u].made.policy # None /\ ~Sets(u, field) /\ v \in update[u].seen /\ Sets(v, field) =>
      update[u].made.policy[field] = update[v].ask.policy[field] \/ Overlapped(v, field)

(* What was acknowledged is in force; so is what need not be written.            *)
Acknowledged ==
  \A u \in Updates, field \in Fields :
    /\ update[u].at = "done" \/ (update[u].at = "commit" /\ update[u].made.policy = None)
    /\ Sets(u, field)
    => InForce(u, field)

Fate == SeenHaveEnded /\ MadeAsAsked /\ MadeAsSeen /\ Acknowledged

(* What a step of update u does with the policy, one operator for each kind.     *)
Reads(u) ==
  /\ update[u].ask.policy # None /\ update'[u].made.policy # None
  /\ update'[u].made.policy = Patched(CurrentPolicy, update[u].ask.policy)
  /\ update'[u].seen = {v \in Updates : update[v].at = "done"}
  /\ update'[u].at = "look" /\ UNCHANGED setting
Finds(u) ==
  /\ setting.policy # None /\ setting.policy = update[u].made.policy
  /\ update'[u].made.policy = None /\ update'[u].seen = update[u].seen
  /\ update'[u].at = "commit" /\ UNCHANGED setting
Confirms(u) ==
  /\ update[u].at = "commit" /\ update'[u].at = "done"
  /\ update'[u].made.policy = update[u].made.policy /\ update'[u].seen = update[u].seen
  /\ setting'.policy = IF update[u].made.policy = None THEN setting.policy ELSE update[u].made.policy
GoesOn(u) ==
  /\ update'[u].made.policy = update[u].made.policy /\ update'[u].seen = update[u].seen
  /\ update'[u].at # "done" /\ UNCHANGED setting
  /\ update'[u].at = "commit" => update[u].ask.policy = None \/ update[u].made.policy # None
  /\ update'[u].at \in {"look", "write"} /\ update'[u].i = 3 => update[u].made.policy # None

Treats(u) ==
  /\ \A v \in Updates \ {u} : update'[v] = update[v]
  /\ update[u].at # "done" /\ update'[u].ask = update[u].ask
  /\ Reads(u) \/ Finds(u) \/ Confirms(u) \/ GoesOn(u)

LEMMA OverlappedForLong ==
  ASSUME NEW u \in Updates, Treats(u), NEW v \in Updates, update'[v].seen = update[v].seen,
         NEW field, Overlapped(v, field)
  PROVE  Overlapped(v, field)'
  <1>1. PICK w \in Updates \ ({v} \union update[v].seen) :
          /\ update[w].at = "done" /\ update[w].ask.policy # None
          /\ update[w].ask.policy[field] # None \/ v \notin update[w].seen
    BY DEF Overlapped
  <1>2. update'[w] = update[w] BY <1>1 DEF Treats
  <1> QED BY <1>1, <1>2 DEF Overlapped

LEMMA FateStep ==
  ASSUME SettingsSound, NEW u \in Updates, Treats(u), Fate
  PROVE  Fate'
  <1>1. /\ update[u].at # "done" /\ update'[u].ask = update[u].ask
        /\ \A v \in Updates \ {u} : update'[v] = update[v]
        /\ Reads(u) \/ Finds(u) \/ Confirms(u) \/ GoesOn(u)
    BY DEF Treats
  <1>2. \A v \in Updates : update'[v].ask = update[v].ask BY <1>1
  <1>3. \A v \in Updates, field \in Fields : Sets(v, field)' <=> Sets(v, field) BY <1>2 DEF Sets
  <1>4. \A v \in Updates : update[v].at = "done" => v # u /\ update'[v] = update[v] BY <1>1
  <1>5. SeenHaveEnded' BY <1>1, <1>4 DEF Fate, SeenHaveEnded, Reads, Finds, Confirms, GoesOn
  <1>6. ASSUME Reads(u), NEW field \in Fields
        PROVE  update'[u].made.policy[field] =
                 IF Sets(u, field) THEN update[u].ask.policy[field] ELSE CurrentPolicy[field]
    <2>1. CurrentPolicy \in PolicyValue BY CurrentPolicySound DEF SettingsSound, SettingsTyping
    <2> DEFINE patch == update[u].ask.policy
    <2>2. update'[u].made.policy = Patched(CurrentPolicy, patch) /\ patch # None BY <1>6 DEF Reads
    <2>3. Patched(CurrentPolicy, patch)[field] = IF patch[field] = None THEN CurrentPolicy[field] ELSE patch[field]
      BY <2>1 DEF Patched, PolicyValue, Fields
    <2> QED BY <2>2, <2>3 DEF Sets
  <1>7. MadeAsAsked'
    <2>1. CASE Reads(u) BY <1>1, <1>2, <1>3, <1>6, <2>1 DEF Fate, MadeAsAsked, Reads
    <2>2. CASE ~Reads(u) BY <1>1, <1>2, <1>3, <2>2 DEF Fate, MadeAsAsked, Finds, Confirms, GoesOn
    <2> QED BY <2>1, <2>2
  <1>8. ASSUME NEW v \in Updates, NEW field \in Fields, update'[v].seen = update[v].seen, Overlapped(v, field)
        PROVE  Overlapped(v, field)'
    BY <1>8, OverlappedForLong
  <1>9. MadeAsSeen'
    <2> SUFFICES ASSUME NEW w \in Updates, NEW v \in Updates, NEW field \in Fields,
                        update'[w].made.policy # None, ~Sets(w, field)', v \in update'[w].seen, Sets(v, field)'
                 PROVE  update'[w].made.policy[field] = update'[v].ask.policy[field] \/ Overlapped(v, field)'
      BY DEF MadeAsSeen
    <2>1. ~Sets(w, field) /\ Sets(v, field) BY <1>3
    <2>2. update[v].at = "done" /\ update'[v] = update[v]
      BY <1>1, <1>4, <1>5 DEF Fate, SeenHaveEnded, Reads, Finds, Confirms, GoesOn
    <2>3. CASE w = u /\ Reads(u)
      <3>1. update'[u].made.policy[field] = CurrentPolicy[field] BY <1>6, <2>1, <2>3
      <3>2. CurrentPolicy[field] = update[v].ask.policy[field] \/ Overlapped(v, field)
        BY <2>1, <2>2 DEF Fate, Acknowledged, InForce
      <3> QED BY <1>8, <2>2, <2>3, <3>1, <3>2
    <2>4. CASE ~(w = u /\ Reads(u))
      <3>1. update'[w].made.policy = update[w].made.policy /\ update'[w].seen = update[w].seen
        BY <1>1, <2>4 DEF Finds, Confirms, GoesOn
      <3>2. update[w].made.policy[field] = update[v].ask.policy[field] \/ Overlapped(v, field)
        BY <2>1, <3>1 DEF Fate, MadeAsSeen
      <3> QED BY <1>8, <2>2, <3>1, <3>2
    <2> QED BY <2>3, <2>4
  <1>10. Acknowledged'
    <2> SUFFICES ASSUME NEW v \in Updates, NEW field \in Fields, Sets(v, field)',
                        update'[v].at = "done" \/ (update'[v].at = "commit" /\ update'[v].made.policy = None)
                 PROVE  CurrentPolicy'[field] = update'[v].ask.policy[field] \/ Overlapped(v, field)'
      BY DEF Acknowledged, InForce
    <2>1. Sets(v, field) /\ update[v].ask.policy # None BY <1>3 DEF Sets
    <2> DEFINE wrote == Confirms(u) /\ update[u].made.policy # None
    <2>2. CASE ~wrote /\ ~(v = u /\ Finds(u))
      <3>1. setting'.policy = setting.policy BY <1>1, <2>2 DEF Reads, Finds, Confirms, GoesOn
      <3>2. CurrentPolicy' = CurrentPolicy BY <3>1 DEF CurrentPolicy
      <3>3. /\ update[v].at = "done" \/ (update[v].at = "commit" /\ update[v].made.policy = None)
            /\ update'[v].seen = update[v].seen
        BY <1>1, <2>1, <2>2 DEF Reads, Confirms, GoesOn
      <3>4. InForce(v, field) BY <2>1, <3>3 DEF Fate, Acknowledged
      <3> QED BY <1>2, <1>8, <3>2, <3>3, <3>4 DEF InForce
    <2>3. CASE v = u /\ Finds(u)
      <3>1. CurrentPolicy' = update[u].made.policy /\ update[u].made.policy # None
        BY <2>3 DEF Finds, CurrentPolicy
      <3> QED BY <1>2, <2>1, <2>3, <3>1 DEF Fate, MadeAsAsked
    <2>4. CASE wrote
      <3>1. CurrentPolicy' = update[u].made.policy BY <2>4 DEF Confirms, CurrentPolicy
      <3>2. CASE v = u BY <1>2, <2>1, <2>4, <3>1, <3>2 DEF Fate, MadeAsAsked
      <3>3. CASE v # u
        <4>1. update'[v] = update[v] BY <1>1, <3>3
        <4>2. CASE Sets(u, field) \/ v \notin update[u].seen
          <5>1. u \notin update[v].seen BY <1>1 DEF Fate, SeenHaveEnded
          <5>2. /\ update'[u].at = "done" /\ update'[u].seen = update[u].seen
                /\ update'[u].ask.policy # None
            BY <1>1, <2>4 DEF Confirms, Fate, MadeAsAsked
          <5> QED BY <1>1, <3>3, <4>1, <4>2, <5>1, <5>2 DEF Overlapped, Sets
        <4>3. CASE ~Sets(u, field) /\ v \in update[u].seen
          <5>1. update[u].made.policy[field] = update[v].ask.policy[field] \/ Overlapped(v, field)
            BY <2>1, <2>4, <4>3 DEF Fate, MadeAsSeen
          <5> QED BY <1>8, <3>1, <4>1, <5>1
        <4> QED BY <4>2, <4>3
      <3> QED BY <3>2, <3>3
    <2> QED BY <2>2, <2>3, <2>4
  <1> QED BY <1>5, <1>7, <1>9, <1>10 DEF Fate

-----------------------------------------------------------------------------
(* Every step of an update treats the policy in one of the ways above.            *)

LEMMA RollbackTreats ==
  ASSUME SettingsSound, NEW u \in Updates, NEW at \in {"refused", "failed"}, Rollback(u, at), update[u].at # "done"
  PROVE  Treats(u)
  <1>1. update' = [update EXCEPT ![u].at = at] /\ setting' = setting BY DEF Rollback
  <1>2. update'[u] = [update[u] EXCEPT !.at = at] /\ \A v \in Updates \ {u} : update'[v] = update[v]
    BY <1>1 DEF SettingsSound, SettingsTyping, SettingsTypeOK
  <1>3. /\ update'[u].made = update[u].made /\ update'[u].seen = update[u].seen
        /\ update'[u].ask = update[u].ask /\ update'[u].at = at
    BY <1>2 DEF SettingsSound, SettingsTyping, SettingsTypeOK, Updating
  <1>4. GoesOn(u) BY <1>1, <1>3 DEF GoesOn
  <1> QED BY <1>2, <1>3, <1>4 DEF Treats

(* To the next field, or to the commit after the policy.                         *)
LEMMA OnwardsTo ==
  ASSUME SettingsSound, NEW u \in Updates, NEW p \in Updating, Onwards(u, p)
  PROVE  /\ \A v \in Updates \ {u} : update'[v] = update[v]
         /\ update'[u].ask = p.ask /\ update'[u].made = p.made /\ update'[u].seen = p.seen
         /\ update'[u].at \in {"check", "commit"}
         /\ update'[u].at = "commit" => p.i = 3 \/ p.ask.policy = None
         /\ p.i = 3 => update'[u].at = "commit"
  <1> DEFINE i == NextField(p.ask, p.i)
             q == IF i = 0 THEN [p EXCEPT !.at = "commit"] ELSE [p EXCEPT !.at = "check", !.i = i]
  <1>1. p.ask \in Ask /\ p.i \in 0 .. 3 BY DEF Updating
  <1>2. (i = 0 => p.i = 3 \/ p.ask.policy = None) /\ (p.i = 3 => i = 0) BY <1>1, PolicyIsLast
  <1>3. update' = [update EXCEPT ![u] = q] BY DEF Onwards
  <1> HIDE DEF i
  <1>4. /\ q.ask = p.ask /\ q.made = p.made /\ q.seen = p.seen
        /\ q.at = IF i = 0 THEN "commit" ELSE "check"
    BY DEF Updating
  <1> HIDE DEF q
  <1>5. update'[u] = q /\ \A v \in Updates \ {u} : update'[v] = update[v]
    BY <1>3 DEF SettingsSound, SettingsTyping, SettingsTypeOK
  <1> QED BY <1>2, <1>4, <1>5

LEMMA CheckTreats ==
  ASSUME SettingsSound, NEW u \in Updates, CheckField(u)
  PROVE  Treats(u)
  <1>1. CASE Rollback(u, "refused") BY <1>1, RollbackTreats DEF CheckField
  <1>2. CASE ~Rollback(u, "refused")
    <2> DEFINE k == Key(u)
               value == MadeOf(u)
               seen == IF k = "policy" THEN {v \in Updates : update[v].at = "done"} ELSE update[u].seen
    <2>1. /\ update[u].at = "check" /\ Valid(u) /\ UNCHANGED <<setting, writer>>
          /\ update' = [update EXCEPT ![u].at = "look", ![u].made[k] = value, ![u].seen = seen]
      BY <1>2 DEF CheckField, MadeOf
    <2>2. /\ update[u] \in Updating /\ k \in SettingKeys /\ update[u].i \in 1 .. 3
          /\ k = Order[update[u].i] /\ update[u].ask[k] # None
      BY <2>1, KeyTyped DEF SettingsSound, SettingsTyping, SettingsTypeOK, UpdateShape, Key
    <2>3. k = "policy" => value = Patched(CurrentPolicy, update[u].ask.policy) /\ value # None
      <3>1. CurrentPolicy \in PolicyValue /\ WithinLimits(CurrentPolicy)
        BY CurrentPolicySound DEF SettingsSound, SettingsTyping
      <3>2. k = "policy" =>
              /\ update[u].ask.policy \in Patch
              /\ update[u].ask.policy.mode \in AllowedModes \union {None}
              /\ update[u].ask.policy.action \in AllowedActions \union {None}
              /\ update[u].ask.policy.ttl = None \/ update[u].ask.policy.ttl \in MinTtl .. MaxTtl
        BY <2>1, <2>2 DEF Valid, Updating, Ask
      <3> QED BY <3>1, <3>2, PatchedSound, NoneApart DEF MadeOf
    <2>4. k # "policy" => update[u].i # 3 BY <2>2 DEF Order
    <2> HIDE DEF k, value, seen
    <2> DEFINE made == [update[u].made EXCEPT ![k] = value]
               p == [update[u] EXCEPT !.at = "look", !.made = made, !.seen = seen]
    <2>5. update' = [update EXCEPT ![u] = p]
      BY <2>1, <2>2 DEF SettingsSound, SettingsTyping, SettingsTypeOK, Updating
    <2>6. made.policy = IF k = "policy" THEN value ELSE update[u].made.policy
      BY <2>2 DEF Updating, Values, SettingKeys
    <2> HIDE DEF made
    <2>7. p.at = "look" /\ p.made = made /\ p.seen = seen /\ p.i = update[u].i /\ p.ask = update[u].ask
      BY <2>2 DEF Updating
    <2> HIDE DEF p
    <2>8. update'[u] = p /\ \A v \in Updates \ {u} : update'[v] = update[v]
      BY <2>5 DEF SettingsSound, SettingsTyping, SettingsTypeOK
    <2>9. CASE k = "policy"
      <3>1. Reads(u) BY <2>1, <2>2, <2>3, <2>6, <2>7, <2>8, <2>9 DEF Reads, seen
      <3> QED BY <2>1, <2>7, <2>8, <3>1 DEF Treats
    <2>10. CASE k # "policy"
      <3>1. GoesOn(u) BY <2>1, <2>4, <2>6, <2>7, <2>8, <2>10 DEF GoesOn, seen
      <3> QED BY <2>1, <2>7, <2>8, <3>1 DEF Treats
    <2> QED BY <2>9, <2>10
  <1> QED BY <1>1, <1>2

LEMMA LookUpTreats ==
  ASSUME SettingsSound, MadeAsAsked, NEW u \in Updates, LookUp(u)
  PROVE  Treats(u)
  <1> DEFINE k == Key(u)
  <1>1. /\ update[u] \in Updating /\ UNCHANGED <<setting, writer>> /\ update[u].at = "look" /\ k \in SettingKeys
        /\ update[u].i \in 1 .. 3 /\ k = Order[update[u].i]
    BY KeyTyped DEF LookUp, SettingsSound, SettingsTyping, SettingsTypeOK, UpdateShape, Key
  <1>2. k = "policy" <=> update[u].i = 3 BY <1>1 DEF Order
  <1>3. update[u].i = 3 => update[u].made.policy # None BY <1>1 DEF MadeAsAsked
  <1>4. CASE setting[k] = update[u].made[k]
    <2> DEFINE made == [update[u].made EXCEPT ![k] = None]
               p == [update[u] EXCEPT !.made = made]
    <2>1. Onwards(u, [update[u] EXCEPT !.made[k] = None]) BY <1>4 DEF LookUp
    <2>2. [update[u] EXCEPT !.made[k] = None] = p BY <1>1 DEF Updating
    <2>3. made \in Values /\ made.policy = IF k = "policy" THEN None ELSE update[u].made.policy
      <3>1. CASE k = "bucket" BY <1>1, <3>1 DEF Updating, Values
      <3>2. CASE k = "number" BY <1>1, <3>2 DEF Updating, Values
      <3>3. CASE k = "policy" BY <1>1, <3>3 DEF Updating, Values
      <3> QED BY <1>1, <3>1, <3>2, <3>3 DEF SettingKeys
    <2> HIDE DEF made, k
    <2>4. /\ p \in Updating /\ p.made = made /\ p.ask = update[u].ask /\ p.i = update[u].i
          /\ p.seen = update[u].seen
      BY <1>1, <2>3 DEF Updating
    <2> HIDE DEF p
    <2>5. /\ \A v \in Updates \ {u} : update'[v] = update[v]
          /\ update'[u].ask = p.ask /\ update'[u].made = p.made /\ update'[u].seen = p.seen
          /\ update'[u].at \in {"check", "commit"}
          /\ update'[u].at = "commit" => p.i = 3 \/ p.ask.policy = None
          /\ p.i = 3 => update'[u].at = "commit"
      BY <2>1, <2>2, <2>4, OnwardsTo
    <2>6. CASE k = "policy"
      <3>1. Finds(u) BY <1>1, <1>2, <1>3, <1>4, <2>3, <2>4, <2>5, <2>6 DEF Finds
      <3> QED BY <1>1, <2>4, <2>5, <3>1 DEF Treats
    <2>7. CASE k # "policy"
      <3>1. GoesOn(u) BY <1>1, <1>2, <2>3, <2>4, <2>5, <2>7 DEF GoesOn
      <3> QED BY <1>1, <2>4, <2>5, <3>1 DEF Treats
    <2> QED BY <2>6, <2>7
  <1>5. CASE setting[k] # update[u].made[k]
    <2> DEFINE insert == setting[k] = None
               q == [update[u] EXCEPT !.at = "write", !.insert = insert]
    <2>1. update' = [update EXCEPT ![u] = q]
      BY <1>1, <1>5 DEF LookUp, SettingsSound, SettingsTyping, SettingsTypeOK, Updating
    <2> HIDE DEF insert
    <2>2. /\ q.made = update[u].made /\ q.i = update[u].i /\ q.ask = update[u].ask /\ q.seen = update[u].seen
          /\ q.at = "write"
      BY <1>1 DEF Updating
    <2> HIDE DEF q
    <2>3. update'[u] = q /\ \A v \in Updates \ {u} : update'[v] = update[v]
      BY <2>1 DEF SettingsSound, SettingsTyping, SettingsTypeOK
    <2>4. GoesOn(u) BY <1>1, <1>3, <2>2, <2>3 DEF GoesOn
    <2> QED BY <1>1, <2>2, <2>3, <2>4 DEF Treats
  <1> QED BY <1>4, <1>5

LEMMA WriteTreats ==
  ASSUME SettingsSound, MadeAsAsked, NEW u \in Updates, WriteField(u)
  PROVE  Treats(u)
  <1>1. update[u].at = "write" /\ update[u] \in Updating
    BY DEF WriteField, SettingsSound, SettingsTyping, SettingsTypeOK
  <1>2. CASE Rollback(u, "refused") BY <1>1, <1>2, RollbackTreats
  <1>3. CASE ~Rollback(u, "refused")
    <2>1. Onwards(u, update[u]) /\ UNCHANGED setting BY <1>3 DEF WriteField
    <2>2. update[u].i = 3 => update[u].made.policy # None BY <1>1 DEF MadeAsAsked
    <2>3. GoesOn(u) BY <1>1, <2>1, <2>2, OnwardsTo DEF GoesOn
    <2> QED BY <1>1, <2>1, <2>3, OnwardsTo DEF Treats
  <1> QED BY <1>2, <1>3

LEMMA CommitTreats ==
  ASSUME SettingsSound, NEW u \in Updates, Commit(u)
  PROVE  Treats(u)
  <1>1. update' = [update EXCEPT ![u].at = "done"] /\ update[u].at = "commit" BY DEF Commit
  <1>2. update'[u] = [update[u] EXCEPT !.at = "done"] /\ \A v \in Updates \ {u} : update'[v] = update[v]
    BY <1>1 DEF SettingsSound, SettingsTyping, SettingsTypeOK
  <1>3. /\ update'[u].made = update[u].made /\ update'[u].seen = update[u].seen
        /\ update'[u].ask = update[u].ask /\ update'[u].at = "done"
    BY <1>2 DEF SettingsSound, SettingsTyping, SettingsTypeOK, Updating
  <1>4. setting'.policy = IF update[u].made.policy = None THEN setting.policy ELSE update[u].made.policy
    BY DEF Commit, SettingKeys
  <1>5. Confirms(u) BY <1>1, <1>3, <1>4 DEF Confirms
  <1> QED BY <1>1, <1>2, <1>3, <1>5 DEF Treats

LEMMA UpdateTreats ==
  ASSUME SettingsSound, MadeAsAsked, NEW u \in Updates, UpdateStep(u) \/ FailUpdate(u)
  PROVE  Treats(u)
BY CheckTreats, LookUpTreats, WriteTreats, CommitTreats, RollbackTreats DEF UpdateStep, FailUpdate, Ended


-----------------------------------------------------------------------------
(* An update that arrives has seen and made nothing. *)
LEMMA FateArrives ==
  ASSUME SettingsSound, Fate, NEW u \in Updates, NEW t \in Tenants, NEW ask \in Asks, Update(u, t, ask)
  PROVE  Fate'
  <1>1. /\ UNCHANGED setting /\ \A v \in Updates \ {u} : update'[v] = update[v]
        /\ update[u].at = "idle" /\ update'[u].at \in {"refused", "check"}
        /\ update'[u].seen = {} /\ update'[u].made = NoValues
    <2> DEFINE i == NextField(ask, 0)
               at == IF i = 0 THEN "refused" ELSE "check"
               p == [NoUpdate EXCEPT !.ask = ask, !.allowed = BucketsOf(t), !.i = i, !.at = at]
    <2>1. update[u] = NoUpdate /\ update' = [update EXCEPT ![u] = p] /\ UNCHANGED setting BY DEF Update
    <2>2. at \in {"refused", "check"} OBVIOUS
    <2> HIDE DEF i, at
    <2>3. p.at = at /\ p.seen = {} /\ p.made = NoValues BY DEF NoUpdate
    <2> HIDE DEF p
    <2>4. update'[u] = p /\ \A v \in Updates \ {u} : update'[v] = update[v]
      BY <2>1 DEF SettingsSound, SettingsTyping, SettingsTypeOK
    <2> QED BY <2>1, <2>2, <2>3, <2>4 DEF NoUpdate
  <1>2. NoValues.policy = None BY DEF NoValues, SettingKeys
  <1>3. \A v \in Updates : update[v].at \in {"done", "commit"} => v # u BY <1>1
  <1>4. \A v \in Updates : v # u => \A field : Sets(v, field)' <=> Sets(v, field) BY <1>1 DEF Sets
  <1>5. ASSUME NEW v \in Updates, v # u, NEW field, Overlapped(v, field) PROVE Overlapped(v, field)'
    <2>1. PICK w \in Updates \ ({v} \union update[v].seen) :
            /\ update[w].at = "done" /\ update[w].ask.policy # None
            /\ update[w].ask.policy[field] # None \/ v \notin update[w].seen
      BY <1>5 DEF Overlapped
    <2>2. update'[w] = update[w] /\ update'[v] = update[v] BY <1>1, <1>3, <1>5, <2>1
    <2> QED BY <2>1, <2>2 DEF Overlapped
  <1>6. CurrentPolicy' = CurrentPolicy BY <1>1 DEF CurrentPolicy
  <1>7. SeenHaveEnded' BY <1>1, <1>3 DEF Fate, SeenHaveEnded
  <1>8. MadeAsAsked' BY <1>1, <1>2, <1>4 DEF Fate, MadeAsAsked
  <1>9. MadeAsSeen'
    <2> SUFFICES ASSUME NEW w \in Updates, NEW v \in Updates, NEW field \in Fields,
                        update'[w].made.policy # None, ~Sets(w, field)', v \in update'[w].seen, Sets(v, field)'
                 PROVE  update'[w].made.policy[field] = update'[v].ask.policy[field] \/ Overlapped(v, field)'
      BY DEF MadeAsSeen
    <2>1. w # u /\ v # u BY <1>1, <1>2, <1>3 DEF Fate, SeenHaveEnded
    <2> QED BY <1>1, <1>4, <1>5, <2>1 DEF Fate, MadeAsSeen
  <1>10. Acknowledged'
    <2> SUFFICES ASSUME NEW v \in Updates, NEW field \in Fields, Sets(v, field)',
                        update'[v].at = "done" \/ (update'[v].at = "commit" /\ update'[v].made.policy = None)
                 PROVE  CurrentPolicy'[field] = update'[v].ask.policy[field] \/ Overlapped(v, field)'
      BY DEF Acknowledged, InForce
    <2>1. v # u /\ update'[v] = update[v] /\ Sets(v, field) BY <1>1, <1>4
    <2>2. InForce(v, field) BY <2>1 DEF Fate, Acknowledged
    <2> QED BY <1>5, <1>6, <2>1, <2>2 DEF InForce
  <1> QED BY <1>7, <1>8, <1>9, <1>10 DEF Fate

LEMMA FateBegins ==
  ASSUME SettingsInit
  PROVE  Fate
  <1>1. NoValues.policy = None BY DEF NoValues, SettingKeys
  <1>2. \A u \in Updates : update[u] = NoUpdate BY DEF SettingsInit
  <1> QED BY <1>1, <1>2 DEF Fate, SeenHaveEnded, MadeAsAsked, MadeAsSeen, Acknowledged, NoUpdate

LEMMA AlwaysFate == Spec => [](SettingsSound /\ Fate)
  <1>1. Init => Fate BY FateBegins DEF Init
  <1>2. Typing /\ Backed /\ SettingsSound /\ Fate /\ [Next]_vars => Fate'
    <2> SUFFICES ASSUME SettingsSound, Fate, [Next]_vars PROVE Fate'
      OBVIOUS
    <2>1. CASE UNCHANGED settingVars
      BY <2>1 DEF settingVars, Fate, SeenHaveEnded, MadeAsAsked, MadeAsSeen, Acknowledged, InForce, Overlapped, Sets, CurrentPolicy
    <2>2. ASSUME NEW u \in Updates, UpdateStep(u) \/ FailUpdate(u) PROVE Fate'
      BY <2>2, UpdateTreats, FateStep DEF Fate
    <2> QED BY <2>1, <2>2, FateArrives, StepIsOneOf DEF vars
  <1> QED BY <1>1, <1>2, AlwaysSound, PTL DEF Spec

(* _update_lifecycle: a field that was acknowledged is lost only to an            *)
(* update that did not know of it, or that set it anew.                          *)
THEOREM PolicyLossesExplained == Spec => []PolicyLostOnlyToOverlap
  <1>1. SettingsSound /\ Fate => PolicyLostOnlyToOverlap
    BY DEF Fate, Acknowledged, InForce, Overlapped, Sets, Fields, PolicyLostOnlyToOverlap
  <1> QED BY <1>1, AlwaysFate, PTL

-----------------------------------------------------------------------------
(* Why updates end. *)

UnderWay(u) == update[u].at \in {"check", "look", "write", "commit"}

(* A row of app_settings that another open transaction has written makes an      *)
(* INSERT or UPDATE wait.                                                       *)
WaitsFor(u, v) == update[u].at = "write" /\ writer[Key(u)] = v /\ v # None

(* Two PUT /v1/settings never wait for each other, nor do more in a circle: an   *)
(* update waits only for one that is under way and has gone further through the  *)
(* fields, which every request writes in the order of update_settings whatever   *)
(* the order of its body.                                                       *)
WaitsAreOrdered ==
  \A u \in Updates, v \in Updates : WaitsFor(u, v) =>
    UnderWay(v) /\ (update[v].at = "commit" \/ update[v].i > update[u].i)

(* A written row belongs to an update that is under way, beyond its field.       *)
WritersGoAhead ==
  \A k \in 1 .. 3 : writer[Order[k]] # None =>
    LET u == writer[Order[k]] IN UnderWay(u) /\ (update[u].at = "commit" \/ update[u].i > k)

(* What a step of update u does to its fields and its locks.                     *)
Closes(u) == UnderWay(u) /\ update'[u].at \in Ended /\ Release(u)
Stays(u) ==
  /\ update'[u].i = update[u].i /\ UNCHANGED writer
  /\ \/ update[u].at = "check" /\ update'[u].at = "look"
     \/ update[u].at = "look" /\ update'[u].at = "write"
Leaves(u) ==
  /\ \/ update[u].at = "look" /\ UNCHANGED writer
     \/ /\ update[u].at = "write" /\ writer[Key(u)] = None
        /\ writer' = [writer EXCEPT ![Key(u)] = u]
  /\ \/ update'[u].at = "commit"
     \/ update'[u].at = "check" /\ update'[u].i \in 1 .. 3 /\ update'[u].i > update[u].i
Moves(u) == Closes(u) \/ Stays(u) \/ Leaves(u)

LEMMA RollbackCloses ==
  ASSUME SettingsTypeOK, NEW u \in Updates, UnderWay(u), NEW at \in Ended, Rollback(u, at)
  PROVE  Closes(u)
BY DEF SettingsTypeOK, Updating, Rollback, Closes

(* Onwards goes to a later field, or to the commit.                              *)
LEMMA OnwardsLeaves ==
  ASSUME SettingsTypeOK, NEW u \in Updates, NEW p \in Updating, Onwards(u, p)
  PROVE  \/ update'[u].at = "commit"
         \/ update'[u].at = "check" /\ update'[u].i \in 1 .. 3 /\ update'[u].i > p.i
  <1> DEFINE i == NextField(p.ask, p.i)
             q == IF i = 0 THEN [p EXCEPT !.at = "commit"] ELSE [p EXCEPT !.at = "check", !.i = i]
  <1>1. update'[u] = q BY DEF Onwards, SettingsTypeOK
  <1>2. i # 0 => i \in 1 .. 3 /\ i > p.i BY NextIsAhead
  <1> HIDE DEF i
  <1>3. q.at = "commit" \/ (q.at = "check" /\ q.i = i /\ i # 0) BY DEF Updating
  <1> HIDE DEF q
  <1> QED BY <1>1, <1>2, <1>3

LEMMA UpdateMoves ==
  ASSUME SettingsTypeOK, NEW u \in Updates, UpdateStep(u) \/ FailUpdate(u)
  PROVE  Moves(u)
  <1>t. update \in [Updates -> Updating] /\ update[u] \in Updating BY DEF SettingsTypeOK
  <1>1. CASE FailUpdate(u)
    <2>1. UnderWay(u) BY <1>1, <1>t DEF FailUpdate, UnderWay, Ended, Updating
    <2> QED BY <1>1, <2>1, RollbackCloses DEF FailUpdate, Ended, Moves
  <1>2. CASE CheckField(u)
    <2>1. CASE Rollback(u, "refused")
      BY <1>2, <2>1, RollbackCloses DEF CheckField, UnderWay, Ended, Moves
    <2>2. CASE ~Rollback(u, "refused")
      <3> DEFINE k == Key(u)
                 value == MadeOf(u)
                 seen == IF k = "policy" THEN {v \in Updates : update[v].at = "done"} ELSE update[u].seen
      <3>1. /\ update[u].at = "check" /\ UNCHANGED <<setting, writer>>
            /\ update' = [update EXCEPT ![u].at = "look", ![u].made[k] = value, ![u].seen = seen]
        BY <1>2, <2>2 DEF CheckField, MadeOf
      <3> HIDE DEF k, value, seen
      <3>2. update'[u].at = "look" /\ update'[u].i = update[u].i BY <1>t, <3>1 DEF Updating
      <3> QED BY <3>1, <3>2 DEF Stays, Moves
    <2> QED BY <2>1, <2>2
  <1>3. CASE LookUp(u)
    <2> DEFINE k == Key(u)
               p == [update[u] EXCEPT !.made[k] = None]
               b == setting[k] = None
    <2>1. update[u].at = "look" /\ UNCHANGED writer
          /\ (Onwards(u, p) \/ update' = [update EXCEPT ![u].at = "write", ![u].insert = b])
      BY <1>3 DEF LookUp
    <2> HIDE DEF k, b
    <2>2. CASE Onwards(u, p)
      <3>1. p \in Updating /\ p.i = update[u].i
        <4> DEFINE made == [update[u].made EXCEPT ![k] = None]
        <4>1. made \in Values
          <5>1. update[u].made \in Values BY <1>t DEF Updating
          <5>2. CASE k = "bucket" BY <5>1, <5>2 DEF Values
          <5>3. CASE k = "number" BY <5>1, <5>3 DEF Values
          <5>4. CASE k = "policy" BY <5>1, <5>4 DEF Values
          <5>5. CASE k \notin SettingKeys
            BY <5>1, <5>5 DEF Values, SettingKeys
          <5> QED BY <5>2, <5>3, <5>4, <5>5 DEF SettingKeys
        <4>2. p = [update[u] EXCEPT !.made = made] BY <1>t DEF Updating
        <4> HIDE DEF made
        <4> QED BY <1>t, <4>1, <4>2 DEF Updating
      <3> HIDE DEF p
      <3>2. \/ update'[u].at = "commit"
            \/ update'[u].at = "check" /\ update'[u].i \in 1 .. 3 /\ update'[u].i > update[u].i
        BY <2>2, <3>1, OnwardsLeaves
      <3> QED BY <2>1, <3>2 DEF Leaves, Moves
    <2>3. CASE update' = [update EXCEPT ![u].at = "write", ![u].insert = b]
      <3>1. update'[u].at = "write" /\ update'[u].i = update[u].i BY <1>t, <2>3 DEF Updating
      <3> QED BY <2>1, <3>1 DEF Stays, Moves
    <2> QED BY <2>1, <2>2, <2>3
  <1>4. CASE WriteField(u)
    <2>1. CASE Rollback(u, "refused")
      BY <1>4, <2>1, RollbackCloses DEF WriteField, UnderWay, Ended, Moves
    <2>2. CASE ~Rollback(u, "refused")
      <3>1. /\ update[u].at = "write" /\ writer[Key(u)] = None
            /\ writer' = [writer EXCEPT ![Key(u)] = u] /\ Onwards(u, update[u])
        BY <1>4, <2>2 DEF WriteField
      <3>2. \/ update'[u].at = "commit"
            \/ update'[u].at = "check" /\ update'[u].i \in 1 .. 3 /\ update'[u].i > update[u].i
        BY <1>t, <3>1, OnwardsLeaves
      <3> QED BY <3>1, <3>2 DEF Leaves, Moves
    <2> QED BY <2>1, <2>2
  <1>5. CASE Commit(u)
    BY <1>5, <1>t DEF Commit, Closes, UnderWay, Ended, Updating, Moves
  <1> QED BY <1>1, <1>2, <1>3, <1>4, <1>5 DEF UpdateStep

(* No step puts a written row at or before the field its writer works on.        *)
LEMMA WritersStep ==
  ASSUME SettingsSound, WritersGoAhead, [Next]_vars
  PROVE  WritersGoAhead'
  <1>t. /\ update \in [Updates -> Updating] /\ writer \in [SettingKeys -> Updates \union {None}]
        /\ \A k \in 1 .. 3 : Order[k] \in SettingKeys
        /\ \A j \in 1 .. 3, k \in 1 .. 3 : Order[j] = Order[k] => j = k
    BY KeyTyped DEF SettingsSound, SettingsTyping, SettingsTypeOK, Order
  <1>a. None \notin Updates
    <2>1. None \notin Int BY SettingsAssumption
    <2>2. \A u \in Updates : u \in Int BY SettingsAssumption
    <2> QED BY <2>1, <2>2
  <1> SUFFICES ASSUME NEW k \in 1 .. 3, writer'[Order[k]] # None
               PROVE  LET u == writer'[Order[k]] IN
                      /\ update'[u].at \in {"check", "look", "write", "commit"}
                      /\ update'[u].at = "commit" \/ update'[u].i > k
    BY DEF WritersGoAhead, UnderWay
  <1> DEFINE Good(u) == /\ update'[u].at \in {"check", "look", "write", "commit"}
                        /\ update'[u].at = "commit" \/ update'[u].i > k
  <1>0. CASE writer'[Order[k]] = writer[Order[k]] /\ update'[writer[Order[k]]] = update[writer[Order[k]]]
    BY <1>0 DEF WritersGoAhead, UnderWay
  <1>1. ASSUME NEW u \in Updates, UpdateStep(u) \/ FailUpdate(u)
        PROVE  Good(writer'[Order[k]])
    <2>0. /\ \A v \in Updates \ {u} : update'[v] = update[v]
          /\ Moves(u)
          /\ update'[u] \in Updating
      BY <1>1, UpdateAdvances, UpdateMoves
         DEF Advances, Continues, UpdatesTyped, SettingsSound, SettingsTyping
    <2>i. update[u].i \in 0 .. 3 /\ update'[u].i \in 0 .. 3 BY <1>t, <2>0 DEF Updating
    <2>1. CASE Closes(u)
      <3>1. writer[Order[k]] # u /\ writer'[Order[k]] = writer[Order[k]]
        BY <1>t, <2>1 DEF Closes, Release
      <3> QED BY <1>0, <1>t, <2>0, <3>1
    <2>2. CASE Stays(u)
      <3>1. CASE writer[Order[k]] # u BY <1>0, <1>t, <2>0, <2>2, <3>1 DEF Stays
      <3>2. CASE writer[Order[k]] = u
        <4>1. update[u].i > k BY <2>2, <3>2, <1>a DEF WritersGoAhead, Stays
        <4> QED BY <2>2, <3>2, <4>1 DEF Stays
      <3> QED BY <3>1, <3>2
    <2>3. CASE Leaves(u)
      <3>k. update[u].i \in 1 .. 3 /\ Key(u) = Order[update[u].i]
        BY <2>3 DEF Leaves, SettingsSound, SettingsTyping, UpdateShape, Key
      <3>1. CASE writer'[Order[k]] # u
        <4>1. writer'[Order[k]] = writer[Order[k]] BY <1>t, <2>3, <3>k, <3>1 DEF Leaves
        <4> QED BY <1>0, <1>t, <2>0, <3>1, <4>1
      <3>2. CASE writer'[Order[k]] = u
        <4>1. k <= update[u].i
          <5>1. CASE writer[Order[k]] = u
            <6>1. update[u].i > k BY <2>3, <5>1, <1>a DEF WritersGoAhead, Leaves
            <6> QED BY <6>1, <2>i
          <5>2. CASE writer[Order[k]] # u
            <6>1. Order[k] = Order[update[u].i]
              BY <1>t, <2>3, <3>k, <3>2, <5>2 DEF Leaves
            <6> QED BY <1>t, <3>k, <6>1
          <5> QED BY <5>1, <5>2
        <4>2. update'[u].at = "commit" \/ (update'[u].at = "check" /\ update'[u].i > update[u].i)
          BY <2>3 DEF Leaves
        <4>3. update'[u].i > update[u].i => update'[u].i > k BY <2>i, <4>1
        <4> QED BY <3>2, <4>2, <4>3
      <3> QED BY <3>1, <3>2
    <2> QED BY <2>0, <2>1, <2>2, <2>3 DEF Moves
  <1>2. ASSUME NEW u \in Updates, NEW t \in Tenants, NEW ask \in Asks, Update(u, t, ask)
        PROVE  Good(writer'[Order[k]])
    <2>1. writer[Order[k]] # u BY <1>2, <1>a DEF Update, NoUpdate, WritersGoAhead, UnderWay
    <2>2. writer' = writer /\ \A v \in Updates \ {u} : update'[v] = update[v] BY <1>2, <1>t DEF Update
    <2> QED BY <1>0, <1>t, <2>1, <2>2
  <1>3. CASE UNCHANGED settingVars BY <1>0, <1>3 DEF settingVars
  <1> QED BY <1>1, <1>2, <1>3, StepIsOneOf DEF vars

(* The order of the fields is a lock order: PUT /v1/settings never deadlocks.    *)
THEOREM UpdatesNeverDeadlock == Spec => []WaitsAreOrdered
  <1>1. Init => WritersGoAhead
    BY KeyTyped DEF Init, SettingsInit, WritersGoAhead
  <1>2. SettingsSound /\ WritersGoAhead /\ [Next]_vars => WritersGoAhead' BY WritersStep
  <1>3. SettingsSound /\ WritersGoAhead => WaitsAreOrdered
    BY DEF SettingsSound, SettingsTyping, UpdateShape, WritersGoAhead, WaitsAreOrdered, WaitsFor, Key
  <1> QED BY <1>1, <1>2, <1>3, AlwaysSound, PTL DEF Spec

(* The statements an update has left at most: three for each field, and a commit. *)
Left(p) ==
  CASE p.at = "check"  -> 3 * (4 - p.i) + 1
    [] p.at = "look"   -> 3 * (4 - p.i)
    [] p.at = "write"  -> 3 * (4 - p.i) - 1
    [] p.at = "commit" -> 1
    [] OTHER           -> 0

(* Every step of an update brings it nearer to its answer, by its own statements  *)
(* and whatever the others do: no field is written twice and none skipped back.   *)
UpdatesAdvance ==
  [][\A u \in Updates : UnderWay(u) =>
       /\ Left(update[u]) \in 1 .. 10
       /\ update'[u] # update[u] => Left(update'[u]) < Left(update[u])]_vars

(* A step that moves an update leaves less of it.                               *)
LEMMA MovesNearer ==
  ASSUME SettingsSound, NEW u \in Updates, Moves(u), update'[u] \in Updating
  PROVE  Left(update'[u]) < Left(update[u])
  <1>t. update[u] \in Updating BY DEF SettingsSound, SettingsTyping, SettingsTypeOK
  <1>i. /\ update[u].at \in {"check", "look", "write"} => update[u].i \in 1 .. 3
        /\ update[u].i \in 0 .. 3 /\ update'[u].i \in 0 .. 3
    BY <1>t DEF Updating, SettingsSound, SettingsTyping, UpdateShape
  <1>1. CASE Closes(u)
    <2>1. Left(update'[u]) = 0 BY <1>1 DEF Closes, Ended, Left
    <2> QED BY <1>1, <1>i, <2>1 DEF Closes, UnderWay, Left
  <1>2. CASE Stays(u)
    BY <1>2, <1>i DEF Stays, Left
  <1>3. CASE Leaves(u)
    <2>1. update[u].i \in 1 .. 3 /\ Left(update[u]) >= 3 * (4 - update[u].i) - 1
      BY <1>3, <1>i DEF Leaves, Left
    <2>2. CASE update'[u].at = "commit"
      <3>1. Left(update'[u]) = 1 BY <2>2 DEF Left
      <3> QED BY <2>1, <3>1, <1>3, <1>i DEF Leaves, Left
    <2>3. CASE update'[u].at # "commit"
      <3>1. /\ update'[u].at = "check" /\ update'[u].i > update[u].i
            /\ Left(update'[u]) = 3 * (4 - update'[u].i) + 1
        BY <1>3, <2>3 DEF Leaves, Left
      <3>2. Left(update[u]) \in {3 * (4 - update[u].i), 3 * (4 - update[u].i) - 1}
        BY <1>3 DEF Leaves, Left
      <3> QED BY <1>i, <3>1, <3>2
    <2> QED BY <2>2, <2>3
  <1> QED BY <1>1, <1>2, <1>3 DEF Moves

(* An update makes at most ten steps, whatever it asks for and finds.             *)
THEOREM UpdatesAreBounded == Spec => UpdatesAdvance
  <1> DEFINE Nearer == \A u \in Updates : UnderWay(u) =>
                         /\ Left(update[u]) \in 1 .. 10
                         /\ update'[u] # update[u] => Left(update'[u]) < Left(update[u])
  <1>1. SettingsSound /\ [Next]_vars => [Nearer]_vars
    <2> SUFFICES ASSUME SettingsSound, Next, NEW u \in Updates, UnderWay(u)
                 PROVE  /\ Left(update[u]) \in 1 .. 10
                        /\ update'[u] # update[u] => Left(update'[u]) < Left(update[u])
      OBVIOUS
    <2>1. Left(update[u]) \in 1 .. 10
      <3>1. update[u].at # "commit" => update[u].i \in {1, 2, 3}
        BY DEF UnderWay, SettingsSound, SettingsTyping, UpdateShape
      <3> QED BY <3>1 DEF UnderWay, Left
    <2>2. ASSUME NEW v \in Updates, UpdateStep(v) \/ FailUpdate(v), update'[u] # update[u]
          PROVE  Left(update'[u]) < Left(update[u])
      <3>1. Advances(v) /\ Moves(v) BY <2>2, UpdateAdvances, UpdateMoves DEF SettingsSound, SettingsTyping
      <3>2. v = u BY <2>2, <3>1 DEF Advances, Continues
      <3>3. update'[u] \in Updating BY <3>1 DEF Advances, Continues, UpdatesTyped
      <3> QED BY <3>1, <3>2, <3>3, MovesNearer
    <2>3. ASSUME NEW v \in Updates, NEW t \in Tenants, NEW ask \in Asks, Update(v, t, ask)
          PROVE  update'[u] = update[u]
      <3>1. v # u BY <2>3 DEF Update, NoUpdate, UnderWay
      <3> QED BY <2>3, <3>1 DEF Update, SettingsSound, SettingsTyping, SettingsTypeOK
    <2> QED BY <2>1, <2>2, <2>3, StepIsOneOf DEF settingVars, vars
  <1> HIDE DEF Nearer
  <1>2. Spec => [][Nearer]_vars BY <1>1, AlwaysSound, PTL DEF Spec
  <1> QED BY <1>2, PTL DEF UpdatesAdvance, Nearer
=============================================================================
