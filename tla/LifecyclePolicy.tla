--------------------------- MODULE LifecyclePolicy ---------------------------
(***************************************************************************)
(* The adjudication of retention policies: app/lifecycle/policy.py merges   *)
(* what a client asks for with the server's limits and a default policy d:   *)
(* that of the runtime settings for an upload, that of the configuration      *)
(* for lifecycle_service.py.  A request is a record whose fields may be       *)
(* None; times and TTLs are integers of one unit.                            *)
(***************************************************************************)
EXTENDS Integers

CONSTANTS
  MinTtl, MaxTtl,    \* lifecycle.policy.minimum_ttl_seconds, maximum_ttl_seconds
  AllowOverride,     \* lifecycle.policy.allow_client_override
  PermanentAllowed,  \* lifecycle.policy.permanent_allowed
  AllowedModes, AllowedActions,
  None

TtlModes == {"ttl", "temporary", "sliding_ttl"}
Modes    == TtlModes \union {"permanent", "expires_at"}
Actions  == {"delete", "notify", "none"}

ASSUME PolicyAssumption ==
  /\ MinTtl \in Int /\ MaxTtl \in Int
  /\ {AllowOverride, PermanentAllowed} \subseteq BOOLEAN
  /\ AllowedModes \subseteq Modes /\ AllowedActions \subseteq Actions
  /\ None \notin Int \union Modes \union Actions

(* Nothing checks a default policy against the limits. *)
DefaultPolicies == [mode : Modes, action : Actions, ttl : Int]

PolicyRequest == [mode : Modes \union {None}, action : Actions \union {None},
                  ttl : Int \union {None}, expires : Int \union {None}]
Policy == [mode : Modes, action : Actions,
           ttl : Int \union {None}, expires : Int \union {None}]

NoRequest == [mode |-> None, action |-> None, ttl |-> None, expires |-> None]

(* requested.get(...) or server_default.get(...): a TTL of 0 counts as unset. *)
Merged(d, r) ==
  LET q == IF AllowOverride THEN r ELSE NoRequest IN
  [mode    |-> IF q.mode = None THEN d.mode ELSE q.mode,
   action  |-> IF q.action = None THEN d.action ELSE q.action,
   ttl     |-> IF q.ttl \in {None, 0} THEN d.ttl ELSE q.ttl,
   expires |-> q.expires]

(* The requests that raise neither InvalidLifecyclePolicyError nor            *)
(* TtlOutOfRangeError.  Nothing bounds an expires_at from above.               *)
Acceptable(d, r, base) ==
  LET q == Merged(d, r) IN
  /\ q.mode \in AllowedModes /\ q.action \in AllowedActions
  /\ q.mode = "permanent" => PermanentAllowed
  /\ q.mode \in TtlModes => MinTtl <= q.ttl /\ q.ttl <= MaxTtl
  /\ q.mode = "expires_at" => q.expires # None /\ q.expires - base >= MinTtl

(* compute_effective_lifecycle of an acceptable request. *)
Effective(d, r, base) ==
  LET q == Merged(d, r) IN
  [mode    |-> q.mode,
   action  |-> q.action,
   ttl     |-> CASE q.mode \in TtlModes    -> q.ttl
                 [] q.mode = "expires_at"  -> q.expires - base
                 [] OTHER                  -> None,
   expires |-> CASE q.mode \in TtlModes    -> base + q.ttl
                 [] q.mode = "expires_at"  -> q.expires
                 [] OTHER                  -> None]
=============================================================================
