-------------------------- MODULE MCFileLifecycle --------------------------
(* Small instances of FileLifecycle for TLC. *)
EXTENDS FileLifecycle, TLC

MCDefaults == {[mode |-> "ttl", action |-> "delete", ttl |-> 1]}

(* The runtime default has been changed: the configuration's keeps files longer. *)
MCBootstrap == [mode |-> "ttl", action |-> "none", ttl |-> 2]

(* No request at all, and a notification at a date. *)
MCRequests ==
  {NoRequest,
   [NoRequest EXCEPT !.mode = "expires_at", !.action = "notify", !.expires = 1]}

Symmetry == Permutations(Handlers) \union Permutations(Workers)
=============================================================================
