-------------------------- MODULE MCAdministration --------------------------
EXTENDS Administration

NoPatch == [mode |-> None, action |-> None, ttl |-> None]
MCPatches == {[NoPatch EXCEPT !.mode = "permanent"], [NoPatch EXCEPT !.action = "notify"],
              [NoPatch EXCEPT !.ttl = 3], [NoPatch EXCEPT !.ttl = 4]}

(* The ttl of the configuration's default is below its own minimum. *)
MCDefault == [mode |-> "ttl", action |-> "delete", ttl |-> 1]
MCModes == {"ttl", "temporary", "permanent"}
MCActions == {"delete", "notify"}
MCMixes == {<<1, 1>>, <<0, 2>>}
MCNumbers == {1}
=============================================================================
