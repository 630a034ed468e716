--------------------------- MODULE UploadContract ---------------------------
(***************************************************************************)
(* What the upload API promises about the sessions that compete for one     *)
(* object key, seen from its clients: a session is opened once, leaves      *)
(* "open" once, and at most one of them ever becomes the owner of the file  *)
(* (docs 12.1, 20.5).  The steps in between -- locks, storage calls, parts, *)
(* crashes -- do not show.                                                  *)
(***************************************************************************)
CONSTANTS Sessions, None

VARIABLES
  phase,  \* of each session: "none", "open", "completed", "aborted", "expired"
  owner   \* the session whose file has the key, or None

Init == phase = [s \in Sessions |-> "none"] /\ owner = None

Open(s) ==
  /\ phase[s] = "none"
  /\ phase' = [phase EXCEPT ![s] = "open"]
  /\ UNCHANGED owner

Complete(s) ==
  /\ phase[s] = "open" /\ owner = None
  /\ phase' = [phase EXCEPT ![s] = "completed"]
  /\ owner' = s

Close(s, how) ==
  /\ phase[s] = "open"
  /\ phase' = [phase EXCEPT ![s] = how]
  /\ UNCHANGED owner

Next == \E s \in Sessions :
          Open(s) \/ Complete(s) \/ Close(s, "aborted") \/ Close(s, "expired")

Spec == Init /\ [][Next]_<<phase, owner>>
=============================================================================
