--------------------------- MODULE Administration ---------------------------
(***************************************************************************)
(* One deployment: requests about buckets and files, and updates of the       *)
(* runtime settings, which read the rows of the buckets.  They run             *)
(* concurrently and share nothing but storage and the database.               *)
(***************************************************************************)
EXTENDS RuntimeSettings

CONSTANT Mixes \* bounds: pairs of a number of requests and a number of updates

vars == <<bucketVars, settingVars>>

Init == BucketsInit /\ SettingsInit

Started == {r \in Requests : call[r] # NoCall}
Asked == {u \in Updates : update[u] # NoUpdate}

Room(requests, updates) ==
  \E mix \in Mixes :
    Cardinality(Started) + requests <= mix[1] /\ Cardinality(Asked) + updates <= mix[2]

Arrival ==
  \/ /\ Room(1, 0)
     /\ BucketsArrive
     /\ UNCHANGED settingVars
  \/ /\ Room(0, 1)
     /\ \E u \in Updates, t \in Tenants, ask \in Asks : Update(u, t, ask)
     /\ UNCHANGED <<dirs, path, inode, rows, files, call>>

Next ==
  /\ \/ Arrival
     \/ \E r \in Requests : BucketsStep(r) /\ UNCHANGED settingVars
     \/ /\ \E u \in Updates : UpdateStep(u) \/ FailUpdate(u)
        /\ UNCHANGED <<dirs, path, inode, rows, files, call>>
  /\ UNCHANGED backend

(* A process that neither crashes nor loses its client goes on: the steps of a  *)
(* request are statements of one coroutine.                                     *)
Fairness == \A u \in Updates : WF_vars(UpdateStep(u) /\ UNCHANGED bucketVars)

Spec == Init /\ [][Next]_vars /\ Fairness

(* The state of both components has the form their code gives it.               *)
TypeOK == BucketsTypeOK /\ SettingsTypeOK
=============================================================================
