---------------------------- MODULE BucketsProofs ----------------------------
(***************************************************************************)
(* Proofs about Buckets, for any requests, tenants, names and keys and either *)
(* backend.                                                                  *)
(***************************************************************************)
EXTENDS Buckets, TLAPS

Creating == {"row", "store", "insert"}
Deleting == {"exists", "remove", "drop"}
Putting  == {"open", "truncate", "write", "replace", "send", "record"}

(* A request that is under way names what it works on. *)
RequestShape ==
  \A r \in Requests :
    /\ call[r].at = "idle" => ~call[r].gone /\ ~call[r].made /\ call[r].row = None
    /\ call[r].at # "idle" =>
         call[r].name \in Names /\ call[r].tenant \in Tenants /\ call[r].op \in {"create", "delete", "put"}
    /\ call[r].at \in Creating => call[r].op = "create"
    /\ call[r].at \in Deleting => call[r].op = "delete" /\ call[r].row \in Requests \union {0}
    /\ call[r].at \in Putting => call[r].op = "put" /\ call[r].key \in Keys
    /\ call[r].at \in {"write", "replace"} => call[r].opened \in Requests
    /\ call[r].at = "insert" => call[r].made
    /\ call[r].gone => call[r].at \in {"drop", "done", "failed"}

Typing == BucketsTypeOK /\ RequestShape

-----------------------------------------------------------------------------
(* Keys and their temporary names are paths. *)
LEMMA KeyPaths ==
  ASSUME NEW k \in Keys
  PROVE  k \in Paths /\ Temporary(k) \in Paths
BY DEF Keys, Paths, Temporary

(* A step of a request from one point to another keeps the types of the calls.  *)
LEMMA GoesTyped ==
  ASSUME Typing, NEW r \in Requests, call[r].at # "idle", NEW at \in Steps, Goes(r, at)
  PROVE  /\ call' \in [Requests -> Call]
         /\ \A q \in Requests \ {r} : call'[q] = call[q]
         /\ call'[r] = [call[r] EXCEPT !.at = at]
BY DEF Typing, BucketsTypeOK, Call, Goes

(* What a step of request r leaves of it and of the others.                      *)
Framed(r) ==
  /\ call' \in [Requests -> Call]
  /\ \A q \in Requests \ {r} : call'[q] = call[q]
  /\ call[r].at # "idle" /\ call'[r].at # "idle"
  /\ call'[r].op = call[r].op /\ call'[r].name = call[r].name /\ call'[r].row = call[r].row
  /\ call'[r].tenant = call[r].tenant /\ call'[r].key = call[r].key

(* No step of a request changes what it was asked for, or another request.       *)
LEMMA StepFrame ==
  ASSUME Typing, NEW r \in Requests, BucketsStep(r)
  PROVE  Framed(r)
  <1> USE DEF Typing, BucketsTypeOK, Call, Steps, Goes, Made, Framed
  <1>1. CASE CreateCheckRow(r) BY <1>1 DEF CreateCheckRow
  <1>2. CASE CreateStore(r) BY <1>2 DEF CreateStore
  <1>3. CASE CreateInsert(r) BY <1>3 DEF CreateInsert
  <1>4. CASE DeleteCheckStorage(r) BY <1>4 DEF DeleteCheckStorage
  <1>5. CASE DeleteRemove(r) BY <1>5 DEF DeleteRemove
  <1>6. CASE DeleteDrop(r) BY <1>6 DEF DeleteDrop
  <1>7. CASE PutOpen(r) BY <1>7 DEF PutOpen
  <1>8. CASE PutTruncate(r) BY <1>8 DEF PutTruncate
  <1>9. CASE PutWrite(r) BY <1>9 DEF PutWrite
  <1>10. CASE PutWriteFails(r) BY <1>10 DEF PutWriteFails
  <1>11. ASSUME NEW wrong \in BOOLEAN, PutReplace(r, wrong) PROVE Framed(r)
    <2>1. call[r].at = "replace" /\ (Goes(r, "refused") \/ Goes(r, "record")) BY <1>11, Zenon DEF PutReplace
    <2> QED BY <2>1
  <1>12. ASSUME NEW wrong \in BOOLEAN, PutSend(r, wrong) PROVE Framed(r)
    <2>1. CASE wrong = TRUE BY <1>12, <2>1 DEF PutSend
    <2>2. CASE wrong = FALSE BY <1>12, <2>2 DEF PutSend
    <2> QED BY <2>1, <2>2
  <1>13. CASE PutRecord(r)
    <2>1. call[r].at = "record" /\ (Goes(r, "refused") \/ Goes(r, "done")) BY <1>13, Zenon DEF PutRecord
    <2> QED BY <2>1
  <1>14. CASE Fail(r) BY <1>14 DEF Fail, Over
  <1> QED BY <1>1, <1>2, <1>3, <1>4, <1>5, <1>6, <1>7, <1>8, <1>9, <1>10, <1>11, <1>12, <1>13, <1>14 DEF BucketsStep

(* Storage and the tables keep their types. *)
Stored ==
  /\ dirs \subseteq Names
  /\ path \in [Names -> [Paths -> Requests \union {None}]]
  /\ inode \in [Requests -> SUBSET Requests]
  /\ rows \subseteq BucketRow
  /\ files \subseteq FileRow

LEMMA StepStored ==
  ASSUME Typing, NEW r \in Requests, BucketsStep(r)
  PROVE  Stored'
  <1> USE DEF Typing, BucketsTypeOK, Stored
  <1> DEFINE n == call[r].name
             t == Temporary(call[r].key)
  <1>0. /\ call[r] \in Call
        /\ call[r].at # "idle" => n \in Names /\ call[r].tenant \in Tenants
        /\ call[r].at \in Putting => t \in Paths /\ call[r].key \in Paths /\ call[r].key \in Keys
        /\ call[r].at \in {"write", "replace"} => call[r].opened \in Requests
    BY KeyPaths DEF RequestShape
  <1> HIDE DEF t
  <1>1. CASE CreateCheckRow(r) BY <1>1 DEF CreateCheckRow
  <1>2. CASE CreateStore(r) BY <1>0, <1>2 DEF CreateStore
  <1>3. CASE CreateInsert(r) BY <1>0, <1>3 DEF CreateInsert, BucketRow
  <1>4. CASE DeleteCheckStorage(r) BY <1>4 DEF DeleteCheckStorage
  <1>5. CASE DeleteRemove(r) BY <1>5 DEF DeleteRemove
  <1>6. CASE DeleteDrop(r) BY <1>6 DEF DeleteDrop
  <1>7. CASE PutOpen(r) BY <1>0, <1>7 DEF PutOpen
  <1>8. CASE PutTruncate(r)
    <2> DEFINE file == IF path[n][t] = None THEN r ELSE path[n][t]
    <2>1. call[r].at = "truncate" /\ n \in Names /\ t \in Paths BY <1>0, <1>8 DEF PutTruncate, Putting
    <2>2. file \in Requests BY <2>1
    <2>3. CASE UNCHANGED <<path, inode>> BY <1>8, <2>3 DEF PutTruncate
    <2>4. CASE path' = [path EXCEPT ![n][t] = file] /\ inode' = [inode EXCEPT ![file] = {}]
      <3> HIDE DEF file
      <3>1. path' \in [Names -> [Paths -> Requests \union {None}]] BY <2>1, <2>2, <2>4
      <3>2. inode' \in [Requests -> SUBSET Requests] BY <2>2, <2>4
      <3> QED BY <1>8, <3>1, <3>2 DEF PutTruncate
    <2> QED BY <1>8, <2>3, <2>4 DEF PutTruncate, t
  <1>9. CASE PutWrite(r) BY <1>0, <1>9 DEF PutWrite
  <1>10. CASE PutWriteFails(r)
    <2>1. call[r].at \in Putting /\ path' = [path EXCEPT ![n][t] = None] BY <1>10 DEF PutWriteFails, Putting, t
    <2>2. path' \in [Names -> [Paths -> Requests \union {None}]] BY <1>0, <2>1 DEF Putting
    <2> QED BY <1>10, <2>2 DEF PutWriteFails
  <1>11. ASSUME NEW wrong \in BOOLEAN, PutReplace(r, wrong) PROVE Stored'
    <2> DEFINE k == call[r].key
               file == IF wrong THEN None ELSE path[n][t]
    <2>1. call[r].at \in Putting /\ path' = [path EXCEPT ![n][t] = None, ![n][k] = file]
      BY <1>11 DEF PutReplace, Putting, t
    <2>2. n \in Names /\ t \in Paths /\ k \in Paths BY <1>0, <2>1 DEF Putting
    <2>3. file \in Requests \union {None} BY <2>2
    <2> HIDE DEF file
    <2>4. path' \in [Names -> [Paths -> Requests \union {None}]] BY <2>1, <2>2, <2>3
    <2> QED BY <1>11, <2>4 DEF PutReplace
  <1>12. ASSUME NEW wrong \in BOOLEAN, PutSend(r, wrong) PROVE Stored'
    <2>1. CASE UNCHANGED <<path, inode>> BY <1>12, <2>1 DEF PutSend
    <2>2. CASE path' = [path EXCEPT ![n][call[r].key] = r] /\ inode' = [inode EXCEPT ![r] = {r}]
      <3>1. call[r].at \in Putting BY <1>12 DEF PutSend, Putting
      <3>2. path' \in [Names -> [Paths -> Requests \union {None}]] BY <1>0, <2>2, <3>1 DEF Putting
      <3>3. inode' \in [Requests -> SUBSET Requests] BY <2>2
      <3> QED BY <1>12, <3>2, <3>3 DEF PutSend
    <2> QED BY <1>12, <2>1, <2>2 DEF PutSend
  <1>13. CASE PutRecord(r)
    <2> DEFINE f == [id |-> r, tenant |-> call[r].tenant, name |-> n, key |-> call[r].key]
    <2>1. call[r].at \in Putting /\ files' \in {files, files \union {f}} BY <1>13, Zenon DEF PutRecord, Putting
    <2>2. f \in FileRow BY <1>0, <2>1 DEF FileRow, Putting
    <2> HIDE DEF f
    <2> QED BY <1>13, <2>1, <2>2 DEF PutRecord
  <1>14. CASE Fail(r) BY <1>14 DEF Fail
  <1> QED BY <1>1, <1>2, <1>3, <1>4, <1>5, <1>6, <1>7, <1>8, <1>9, <1>10, <1>11, <1>12, <1>13, <1>14 DEF BucketsStep

(* Where a step of request r may take it. *)
Moved(r) ==
  /\ call'[r].at \in Creating => call[r].at \in Creating
  /\ call'[r].at \in Deleting => call[r].at \in Deleting
  /\ call'[r].at \in Putting => call[r].at \in Putting
  /\ call'[r].at \in {"write", "replace"} => call'[r].opened \in Requests
  /\ call'[r].at = "insert" => call'[r].made
  /\ call'[r].gone => call'[r].at \in {"drop", "done", "failed"}
  /\ call[r].made => call'[r].made
  /\ call[r].gone => call'[r].gone

(* Where a request may go from where it is, for the steps that matter below.    *)
LEMMA StepShape ==
  ASSUME Typing, NEW r \in Requests, BucketsStep(r)
  PROVE  Moved(r)
  <1> USE DEF Typing, BucketsTypeOK, RequestShape, Creating, Deleting, Putting, Call, Goes, Made, Moved
  <1>1. CASE CreateCheckRow(r) BY <1>1 DEF CreateCheckRow
  <1>2. CASE CreateStore(r) BY <1>2 DEF CreateStore
  <1>3. CASE CreateInsert(r) BY <1>3 DEF CreateInsert
  <1>4. CASE DeleteCheckStorage(r) BY <1>4 DEF DeleteCheckStorage
  <1>5. CASE DeleteRemove(r) BY <1>5 DEF DeleteRemove
  <1>6. CASE DeleteDrop(r) BY <1>6 DEF DeleteDrop
  <1>7. CASE PutOpen(r) BY <1>7 DEF PutOpen
  <1>8. CASE PutTruncate(r)
    <2> DEFINE t == Temporary(call[r].key)
               file == IF path[call[r].name][t] = None THEN r ELSE path[call[r].name][t]
    <2>1. call[r].at = "truncate" /\ call[r].name \in Names /\ call[r].key \in Keys BY <1>8 DEF PutTruncate
    <2>2. file \in Requests BY <2>1, KeyPaths
    <2> HIDE DEF file
    <2>3. Goes(r, "refused") \/ call' = [call EXCEPT ![r].at = "write", ![r].opened = file]
      BY <1>8 DEF PutTruncate, file
    <2> QED BY <2>1, <2>2, <2>3
  <1>9. CASE PutWrite(r) BY <1>9 DEF PutWrite
  <1>10. CASE PutWriteFails(r) BY <1>10 DEF PutWriteFails
  <1>11. ASSUME NEW wrong \in BOOLEAN, PutReplace(r, wrong) PROVE Moved(r)
    <2>1. call[r].at = "replace" /\ (Goes(r, "refused") \/ Goes(r, "record")) BY <1>11, Zenon DEF PutReplace
    <2> QED BY <2>1
  <1>12. ASSUME NEW wrong \in BOOLEAN, PutSend(r, wrong) PROVE Moved(r)
    <2>1. call[r].at = "send" BY <1>12 DEF PutSend
    <2>2. \/ Goes(r, "refused")
          \/ call' = [call EXCEPT ![r].opened = r, ![r].at = "refused"]
          \/ call' = [call EXCEPT ![r].opened = r, ![r].at = "record"]
      BY <1>12, Zenon DEF PutSend
    <2> QED BY <2>1, <2>2
  <1>13. CASE PutRecord(r)
    <2>1. call[r].at = "record" /\ (Goes(r, "refused") \/ Goes(r, "done")) BY <1>13, Zenon DEF PutRecord
    <2> QED BY <2>1
  <1>14. CASE Fail(r) BY <1>14 DEF Fail, Over
  <1> QED BY <1>1, <1>2, <1>3, <1>4, <1>5, <1>6, <1>7, <1>8, <1>9, <1>10, <1>11, <1>12, <1>13, <1>14 DEF BucketsStep

(* A request arrives at its first step; a deletion has read the row of a bucket.  *)
Arrived(r) ==
  /\ call' \in [Requests -> Call]
  /\ \A q \in Requests \ {r} : call'[q] = call[q]
  /\ call[r] = NoCall
  /\ call'[r].name \in Names /\ call'[r].tenant \in Tenants
  /\ \/ call'[r].at = "row" /\ call'[r].op = "create" /\ call'[r].row = None
     \/ call'[r].at = "exists" /\ call'[r].op = "delete" /\ \E b \in rows : b.id = call'[r].row
     \/ call'[r].at \in {"open", "send"} /\ call'[r].op = "put" /\ call'[r].row = None /\ call'[r].key \in Keys
  /\ ~call'[r].gone /\ ~call'[r].made
  /\ UNCHANGED <<dirs, path, inode, rows, files>>

(* A request arrives without touching storage, the tables or the other requests. *)
LEMMA ArriveFrame ==
  ASSUME Typing, BucketsArrive
  PROVE  \E r \in Requests : Arrived(r)
  <1>1. PICK r \in Requests, t \in Tenants, n \in Names :
          \/ Create(r, t, n)
          \/ Delete(r, t, n)
          \/ \E k \in Keys : Put(r, t, n, k)
    BY DEF BucketsArrive
  <1> USE DEF Typing, BucketsTypeOK, Call, NoCall, Steps, Arrives, Arrived
  <1>2. CASE Create(r, t, n) BY <1>2 DEF Create
  <1>3. CASE Delete(r, t, n)
    <2>1. PICK b \in RowsOf(t, n) :
            Arrives(r, [NoCall EXCEPT !.op = "delete", !.tenant = t, !.name = n, !.row = b.id, !.at = "exists"])
      BY <1>3 DEF Delete
    <2>2. b \in rows /\ b.id \in Requests \union {0} BY DEF RowsOf, BucketRow
    <2>3. UNCHANGED <<dirs, path, inode, rows, files>> BY <1>3 DEF Delete
    <2> DEFINE i == b.id
    <2>4. i \in Requests \union {0} /\ \E d \in rows : d.id = i BY <2>2
    <2>5. Arrives(r, [NoCall EXCEPT !.op = "delete", !.tenant = t, !.name = n, !.row = i, !.at = "exists"])
      BY <2>1
    <2> HIDE DEF i
    <2> QED BY <2>3, <2>4, <2>5
  <1>4. ASSUME NEW k \in Keys, Put(r, t, n, k) PROVE Arrived(r)
    <2>1. CASE backend = "local" BY <1>4, <2>1 DEF Put
    <2>2. CASE backend # "local" BY <1>4, <2>2 DEF Put
    <2> QED BY <2>1, <2>2
  <1> QED BY <1>1, <1>2, <1>3, <1>4

LEMMA TypingStep ==
  ASSUME Typing, [BucketsNext]_bucketVars
  PROVE  Typing'
  <1>1. ASSUME NEW r \in Requests, BucketsStep(r), UNCHANGED backend PROVE Typing'
    <2>1. Framed(r) /\ Moved(r) /\ Stored' BY <1>1, StepFrame, StepShape, StepStored
    <2>2. BucketsTypeOK' BY <1>1, <2>1 DEF Typing, BucketsTypeOK, Stored, Framed
    <2>3. RequestShape'
      BY <2>1 DEF Typing, RequestShape, Framed, Moved, Creating, Deleting, Putting
    <2> QED BY <2>2, <2>3 DEF Typing
  <1>2. ASSUME BucketsArrive, UNCHANGED backend PROVE Typing'
    <2>1. PICK r \in Requests : Arrived(r) BY <1>2, ArriveFrame
    <2>2. BucketsTypeOK' BY <1>2, <2>1 DEF Typing, BucketsTypeOK, Arrived
    <2>3. RequestShape'
      BY <2>1 DEF Typing, BucketsTypeOK, RequestShape, Arrived, Creating, Deleting, Putting, BucketRow
    <2> QED BY <2>2, <2>3 DEF Typing
  <1>3. CASE UNCHANGED bucketVars
    BY <1>3 DEF Typing, BucketsTypeOK, RequestShape, bucketVars
  <1> QED BY <1>1, <1>2, <1>3 DEF BucketsNext

LEMMA TypingInit ==
  ASSUME BucketsInit
  PROVE  Typing
  <1>1. PICK owned \in SUBSET (Names \ Configured), owner \in [Names -> Tenants] :
          /\ dirs = Configured \union owned
          /\ rows = {[id |-> 0, tenant |-> owner[n], name |-> n] : n \in owned}
    BY DEF BucketsInit
  <1>2. rows \subseteq BucketRow BY <1>1 DEF BucketRow
  <1>3. dirs \subseteq Names BY <1>1, BucketsAssumption
  <1>4. NoCall \in Call BY DEF NoCall, Call, Steps
  <1>5. BucketsTypeOK BY <1>2, <1>3, <1>4 DEF BucketsInit, BucketsTypeOK
  <1>6. RequestShape BY DEF BucketsInit, RequestShape, NoCall, Creating, Deleting, Putting
  <1> QED BY <1>5, <1>6 DEF Typing

LEMMA AlwaysTyping == BucketsSpec => []Typing
  <1> QED BY TypingInit, TypingStep, PTL DEF BucketsSpec

(* The calls, the tables and the file system keep the form the code gives them,  *)
(* for any requests, tenants, names and keys.                                   *)
THEOREM TypeCorrect == BucketsSpec => []BucketsTypeOK
  <1>1. Typing => BucketsTypeOK BY DEF Typing
  <1> QED BY <1>1, AlwaysTyping, PTL


-----------------------------------------------------------------------------
(* What the storage of buckets and their rows have to do with each other.        *)

(* A bucket row, and a row a deletion has read, come from a creation that is     *)
(* over, or were there before.                                                  *)
IdsAreDone ==
  /\ \A b \in rows : b.id \in Requests => call[b.id].at = "done"
  /\ \A r \in Requests : call[r].row \in Requests => call[call[r].row].at = "done"

(* A bucket about to get its row is there, or was removed meanwhile; a row of    *)
(* its name that is there already has lost its bucket, and of two such creations *)
(* of one name the bucket of the first was removed.                             *)
InsertsAreBacked ==
  \A q \in Requests : call[q].at = "insert" =>
    /\ call[q].name \in dirs \/ HasRemoved(call[q].name, {})
    /\ \A b \in rows : b.name = call[q].name => HasRemoved(b.name, {b.id})
    /\ \A p \in Requests \ {q} : call[p].at = "insert" /\ call[p].name = call[q].name
                                   => HasRemoved(call[q].name, {})

(* BucketsAreOwned, with a row that no deletion is about to drop.                *)
OwnedForLong ==
  \A n \in dirs \ Configured :
    \/ \E b \in rows :
         /\ b.name = n
         /\ \A r \in Requests : ~(call[r].at = "drop" /\ call[r].name = n /\ call[r].row = b.id)
    \/ \E r \in Requests :
         /\ call[r].name = n /\ call[r].made
         /\ call[r].op = "create" => call[r].at # "done"

Backed == IdsAreDone /\ InsertsAreBacked /\ RowsAreBacked /\ OneTenant /\ OwnedForLong


-----------------------------------------------------------------------------
(* What a step of request r does to the buckets and their rows, one operator for *)
(* each kind.                                                                   *)
Makes(r) ==
  /\ call[r].at \in {"store", "open"} /\ call[r].name \notin dirs
  /\ dirs' = dirs \union {call[r].name} /\ UNCHANGED rows
  /\ call'[r].made /\ call'[r].gone = call[r].gone
  /\ call'[r].at = IF call[r].op = "create" THEN "insert" ELSE "truncate"
Inserts(r) ==
  /\ call[r].at = "insert"
  /\ rows' = rows \union {[id |-> r, tenant |-> call[r].tenant, name |-> call[r].name]}
  /\ UNCHANGED dirs
  /\ call'[r].at = "done" /\ call'[r].made = call[r].made /\ call'[r].gone = call[r].gone
Removes(r) ==
  /\ call[r].at = "remove"
  /\ dirs' = dirs \ {call[r].name} /\ UNCHANGED rows
  /\ call'[r].at = "drop" /\ call'[r].made = call[r].made
  /\ call[r].name \in dirs => call'[r].gone
Drops(r) ==
  /\ call[r].at = "drop"
  /\ rows' = {b \in rows : b.id # call[r].row \/ b.name # call[r].name}
  /\ UNCHANGED dirs
  /\ call'[r].at = "done" /\ call'[r].made = call[r].made /\ call'[r].gone = call[r].gone
Passes(r) ==
  /\ UNCHANGED <<dirs, rows>>
  /\ call'[r].made = call[r].made /\ call'[r].gone = call[r].gone
  /\ call'[r].at \notin {"insert", "drop"}
  /\ call'[r].at = "done" => call[r].op = "put"
  /\ call[r].gone => call'[r].at = "failed"

Affects(r) ==
  /\ call[r].at \notin {"idle", "done", "refused", "failed"}
  /\ Makes(r) \/ Inserts(r) \/ Removes(r) \/ Drops(r) \/ Passes(r)

LEMMA StepAffects ==
  ASSUME Typing, NEW r \in Requests, BucketsStep(r)
  PROVE  Affects(r)
  <1> USE DEF Typing, BucketsTypeOK, Call, Goes, Made, Affects
  <1> USE DEF RequestShape, Creating, Deleting, Putting
  <1>1. CASE CreateCheckRow(r) BY <1>1 DEF CreateCheckRow, Passes
  <1>2. CASE CreateStore(r) BY <1>2 DEF CreateStore, Passes, Makes
  <1>3. CASE CreateInsert(r) BY <1>3 DEF CreateInsert, Passes, Inserts
  <1>4. CASE DeleteCheckStorage(r) BY <1>4 DEF DeleteCheckStorage, Passes
  <1>5. CASE DeleteRemove(r) BY <1>5 DEF DeleteRemove, Passes, Removes
  <1>6. CASE DeleteDrop(r) BY <1>6 DEF DeleteDrop, Drops
  <1>7. CASE PutOpen(r) BY <1>7 DEF PutOpen, Passes, Makes
  <1>8. CASE PutTruncate(r)
    <2> DEFINE t == Temporary(call[r].key)
               file == IF path[call[r].name][t] = None THEN r ELSE path[call[r].name][t]
    <2>1. /\ call[r].at = "truncate" /\ UNCHANGED <<dirs, rows>>
          /\ Goes(r, "refused") \/ call' = [call EXCEPT ![r].at = "write", ![r].opened = file]
      BY <1>8 DEF PutTruncate
    <2> HIDE DEF file
    <2> QED BY <2>1 DEF Passes
  <1>9. CASE PutWrite(r) BY <1>9 DEF PutWrite, Passes
  <1>10. CASE PutWriteFails(r) BY <1>10 DEF PutWriteFails, Passes
  <1>11. ASSUME NEW wrong \in BOOLEAN, PutReplace(r, wrong) PROVE Affects(r)
    <2>1. call[r].at = "replace" /\ UNCHANGED <<dirs, rows>> /\ (Goes(r, "refused") \/ Goes(r, "record"))
      BY <1>11, Zenon DEF PutReplace
    <2> QED BY <2>1 DEF Passes
  <1>12. ASSUME NEW wrong \in BOOLEAN, PutSend(r, wrong) PROVE Affects(r)
    <2>1. call[r].at = "send" /\ UNCHANGED <<dirs, rows>> BY <1>12 DEF PutSend
    <2>2. \/ Goes(r, "refused")
          \/ call' = [call EXCEPT ![r].opened = r, ![r].at = "refused"]
          \/ call' = [call EXCEPT ![r].opened = r, ![r].at = "record"]
      BY <1>12, Zenon DEF PutSend
    <2> QED BY <2>1, <2>2 DEF Passes
  <1>13. CASE PutRecord(r)
    <2>1. call[r].at = "record" /\ UNCHANGED <<dirs, rows>> /\ (Goes(r, "refused") \/ Goes(r, "done"))
      BY <1>13, Zenon DEF PutRecord
    <2> QED BY <2>1 DEF Passes
  <1>14. CASE Fail(r) BY <1>14 DEF Fail, Over, Passes
  <1> QED BY <1>1, <1>2, <1>3, <1>4, <1>5, <1>6, <1>7, <1>8, <1>9, <1>10, <1>11, <1>12, <1>13, <1>14 DEF BucketsStep


(* A step of the storage or of the database, of whatever request.                *)
Step(r) == Typing /\ Framed(r) /\ Moved(r) /\ Affects(r)

(* A removal is not undone, and stands for a row as long as the row is there.     *)
LEMMA RemovedForLong ==
  ASSUME NEW r \in Requests, Step(r), NEW n, NEW ids, HasRemoved(n, ids),
         \A i \in ids : \E b \in rows' : b.id = i /\ b.name = n
  PROVE  HasRemoved(n, ids)'
  <1>1. PICK d \in Requests :
          /\ call[d].op = "delete" /\ call[d].name = n /\ call[d].gone
          /\ call[d].row \in ids => call[d].at \in {"drop", "failed"}
    BY DEF HasRemoved
  <1>2. CASE d # r BY <1>1, <1>2 DEF HasRemoved, Step, Framed
  <1>3. CASE d = r
    <2>1. call[r].at = "drop" BY <1>1, <1>3 DEF Step, Typing, RequestShape, Affects
    <2>2. CASE Drops(r) BY <1>1, <1>3, <2>2 DEF Drops, HasRemoved, Step, Framed
    <2>3. CASE Passes(r) BY <1>1, <1>3, <2>3 DEF Passes, HasRemoved, Step, Framed
    <2> QED BY <2>1, <2>2, <2>3 DEF Step, Affects, Makes, Inserts, Removes
  <1> QED BY <1>2, <1>3

(* A bucket that a step takes away has been removed by it.                       *)
LEMMA RemovedNow ==
  ASSUME NEW r \in Requests, Step(r), NEW n \in dirs, n \notin dirs', NEW ids
  PROVE  HasRemoved(n, ids)'
  <1>1. Removes(r) /\ call[r].name = n
    BY DEF Step, Affects, Makes, Inserts, Removes, Drops, Passes
  <1>2. call'[r].op = "delete" BY <1>1 DEF Removes, Step, Typing, RequestShape, Deleting, Framed
  <1> QED BY <1>1, <1>2 DEF Removes, HasRemoved, Step, Framed

(* A removal says nothing of a row whose creation is not over.                   *)
LEMMA RemovedBefore ==
  ASSUME IdsAreDone, NEW r \in Requests, call[r].at # "done", NEW n, NEW ids, HasRemoved(n, ids)
  PROVE  HasRemoved(n, ids \union {r})
BY DEF HasRemoved, IdsAreDone

LEMMA IdsStep ==
  ASSUME NEW r \in Requests, Step(r), IdsAreDone
  PROVE  IdsAreDone'
  <1>1. \A q \in Requests : call[q].at = "done" => call'[q].at = "done"
    BY DEF Step, Framed, Affects
  <1>2. \A q \in Requests : call'[q].row = call[q].row BY DEF Step, Framed
  <1>3. CASE Inserts(r) BY <1>1, <1>2, <1>3 DEF IdsAreDone, Inserts
  <1>4. CASE rows' \subseteq rows BY <1>1, <1>2, <1>4 DEF IdsAreDone
  <1> QED BY <1>3, <1>4 DEF Step, Affects, Makes, Removes, Drops, Passes

(* Every row of a step is one that was there, or the row of the creation.         *)
LEMMA RowsStep ==
  ASSUME NEW r \in Requests, Step(r), NEW b \in rows'
  PROVE  b \in rows \/ (Inserts(r) /\ b.id = r /\ b.name = call[r].name)
BY DEF Step, Affects, Makes, Inserts, Removes, Drops, Passes

LEMMA RowsAreBackedStep ==
  ASSUME NEW r \in Requests, Step(r), IdsAreDone, InsertsAreBacked, RowsAreBacked
  PROVE  RowsAreBacked'
  <1> SUFFICES ASSUME NEW b \in rows', b.name \notin dirs'
               PROVE  HasRemoved(b.name, {b.id})'
    BY DEF RowsAreBacked
  <1>1. CASE b.name \in dirs BY <1>1, RemovedNow
  <1>2. CASE b.name \notin dirs
    <2>1. HasRemoved(b.name, {b.id})
      <3>1. CASE b \in rows BY <1>2, <3>1 DEF RowsAreBacked
      <3>2. CASE Inserts(r) /\ b.id = r /\ b.name = call[r].name
        <4>1. HasRemoved(b.name, {}) /\ call[r].at # "done" BY <1>2, <3>2 DEF Inserts, InsertsAreBacked
        <4>2. {} \union {r} = {b.id} BY <3>2
        <4> QED BY <4>1, <4>2, RemovedBefore
      <3> QED BY <3>1, <3>2, RowsStep
    <2> QED BY <2>1, RemovedForLong
  <1> QED BY <1>1, <1>2

LEMMA OneTenantStep ==
  ASSUME NEW r \in Requests, Step(r), IdsAreDone, InsertsAreBacked, OneTenant
  PROVE  OneTenant'
  <1> SUFFICES ASSUME NEW b \in rows', NEW c \in rows', b.name = c.name, b # c
               PROVE  HasRemoved(b.name, {b.id, c.id})'
    BY DEF OneTenant
  <1>1. HasRemoved(b.name, {b.id, c.id})
    <2>1. CASE b \in rows /\ c \in rows BY <2>1 DEF OneTenant
    <2>2. ASSUME NEW x \in rows, NEW y \in rows', Inserts(r), y.id = r, y.name = call[r].name, x.name = y.name
          PROVE  HasRemoved(x.name, {x.id, y.id})
      <3>1. HasRemoved(x.name, {x.id}) /\ call[r].at # "done" BY <2>2 DEF Inserts, InsertsAreBacked
      <3>2. {x.id} \union {r} = {x.id, y.id} BY <2>2
      <3> QED BY <3>1, <3>2, RemovedBefore
    <2>3. b \in rows \/ c \in rows BY RowsStep DEF Inserts
    <2>4. {b.id, c.id} = {c.id, b.id} OBVIOUS
    <2> QED BY <2>1, <2>2, <2>3, <2>4, RowsStep
  <1> QED BY <1>1, RemovedForLong

LEMMA InsertsStep ==
  ASSUME NEW r \in Requests, Step(r), IdsAreDone, InsertsAreBacked, RowsAreBacked
  PROVE  InsertsAreBacked'
  <1> SUFFICES ASSUME NEW q \in Requests, NEW n, call'[q].at = "insert", call'[q].name = n
               PROVE  /\ n \in dirs' \/ HasRemoved(n, {})'
                      /\ \A b \in rows' : b.name = n => HasRemoved(b.name, {b.id})'
                      /\ \A p \in Requests \ {q} : call'[p].at = "insert" /\ call'[p].name = n
                                                     => HasRemoved(n, {})'
    BY DEF InsertsAreBacked, HasRemoved
  <1>0. \A p \in Requests : call'[p].name = call[p].name BY DEF Step, Framed
  <1>1. \A p \in Requests : call'[p].at = "insert" => call[p].at = "insert" \/ (p = r /\ Makes(r))
    BY DEF Step, Framed, Affects, Inserts, Removes, Drops, Passes
  <1>2. n \in dirs' \/ HasRemoved(n, {})'
    <2>1. CASE q = r /\ Makes(r) BY <1>0, <2>1 DEF Makes
    <2>2. CASE call[q].at = "insert"
      <3>1. n \in dirs \/ HasRemoved(n, {}) BY <1>0, <2>2 DEF InsertsAreBacked
      <3>2. HasRemoved(n, {}) => HasRemoved(n, {})' BY RemovedForLong
      <3>3. n \in dirs => n \in dirs' \/ HasRemoved(n, {})' BY RemovedNow
      <3> QED BY <3>1, <3>2, <3>3
    <2> QED BY <1>1, <2>1, <2>2
  <1>3. ASSUME NEW b \in rows', b.name = n PROVE HasRemoved(b.name, {b.id})'
    <2>1. HasRemoved(b.name, {b.id})
      <3>1. CASE b \in rows /\ call[q].at = "insert" BY <1>0, <1>3, <3>1 DEF InsertsAreBacked
      <3>2. CASE b \in rows /\ q = r /\ Makes(r) BY <1>0, <1>3, <3>2 DEF Makes, RowsAreBacked
      <3>3. CASE Inserts(r) /\ b.id = r /\ b.name = call[r].name
        <4>1. q # r /\ call[q].at = "insert" BY <1>1, <3>3 DEF Inserts, Makes
        <4>2. HasRemoved(b.name, {}) /\ call[r].at # "done"
          BY <1>0, <1>3, <3>3, <4>1 DEF Inserts, InsertsAreBacked
        <4>3. {} \union {r} = {b.id} BY <3>3
        <4> QED BY <4>2, <4>3, RemovedBefore
      <3> QED BY <1>1, <3>1, <3>2, <3>3, RowsStep
    <2> QED BY <2>1, RemovedForLong
  <1>4. ASSUME NEW p \in Requests \ {q}, call'[p].at = "insert", call[p].name = n PROVE HasRemoved(n, {})'
    <2>1. HasRemoved(n, {})
      <3>1. CASE call[p].at = "insert" /\ call[q].at = "insert" BY <1>0, <1>4, <3>1 DEF InsertsAreBacked
      <3>2. CASE call[p].at = "insert" /\ q = r /\ Makes(r) BY <1>0, <1>4, <3>2 DEF Makes, InsertsAreBacked
      <3>3. CASE call[q].at = "insert" /\ p = r /\ Makes(r) BY <1>0, <1>4, <3>3 DEF Makes, InsertsAreBacked
      <3> QED BY <1>1, <1>4, <3>1, <3>2, <3>3
    <2> QED BY <2>1, RemovedForLong
  <1> QED BY <1>0, <1>2, <1>3, <1>4


LEMMA OwnedStep ==
  ASSUME NEW r \in Requests, Step(r), IdsAreDone, OwnedForLong
  PROVE  OwnedForLong'
  <1> SUFFICES ASSUME NEW n \in dirs' \ Configured
               PROVE  \/ \E b \in rows' :
                           /\ b.name = n
                           /\ \A q \in Requests : ~(call'[q].at = "drop" /\ call'[q].name = n /\ call'[q].row = b.id)
                      \/ \E q \in Requests :
                           /\ call'[q].name = n /\ call'[q].made
                           /\ call'[q].op = "create" => call'[q].at # "done"
    BY DEF OwnedForLong
  <1> DEFINE Kept(b) == \A q \in Requests : ~(call[q].at = "drop" /\ call[q].name = n /\ call[q].row = b.id)
             Maker(q) == call[q].name = n /\ call[q].made /\ (call[q].op = "create" => call[q].at # "done")
  <1>0. \A q \in Requests : call'[q].name = call[q].name /\ call'[q].row = call[q].row /\ call'[q].op = call[q].op
    BY DEF Step, Framed
  <1>1. CASE n \notin dirs
    <2>1. Makes(r) /\ call[r].name = n BY <1>1 DEF Step, Affects, Makes, Inserts, Removes, Drops, Passes
    <2>2. call'[r].made /\ (call'[r].op = "create" => call'[r].at # "done") BY <1>0, <2>1 DEF Makes
    <2> QED BY <1>0, <2>1, <2>2
  \* The bucket stays: a deletion of it that comes to its last step took it away.
  <1>2. CASE n \in dirs
    <2>1. \A q \in Requests : call'[q].at = "drop" /\ call'[q].name = n => call[q].at = "drop"
      BY <1>0, <1>2 DEF Step, Framed, Affects, Makes, Inserts, Removes, Drops, Passes
    <2>2. ASSUME NEW b \in rows, b.name = n, Kept(b) PROVE b \in rows'
      BY <2>2 DEF Step, Affects, Makes, Inserts, Removes, Drops, Passes
    <2>3. ASSUME NEW q \in Requests, Maker(q)
          PROVE  \/ Inserts(q) /\ q = r
                 \/ call'[q].made /\ (call'[q].op = "create" => call'[q].at # "done")
      <3>1. CASE q # r BY <2>3, <3>1 DEF Step, Framed
      <3>2. CASE q = r
        <4>1. CASE Drops(r) BY <2>3, <3>2, <4>1, <1>0 DEF Drops, Step, Typing, RequestShape, Deleting
        <4>2. CASE ~Drops(r) /\ ~Inserts(r)
          BY <2>3, <3>2, <4>2, <1>0 DEF Step, Affects, Makes, Removes, Passes
        <4> QED BY <3>2, <4>1, <4>2
      <3> QED BY <3>1, <3>2
    <2>4. CASE Inserts(r) /\ call[r].name = n
      <3> DEFINE b == [id |-> r, tenant |-> call[r].tenant, name |-> call[r].name]
      <3>1. b \in rows' /\ b.name = n BY <2>4 DEF Inserts
      <3>2. \A q \in Requests : call'[q].row # r BY <1>0, <2>4 DEF IdsAreDone, Inserts
      <3> QED BY <3>1, <3>2
    <2> QED BY <1>0, <1>2, <2>1, <2>2, <2>3, <2>4 DEF OwnedForLong
  <1> QED BY <1>1, <1>2

(* An arriving request changes only what a deletion will drop.                   *)
LEMMA ArriveBacked ==
  ASSUME Typing, NEW r \in Requests, Arrived(r), Backed
  PROVE  Backed'
  <1> USE DEF Arrived
  <1>0. call[r].at = "idle" /\ ~call[r].gone /\ ~call[r].made BY DEF NoCall
  <1>1. \A q \in Requests :
          /\ call'[q].at = "insert" <=> call[q].at = "insert"
          /\ call'[q].at = "drop" <=> call[q].at = "drop"
          /\ call[q].at \in {"insert", "drop"} \/ call[q].gone \/ call[q].made => q # r
          /\ q # r => call'[q] = call[q]
    BY <1>0
  <1>2. ASSUME NEW n, NEW ids, HasRemoved(n, ids) PROVE HasRemoved(n, ids)'
    BY <1>1, <1>2 DEF HasRemoved
  <1>3. IdsAreDone'
    <2>1. \A q \in Requests : call[q].at = "done" => call'[q].at = "done" BY <1>0
    <2>2. \A b \in rows : b.id \in Requests => call'[b.id].at = "done" BY <2>1 DEF Backed, IdsAreDone
    <2>3. call'[r].row \in Requests => \E b \in rows : b.id = call'[r].row
      BY BucketsAssumption
    <2>4. ASSUME NEW q \in Requests, call'[q].row \in Requests PROVE call'[call'[q].row].at = "done"
      BY <2>1, <2>2, <2>3, <2>4 DEF Backed, IdsAreDone
    <2> QED BY <2>2, <2>4 DEF IdsAreDone
  <1>4. InsertsAreBacked'
    <2> SUFFICES ASSUME NEW q \in Requests, NEW n, call'[q].at = "insert", call'[q].name = n
                 PROVE  /\ n \in dirs' \/ HasRemoved(n, {})'
                        /\ \A b \in rows' : b.name = n => HasRemoved(b.name, {b.id})'
                        /\ \A p \in Requests \ {q} : call'[p].at = "insert" /\ call'[p].name = n
                                                       => HasRemoved(n, {})'
      BY DEF InsertsAreBacked, HasRemoved
    <2>1. call[q].at = "insert" /\ call[q].name = n BY <1>1
    <2>2. \A p \in Requests : call'[p].at = "insert" => call'[p] = call[p] BY <1>1
    <2> QED BY <1>2, <2>1, <2>2 DEF Backed, InsertsAreBacked
  <1>5. RowsAreBacked' BY <1>2 DEF Backed, RowsAreBacked
  <1>6. OneTenant' BY <1>2 DEF Backed, OneTenant
  <1>7. OwnedForLong' BY <1>1 DEF Backed, OwnedForLong
  <1> QED BY <1>3, <1>4, <1>5, <1>6, <1>7 DEF Backed

LEMMA BackedInit ==
  ASSUME BucketsInit
  PROVE  Backed
  <1>1. PICK owned \in SUBSET (Names \ Configured), owner \in [Names -> Tenants] :
          /\ dirs = Configured \union owned
          /\ rows = {[id |-> 0, tenant |-> owner[n], name |-> n] : n \in owned}
    BY DEF BucketsInit
  <1>2. \A r \in Requests : call[r] = NoCall BY DEF BucketsInit
  <1>3. \A b \in rows : b.id = 0 /\ b.name \in owned /\ b.tenant = owner[b.name] BY <1>1
  <1>4. 0 \notin Requests BY BucketsAssumption
  <1>5. IdsAreDone BY <1>2, <1>3, <1>4, BucketsAssumption DEF IdsAreDone, NoCall
  <1>6. InsertsAreBacked BY <1>2 DEF InsertsAreBacked, NoCall
  <1>7. RowsAreBacked BY <1>1, <1>3 DEF RowsAreBacked
  <1>8. OneTenant BY <1>1 DEF OneTenant
  <1>9. OwnedForLong
    <2> SUFFICES ASSUME NEW n \in dirs \ Configured PROVE \E b \in rows : b.name = n
      BY <1>2 DEF OwnedForLong, NoCall
    <2>1. n \in owned BY <1>1
    <2> DEFINE b == [id |-> 0, tenant |-> owner[n], name |-> n]
    <2>2. b \in rows /\ b.name = n BY <1>1, <2>1
    <2> QED BY <2>2
  <1> QED BY <1>5, <1>6, <1>7, <1>8, <1>9 DEF Backed

LEMMA BackedStep ==
  ASSUME Typing, Backed, [BucketsNext]_bucketVars
  PROVE  Backed'
  <1>1. ASSUME NEW r \in Requests, BucketsStep(r) PROVE Backed'
    <2>1. Step(r) BY <1>1, StepFrame, StepShape, StepAffects DEF Step
    <2> QED BY <2>1, IdsStep, InsertsStep, RowsAreBackedStep, OneTenantStep, OwnedStep DEF Backed
  <1>2. CASE BucketsArrive BY <1>2, ArriveFrame, ArriveBacked
  <1>3. CASE UNCHANGED bucketVars
    BY <1>3 DEF bucketVars, Backed, IdsAreDone, InsertsAreBacked, RowsAreBacked, OneTenant, OwnedForLong, HasRemoved
  <1> QED BY <1>1, <1>2, <1>3 DEF BucketsNext

LEMMA AlwaysBacked == BucketsSpec => [](Typing /\ Backed)
  <1>1. BucketsInit => Typing /\ Backed BY TypingInit, BackedInit
  <1>2. Typing /\ Backed /\ [BucketsNext]_bucketVars => (Typing /\ Backed)' BY TypingStep, BackedStep
  <1> QED BY <1>1, <1>2, PTL DEF BucketsSpec

(* create_bucket and delete_bucket: a row without its bucket is that of a        *)
(* deletion which did not come to its end, or which read an older row.           *)
THEOREM RowsBacked == BucketsSpec => []RowsAreBacked
  <1>1. Typing /\ Backed => RowsAreBacked BY DEF Backed
  <1> QED BY <1>1, AlwaysBacked, PTL

(* create_bucket: two rows have one name only after the bucket of one of them    *)
(* was removed and its row was not.                                             *)
THEOREM TenantsApart == BucketsSpec => []OneTenant
  <1>1. Typing /\ Backed => OneTenant BY DEF Backed
  <1> QED BY <1>1, AlwaysBacked, PTL

(* create_bucket, delete_bucket and LocalStorageAdapter.put_object: a bucket     *)
(* nobody's row names is what an unfinished creation or a late upload left.      *)
THEOREM BucketsOwned == BucketsSpec => []BucketsAreOwned
  <1>1. Typing /\ Backed => BucketsAreOwned BY DEF Backed, OwnedForLong, BucketsAreOwned
  <1> QED BY <1>1, AlwaysBacked, PTL

-----------------------------------------------------------------------------
(* Uploads and their files: whose bytes are under a name.                       *)

(* Another upload has written to this one's key, or to a name they share.        *)
Disturbed(f) ==
  \E q \in Requests \ {f} :
    call[q].opened # None /\ call[q].name = call[f].name /\ Clash(call[q].key, call[f].key)

(* When a request has a file, and where it can be then.                         *)
Opening ==
  \A q \in Requests :
    /\ call[q].opened # None => /\ call[q].at \in {"write", "replace", "record"} \union Over
                                /\ call[q].key \in Keys /\ call[q].name \in Names
                                /\ call[q].opened \in Requests
    /\ call[q].at \in {"write", "replace", "record"} => call[q].opened # None
    /\ call[q].at \in {"open", "truncate", "write", "replace"} => backend = "local"

(* A file under a name was put there by an upload that uses the name, as its own *)
(* file or as one that it shares.                                              *)
Placed ==
  \A n \in Names, p \in Paths : path[n][p] # None =>
    \E q \in Requests :
      /\ call[q].opened # None /\ call[q].name = n
      /\ p \in {call[q].key, Temporary(call[q].key)}
      /\ path[n][p] = q \/ Disturbed(path[n][p])

(* A file opened by a request that did not make it is shared.                   *)
Shared == \A q \in Requests : call[q].opened \in {None, q} \/ Disturbed(call[q].opened)

(* What upload q can be sure of that nobody disturbs.                           *)
Sure(q) ==
  LET files_(p) == path[call[q].name][p]
      temporary == Temporary(call[q].key)
  IN  /\ call[q].opened = q
      /\ call[q].at = "write" => files_(temporary) = q /\ inode[q] = {}
      /\ call[q].at = "replace" => files_(temporary) = q /\ inode[q] = {q}
      /\ call[q].at \in {"record", "done"} => files_(call[q].key) = q /\ inode[q] = {q}

Claimed == \A q \in Requests : call[q].opened # None => Disturbed(q) \/ Sure(q)

(* A file row is that of an upload that is done.                                *)
Filed ==
  \A f \in files :
    /\ f.id \in Requests /\ call[f.id].at = "done" /\ call[f.id].opened # None
    /\ call[f.id].name = f.name /\ call[f.id].key = f.key

Written == Opening /\ Placed /\ Shared /\ Claimed /\ Filed

(* Two keys that share a path, as keys or temporary names, clash locally.        *)
LEMMA SharedPathClashes ==
  ASSUME NEW k \in Keys, NEW l \in Keys, backend = "local", NEW p,
         p \in {k, Temporary(k)}, p \in {l, Temporary(l)}
  PROVE  Clash(k, l)
  <1>1. Temporary(k) = Temporary(l) => k = l
    <2>1. PICK a \in Stems, i \in {0, 1} : k = <<a, i>> BY DEF Keys
    <2>2. PICK b \in Stems, j \in {0, 1} : l = <<b, j>> BY DEF Keys
    <2> QED BY <2>1, <2>2 DEF Temporary
  <1> QED BY <1>1 DEF Clash

LEMMA TemporaryElsewhere ==
  ASSUME NEW k \in Keys
  PROVE  Temporary(k) # k
  <1>1. PICK a \in Stems, i \in {0, 1} : k = <<a, i>> BY DEF Keys
  <1> QED BY <1>1 DEF Temporary

(* What every step of request r leaves: nobody loses a file, or what it names.   *)
OpensOnly(r) ==
  /\ UNCHANGED backend
  /\ \A q \in Requests \ {r} : call'[q] = call[q]
  /\ call[r] = NoCall \/ (call'[r].name = call[r].name /\ call'[r].key = call[r].key)
  /\ call[r].opened # None => call'[r].opened = call[r].opened

LEMMA OpenedKept ==
  ASSUME NEW r \in Requests, OpensOnly(r), NEW q \in Requests, call[q].opened # None
  PROVE  /\ call'[q].opened = call[q].opened
         /\ call'[q].name = call[q].name /\ call'[q].key = call[q].key
BY DEF OpensOnly, NoCall

LEMMA DisturbedForLong ==
  ASSUME NEW r \in Requests, OpensOnly(r), Opening, NEW f \in Requests, Disturbed(f)
  PROVE  Disturbed(f)'
  <1>1. PICK q \in Requests \ {f} :
          call[q].opened # None /\ call[q].name = call[f].name /\ Clash(call[q].key, call[f].key)
    BY DEF Disturbed
  <1>2. call'[q].opened # None /\ call'[q].name = call[q].name /\ call'[q].key = call[q].key
    BY <1>1, OpenedKept
  <1>3. call[f] # NoCall
    <2>1. call[q].name \in Names BY <1>1 DEF Opening
    <2> QED BY <1>1, <2>1, BucketsAssumption DEF NoCall
  <1>4. call'[f].name = call[f].name /\ call'[f].key = call[f].key BY <1>3 DEF OpensOnly
  <1>5. backend' = backend BY DEF OpensOnly
  <1> QED BY <1>1, <1>2, <1>4, <1>5 DEF Disturbed, Clash

(* A step of r that writes to nothing a local upload q uses, or disturbs it,      *)
(* leaves what q is sure of.                                                   *)
LEMMA SureForLong ==
  ASSUME NEW r \in Requests, OpensOnly(r), Opening, Claimed,
         NEW q \in Requests \ {r}, call'[q].opened # None, ~Disturbed(q)',
         path'[call[q].name][call[q].key] = path[call[q].name][call[q].key],
         call[q].at \in {"write", "replace"} =>
           path'[call[q].name][Temporary(call[q].key)] = path[call[q].name][Temporary(call[q].key)],
         inode'[q] = inode[q]
  PROVE  Sure(q)'
  <1>1. call'[q] = call[q] BY DEF OpensOnly
  <1>2. Sure(q) BY <1>1, DisturbedForLong DEF Claimed
  <1> QED BY <1>1, <1>2 DEF Sure

(* What a local step of r may write to: the names it uses, and a file that is    *)
(* its own or shared.                                                          *)
WritesLocally(r) ==
  /\ backend = "local" /\ call[r].key \in Keys /\ call[r].name \in Names /\ call'[r].opened # None
  /\ \A m \in Names, p \in Paths :
       m # call[r].name \/ p \notin {call[r].key, Temporary(call[r].key)} => path'[m][p] = path[m][p]
  /\ \A i \in Requests : inode'[i] = inode[i] \/ i = r \/ Disturbed(i)'

LEMMA OthersSure ==
  ASSUME NEW r \in Requests, OpensOnly(r), Opening, Claimed, WritesLocally(r),
         NEW q \in Requests \ {r}, call'[q].opened # None, ~Disturbed(q)'
  PROVE  Sure(q)'
  <1>1. /\ call'[q] = call[q] /\ call[q].key \in Keys /\ call[q].name \in Names
        /\ call[q].key \in Paths /\ Temporary(call[q].key) \in Paths
    BY KeyPaths DEF OpensOnly, Opening
  <1>2. ASSUME NEW p, p \in {call[q].key, Temporary(call[q].key)}
        PROVE  path'[call[q].name][p] = path[call[q].name][p]
    <2>1. CASE call[q].name = call[r].name /\ p \in {call[r].key, Temporary(call[r].key)}
      <3>1. Clash(call[r].key, call[q].key)
        BY <1>1, <1>2, <2>1, SharedPathClashes DEF WritesLocally
      <3>2. call[r] # NoCall BY BucketsAssumption DEF WritesLocally, NoCall
      <3>3. Disturbed(q)' BY <1>1, <2>1, <3>1, <3>2 DEF Disturbed, Clash, WritesLocally, OpensOnly
      <3> QED BY <3>3
    <2> QED BY <1>1, <1>2, <2>1 DEF WritesLocally
  <1>3. inode'[q] = inode[q] BY DEF WritesLocally
  <1> QED BY <1>2, <1>3, SureForLong

(* A file that is shared, or recorded, stays so.                                *)
LEMMA SharedKept ==
  ASSUME NEW r \in Requests, OpensOnly(r), Opening, Shared, call'[r].opened = call[r].opened
  PROVE  Shared'
  <1>1. ASSUME NEW q \in Requests, NEW f, f = call[q].opened, f \notin {None, q}
        PROVE  Disturbed(f)'
    <2>1. f \in Requests /\ Disturbed(f) BY <1>1 DEF Shared, Opening
    <2> QED BY <2>1, DisturbedForLong
  <1> QED BY <1>1 DEF Shared, Disturbed, OpensOnly

LEMMA FiledKept ==
  ASSUME NEW r \in Requests, OpensOnly(r), Filed, call[r].at # "done", UNCHANGED files
  PROVE  Filed'
  <1>1. ASSUME NEW f \in files
        PROVE  /\ f.id \in Requests /\ call'[f.id].at = "done" /\ call'[f.id].opened # None
               /\ call'[f.id].name = f.name /\ call'[f.id].key = f.key
    <2>1. f.id \in Requests /\ f.id # r BY DEF Filed
    <2> QED BY <2>1 DEF Filed, OpensOnly
  <1> QED BY <1>1 DEF Filed

(* A step that touches no file at all.                                          *)
LEMMA NothingWritten ==
  ASSUME Typing, NEW r \in Requests, OpensOnly(r), Written, UNCHANGED <<path, inode, files>>,
         Opening', call'[r].opened = call[r].opened, call[r].at # "done",
         call'[r].at \in {"write", "replace", "record", "done"} =>
           call'[r].at = call[r].at \/ call[r].opened = None
  PROVE  Written'
  <1>1. Opening /\ Placed /\ Shared /\ Claimed /\ Filed BY DEF Written
  <1>2. \A f \in Requests : Disturbed(f) => Disturbed(f)' BY <1>1, DisturbedForLong
  <1>3. \A q \in Requests : call[q].opened # None =>
          call'[q].opened = call[q].opened /\ call'[q].name = call[q].name /\ call'[q].key = call[q].key
    BY OpenedKept
  <1>4. \A q \in Requests : call'[q].opened = call[q].opened BY DEF OpensOnly
  <1>5. Placed'
    <2> SUFFICES ASSUME NEW n \in Names, NEW p \in Paths, path[n][p] # None
                 PROVE  \E q \in Requests :
                          /\ call'[q].opened # None /\ call'[q].name = n
                          /\ p \in {call'[q].key, Temporary(call'[q].key)}
                          /\ path[n][p] = q \/ Disturbed(path[n][p])'
      BY DEF Placed, Disturbed
    <2>1. PICK q \in Requests :
            /\ call[q].opened # None /\ call[q].name = n
            /\ p \in {call[q].key, Temporary(call[q].key)}
            /\ path[n][p] = q \/ Disturbed(path[n][p])
      BY <1>1 DEF Placed
    <2>2. path[n][p] \in Requests BY DEF Typing, BucketsTypeOK
    <2> QED BY <1>2, <1>3, <2>1, <2>2
  <1>6. Shared' /\ Filed' BY <1>1, SharedKept, FiledKept
  <1>7. ASSUME NEW q \in Requests, call'[q].opened # None, ~Disturbed(q)' PROVE Sure(q)'
    <2>1. CASE q # r BY <1>1, <1>7, <2>1, SureForLong
    <2>2. CASE q = r
      <3>1. Sure(r) BY <1>1, <1>2, <1>4, <1>7, <2>2 DEF Claimed
      <3> QED BY <1>3, <1>4, <1>7, <2>2, <3>1 DEF Sure
    <2> QED BY <2>1, <2>2
  <1> QED BY <1>1, <1>5, <1>6, <1>7 DEF Written, Claimed

(* When a step of request r opens a file, and what it can do with it.            *)
Opens(r) ==
  /\ call[r].opened # None => call'[r].opened = call[r].opened
  /\ call'[r].opened # call[r].opened => call'[r].opened \in Requests /\ call[r].at \in {"truncate", "send"}
  /\ call'[r].opened # None => call'[r].at \in {"write", "replace", "record"} \union Over
  /\ call'[r].at \in {"write", "replace", "record"} => call'[r].opened # None
  /\ call'[r].at \in {"truncate", "write", "replace"} => call[r].at \in {"open", "truncate", "write", "replace"}
  /\ call'[r].at # "open"

LEMMA StepOpens ==
  ASSUME Typing, Opening, NEW r \in Requests, BucketsStep(r)
  PROVE  Opens(r)
  <1> USE DEF Typing, BucketsTypeOK, Opening, Over, Call, Goes, Made, Opens
  <1>0. None \notin Requests BY BucketsAssumption
  <1>1. CASE CreateCheckRow(r) BY <1>1 DEF CreateCheckRow
  <1>2. CASE CreateStore(r) BY <1>2 DEF CreateStore
  <1>3. CASE CreateInsert(r) BY <1>3 DEF CreateInsert
  <1>4. CASE DeleteCheckStorage(r) BY <1>4 DEF DeleteCheckStorage
  <1>5. CASE DeleteRemove(r) BY <1>5 DEF DeleteRemove
  <1>6. CASE DeleteDrop(r) BY <1>6 DEF DeleteDrop
  <1>7. CASE PutOpen(r) BY <1>7 DEF PutOpen
  <1>8. CASE PutTruncate(r)
    <2> DEFINE t == Temporary(call[r].key)
               file == IF path[call[r].name][t] = None THEN r ELSE path[call[r].name][t]
    <2>1. call[r].at = "truncate" /\ call[r].name \in Names /\ call[r].key \in Keys
      BY <1>8 DEF PutTruncate, RequestShape, Putting
    <2>2. file \in Requests BY <2>1, KeyPaths
    <2> HIDE DEF file
    <2>3. Goes(r, "refused") \/ call' = [call EXCEPT ![r].at = "write", ![r].opened = file]
      BY <1>8 DEF PutTruncate, file
    <2> QED BY <1>0, <2>1, <2>2, <2>3
  <1>9. CASE PutWrite(r) BY <1>9 DEF PutWrite
  <1>10. CASE PutWriteFails(r) BY <1>10 DEF PutWriteFails
  <1>11. ASSUME NEW wrong \in BOOLEAN, PutReplace(r, wrong) PROVE Opens(r)
    <2>1. call[r].at = "replace" /\ (Goes(r, "refused") \/ Goes(r, "record")) BY <1>11, Zenon DEF PutReplace
    <2> QED BY <2>1
  <1>12. ASSUME NEW wrong \in BOOLEAN, PutSend(r, wrong) PROVE Opens(r)
    <2>1. call[r].at = "send" BY <1>12 DEF PutSend
    <2>2. \/ Goes(r, "refused")
          \/ call' = [call EXCEPT ![r].opened = r, ![r].at = "refused"]
          \/ call' = [call EXCEPT ![r].opened = r, ![r].at = "record"]
      BY <1>12, Zenon DEF PutSend
    <2> QED BY <1>0, <2>1, <2>2
  <1>13. CASE PutRecord(r)
    <2>1. call[r].at = "record" /\ (Goes(r, "refused") \/ Goes(r, "done")) BY <1>13, Zenon DEF PutRecord
    <2> QED BY <2>1
  <1>14. CASE Fail(r) BY <1>14 DEF Fail
  <1> QED BY <1>1, <1>2, <1>3, <1>4, <1>5, <1>6, <1>7, <1>8, <1>9, <1>10, <1>11, <1>12, <1>13, <1>14 DEF BucketsStep

LEMMA OpeningStep ==
  ASSUME Typing, Opening, NEW r \in Requests, BucketsStep(r), UNCHANGED backend
  PROVE  OpensOnly(r) /\ Opening'
  <1>1. Framed(r) /\ Opens(r) BY StepFrame, StepOpens
  <1>2. OpensOnly(r) BY <1>1 DEF OpensOnly, Framed, Opens
  <1>3. call[r].at \in Putting => call[r].key \in Keys BY DEF Typing, RequestShape
  <1>4. call[r].name \in Names BY <1>1 DEF Typing, RequestShape, Framed
  <1>5. Opening' BY <1>1, <1>2, <1>3, <1>4 DEF Opening, OpensOnly, Framed, Opens, Putting
  <1> QED BY <1>2, <1>5

-----------------------------------------------------------------------------
(* What r writes: its temporary file, and on the local store the object by a     *)
(* rename.                                                                     *)

Steady(r) ==
  /\ Typing /\ Written /\ OpensOnly(r) /\ Opening'
  /\ call[r].at \in Putting
  /\ call'[r].name = call[r].name /\ call'[r].key = call[r].key

(* The file r finds under a name is its own or, once r has opened it, shared.    *)
LEMMA FoundIsShared ==
  ASSUME NEW r \in Requests, Steady(r), backend = "local", call'[r].opened # None,
         NEW p \in {call[r].key, Temporary(call[r].key)},
         NEW f, f = path[call[r].name][p], f # None
  PROVE  /\ f \in Requests
         /\ (f = r /\ call[r].opened # None) \/ Disturbed(f)'
  <1> DEFINE n == call[r].name
  <1>1. n \in Names /\ call[r].key \in Keys /\ p \in Paths
    BY KeyPaths DEF Steady, Typing, RequestShape, Putting
  <1>2. f \in Requests BY <1>1 DEF Steady, Typing, BucketsTypeOK
  <1>3. PICK q \in Requests :
          /\ call[q].opened # None /\ call[q].name = n
          /\ p \in {call[q].key, Temporary(call[q].key)}
          /\ f = q \/ Disturbed(f)
    BY <1>1 DEF Steady, Written, Placed
  <1>4. CASE Disturbed(f) BY <1>2, <1>4, DisturbedForLong DEF Steady, Written
  <1>5. CASE f = q /\ q # r
    <2>1. call[q].key \in Keys BY <1>3 DEF Steady, Written, Opening
    <2>2. Clash(call[r].key, call[q].key) BY <1>1, <1>3, <2>1, SharedPathClashes
    <2>3. call'[q] = call[q] /\ backend' = backend BY <1>5 DEF Steady, OpensOnly
    <2>4. Disturbed(q)' BY <1>3, <1>5, <2>2, <2>3 DEF Disturbed, Clash, Steady
    <2> QED BY <1>2, <1>5, <2>4
  <1>6. CASE f = q /\ q = r BY <1>2, <1>3, <1>6
  <1> QED BY <1>3, <1>4, <1>5, <1>6

LEMMA PlacedStep ==
  ASSUME NEW r \in Requests, Steady(r), path' \in [Names -> [Paths -> Requests \union {None}]],
         \A n \in Names, p \in Paths, f \in Requests : f = path'[n][p] =>
           \/ f = path[n][p]
           \/ /\ call'[r].opened # None /\ n = call[r].name
              /\ p \in {call[r].key, Temporary(call[r].key)}
              /\ f = r \/ Disturbed(f)'
  PROVE  Placed'
  <1>1. ASSUME NEW n \in Names, NEW p \in Paths, NEW f \in Requests, f = path'[n][p]
        PROVE  \E q \in Requests :
                 /\ call'[q].opened # None /\ call'[q].name = n
                 /\ p \in {call'[q].key, Temporary(call'[q].key)}
                 /\ f = q \/ Disturbed(f)'
    <2>1. CASE f = path[n][p]
      <3>1. f # None BY BucketsAssumption
      <3>2. PICK q \in Requests :
              /\ call[q].opened # None /\ call[q].name = n
              /\ p \in {call[q].key, Temporary(call[q].key)}
              /\ f = q \/ Disturbed(f)
        BY <2>1, <3>1 DEF Steady, Written, Placed
      <3>3. /\ call'[q].opened # None /\ call'[q].name = n
            /\ p \in {call'[q].key, Temporary(call'[q].key)}
        BY <3>2, OpenedKept DEF Steady
      <3>4. Disturbed(f) => Disturbed(f)' BY DisturbedForLong DEF Steady, Written
      <3> QED BY <3>2, <3>3, <3>4
    <2>2. CASE f # path[n][p]
      <3>1. /\ call'[r].opened # None /\ n = call[r].name
            /\ p \in {call[r].key, Temporary(call[r].key)}
            /\ f = r \/ Disturbed(f)'
        BY <1>1, <2>2
      <3> QED BY <3>1 DEF Steady
    <2> QED BY <2>1, <2>2
  <1>2. ASSUME NEW n \in Names, NEW p \in Paths, path'[n][p] # None PROVE path'[n][p] \in Requests
    BY <1>2
  <1>3. ASSUME NEW n \in Names, NEW p \in Paths, NEW f, f = path'[n][p], f # None
        PROVE  \E q \in Requests :
                 /\ call'[q].opened # None /\ call'[q].name = n
                 /\ p \in {call'[q].key, Temporary(call'[q].key)}
                 /\ f = q \/ Disturbed(f)'
    BY <1>1, <1>2, <1>3
  <1> QED BY <1>3 DEF Placed, Disturbed

(* open(temporary, "wb"): the file is new, or shared from now on.                *)
LEMMA TruncateWritten ==
  ASSUME NEW r \in Requests, Steady(r), Stored', PutTruncate(r), call'[r].opened # None
  PROVE  Written'
  <1> DEFINE n == call[r].name
             t == Temporary(call[r].key)
  <1>1. PICK file : file = IF path[n][t] = None THEN r ELSE path[n][t] OBVIOUS
  <1>2. /\ backend = "local" /\ call[r].at = "truncate" /\ call[r].opened = None
        /\ n \in Names /\ call[r].key \in Keys /\ t \in Paths
    BY KeyPaths DEF PutTruncate, Steady, Written, Opening, Over, Typing, RequestShape, Putting
  <1>3. /\ path' = [path EXCEPT ![n][t] = file] /\ inode' = [inode EXCEPT ![file] = {}]
        /\ call' = [call EXCEPT ![r].at = "write", ![r].opened = file] /\ UNCHANGED files
    <2>1. Goes(r, "refused") => call'[r].opened = None
      BY <1>2 DEF Goes, Steady, Typing, BucketsTypeOK, Call
    <2> QED BY <1>1, <2>1 DEF PutTruncate
  <1>4. call'[r].at = "write" /\ call'[r].opened = file BY <1>3 DEF Steady, Typing, BucketsTypeOK, Call
  <1>5. file \in Requests /\ (file = r \/ (file = path[n][t] /\ Disturbed(file)'))
    BY <1>1, <1>2, <1>4, FoundIsShared DEF Steady
  <1>6. Placed'
    <2>1. \A m \in Names, p \in Paths : path'[m][p] = IF m = n /\ p = t THEN file ELSE path[m][p]
      BY <1>2, <1>3 DEF Steady, Typing, BucketsTypeOK
    <2> HIDE DEF n, t
    <2>2. \A m \in Names, p \in Paths, f \in Requests : f = path'[m][p] =>
            f = path[m][p] \/ (m = n /\ p = t /\ (f = r \/ Disturbed(f)'))
      BY <1>5, <2>1
    <2> QED BY <2>2, PlacedStep, <1>2 DEF Stored, n, t
  <1>7. Shared'
    <2>1. ASSUME NEW q \in Requests, NEW f \in Requests, f = call'[q].opened, f # q
          PROVE  Disturbed(f)'
      <3>1. CASE q = r BY <1>4, <1>5, <2>1, <3>1
      <3>2. CASE q # r
        <4>1. f = call[q].opened BY <2>1, <3>2 DEF Steady, OpensOnly
        <4>2. Disturbed(f) BY <2>1, <4>1, BucketsAssumption DEF Steady, Written, Shared
        <4> QED BY <4>2, DisturbedForLong DEF Steady, Written
      <3> QED BY <3>1, <3>2
    <2> QED BY <2>1 DEF Shared, Disturbed, Steady, Opening
  <1>8. WritesLocally(r)
    <2>1. \A i \in Requests : inode'[i] = inode[i] \/ i = r \/ Disturbed(i)'
      BY <1>3, <1>5 DEF Steady, Typing, BucketsTypeOK
    <2> QED BY <1>2, <1>3, <2>1 DEF WritesLocally, Steady, Typing, BucketsTypeOK
  <1>9. ~Disturbed(r)' => Sure(r)'
    <2>1. CASE file = r
      <3>1. path'[n][t] = r /\ inode'[r] = {} BY <1>2, <1>3, <2>1 DEF Steady, Typing, BucketsTypeOK
      <3> QED BY <1>4, <2>1, <3>1 DEF Sure, Steady
    <2>2. CASE file # r
      <3>1. PICK q \in Requests :
              /\ call[q].opened # None /\ call[q].name = n
              /\ t \in {call[q].key, Temporary(call[q].key)}
        BY <1>1, <1>2, <2>2 DEF Steady, Written, Placed
      <3>2. q # r /\ call'[q] = call[q] /\ call[q].key \in Keys /\ backend' = backend
        BY <1>2, <3>1 DEF Steady, Written, Opening, OpensOnly
      <3>3. Clash(call[q].key, call[r].key) BY <1>2, <3>1, <3>2, SharedPathClashes
      <3>4. Disturbed(r)' BY <3>1, <3>2, <3>3 DEF Disturbed, Clash, Steady
      <3> QED BY <3>4
    <2> QED BY <2>1, <2>2
  <1>10. Claimed' BY <1>8, <1>9, OthersSure DEF Claimed, Steady, Written
  <1>11. Filed' BY <1>2, <1>3, FiledKept DEF Steady, Written
  <1> QED BY <1>6, <1>7, <1>10, <1>11 DEF Written, Steady

(* The bytes go to the file that was opened.                                    *)
LEMMA WriteWritten ==
  ASSUME NEW r \in Requests, Steady(r), PutWrite(r)
  PROVE  Written'
  <1>1. /\ backend = "local" /\ call[r].at = "write" /\ call[r].opened \in Requests
        /\ call[r].name \in Names /\ call[r].key \in Keys
    BY DEF PutWrite, Steady, Written, Opening, Over, Typing, RequestShape, Putting
  <1>2. /\ call'[r].at = "replace" /\ call'[r].opened = call[r].opened /\ UNCHANGED <<path, files>>
        /\ call[r].opened # None
    BY <1>1 DEF PutWrite, Goes, Steady, Typing, BucketsTypeOK, Call, Written, Opening
  <1>3. \A i \in Requests : inode'[i] = IF i = call[r].opened THEN inode[i] \union {r} ELSE inode[i]
    BY <1>1 DEF PutWrite, Steady, Typing, BucketsTypeOK
  <1>4. Placed' BY <1>2, PlacedStep DEF Steady, Typing, BucketsTypeOK
  <1>5. Shared' /\ Filed' BY <1>1, <1>2, SharedKept, FiledKept DEF Steady, Written
  <1>6. WritesLocally(r)
    <2>1. \A i \in Requests : i = call[r].opened => i = r \/ Disturbed(i)'
      BY <1>1, <1>2, DisturbedForLong DEF Steady, Written, Shared
    <2> QED BY <1>1, <1>2, <1>3, <2>1 DEF WritesLocally
  <1>7. ~Disturbed(r)' => Sure(r)'
    <2>1. ~Disturbed(r)' => Sure(r) BY <1>2, DisturbedForLong DEF Steady, Written, Claimed
    <2> QED BY <1>1, <1>2, <1>3, <2>1 DEF Sure, Steady
  <1>8. Claimed' BY <1>6, <1>7, OthersSure DEF Claimed, Steady, Written
  <1> QED BY <1>4, <1>5, <1>8 DEF Written, Steady

(* The temporary name is unlinked. *)
LEMMA UnlinkWritten ==
  ASSUME NEW r \in Requests, Steady(r), Stored', PutWriteFails(r)
  PROVE  Written'
  <1> DEFINE n == call[r].name
             t == Temporary(call[r].key)
  <1>1. /\ backend = "local" /\ call[r].opened \in Requests /\ call[r].opened # None
        /\ n \in Names /\ call[r].key \in Keys /\ t \in Paths
    BY KeyPaths DEF PutWriteFails, Steady, Written, Opening, Over, Typing, RequestShape, Putting
  <1>2. /\ call'[r].at = "refused" /\ call'[r].opened = call[r].opened /\ UNCHANGED <<inode, files>>
        /\ call[r].at # "done"
    BY DEF PutWriteFails, Goes, Steady, Typing, BucketsTypeOK, Call
  <1>3. \A m \in Names, p \in Paths : path'[m][p] = IF m = n /\ p = t THEN None ELSE path[m][p]
    BY <1>1 DEF PutWriteFails, Steady, Typing, BucketsTypeOK
  <1> HIDE DEF n, t
  <1>4. Placed'
    <2>1. \A m \in Names, p \in Paths, f \in Requests : f = path'[m][p] => f = path[m][p]
      BY <1>3, BucketsAssumption
    <2> QED BY <2>1, PlacedStep DEF Stored
  <1>5. Shared' /\ Filed' BY <1>2, SharedKept, FiledKept DEF Steady, Written
  <1>6. WritesLocally(r) BY <1>1, <1>2, <1>3 DEF WritesLocally, n, t
  <1>7. ~Disturbed(r)' => Sure(r)'
    <2>1. ~Disturbed(r)' => Sure(r) BY <1>1, DisturbedForLong DEF Steady, Written, Claimed
    <2> QED BY <1>2, <2>1 DEF Sure
  <1>8. Claimed' BY <1>6, <1>7, OthersSure DEF Claimed, Steady, Written
  <1> QED BY <1>4, <1>5, <1>8 DEF Written, Steady

(* os.replace: the object is now the file that had the temporary name.           *)
LEMMA ReplaceWritten ==
  ASSUME NEW r \in Requests, Steady(r), Stored', NEW wrong \in BOOLEAN, PutReplace(r, wrong)
  PROVE  Written'
  <1> DEFINE n == call[r].name
             k == call[r].key
             t == Temporary(call[r].key)
  <1>1. /\ backend = "local" /\ call[r].at = "replace" /\ call[r].opened \in Requests /\ call[r].opened # None
        /\ n \in Names /\ k \in Keys /\ k \in Paths /\ t \in Paths /\ t # k
    BY KeyPaths, TemporaryElsewhere DEF PutReplace, Steady, Written, Opening, Over, Typing, RequestShape, Putting
  <1>2. PICK file : file = IF wrong THEN None ELSE path[n][t] OBVIOUS
  <1>3. /\ path' = [path EXCEPT ![n][t] = None, ![n][k] = file] /\ UNCHANGED <<inode, files>>
        /\ path[n][t] # None
    BY <1>2 DEF PutReplace
  <1>4. /\ call'[r].at = IF wrong THEN "refused" ELSE "record"
        /\ call'[r].opened = call[r].opened
    BY DEF PutReplace, Goes, Steady, Typing, BucketsTypeOK, Call
  <1>5. \A m \in Names, p \in Paths :
          path'[m][p] = IF m = n /\ p = t THEN None ELSE IF m = n /\ p = k THEN file ELSE path[m][p]
    BY <1>1, <1>3 DEF Steady, Typing, BucketsTypeOK
  <1>6. file = None \/ (file \in Requests /\ (file = r \/ Disturbed(file)'))
    BY <1>1, <1>2, <1>3, <1>4, FoundIsShared
  <1>7. ~Disturbed(r)' => Sure(r)
    BY <1>1, DisturbedForLong DEF Steady, Written, Claimed
  <1>8. ~Disturbed(r)' => Sure(r)'
    <2>1. ~Disturbed(r)' => path[n][t] = r /\ inode[r] = {r} BY <1>1, <1>7 DEF Sure
    <2>2. ~wrong => path'[n][k] = path[n][t] BY <1>1, <1>2, <1>5
    <2>3. call'[r].opened = r \/ Disturbed(r)' BY <1>4, <1>7 DEF Sure
    <2> QED BY <1>3, <1>4, <2>1, <2>2, <2>3 DEF Sure, Steady
  <1> HIDE DEF n, k, t
  <1>9. Placed'
    <2>1. \A m \in Names, p \in Paths, f \in Requests : f = path'[m][p] =>
            f = path[m][p] \/ (m = n /\ p \in {k, t} /\ (f = r \/ Disturbed(f)'))
      BY <1>5, <1>6, BucketsAssumption
    <2>2. call'[r].opened # None BY <1>1, <1>4
    <2> QED BY <2>1, <2>2, PlacedStep DEF Stored, n, k, t
  <1>10. Shared' /\ Filed' BY <1>1, <1>3, <1>4, SharedKept, FiledKept DEF Steady, Written
  <1>11. WritesLocally(r)
    <2>1. \A m \in Names, p \in Paths : m # n \/ p \notin {k, t} => path'[m][p] = path[m][p] BY <1>5
    <2> QED BY <1>1, <1>3, <1>4, <2>1 DEF WritesLocally, n, k, t
  <1>12. Claimed' BY <1>8, <1>11, OthersSure DEF Claimed, Steady, Written
  <1> QED BY <1>9, <1>10, <1>12 DEF Written, Steady

(* PutObject: the object is a file of its own. *)
LEMMA SendWritten ==
  ASSUME NEW r \in Requests, Steady(r), Stored', NEW wrong \in BOOLEAN, PutSend(r, wrong),
         call'[r].opened # None
  PROVE  Written'
  <1> DEFINE n == call[r].name
             k == call[r].key
  <1>1. /\ call[r].at = "send" /\ call[r].opened = None
        /\ n \in Names /\ k \in Keys /\ k \in Paths
    BY KeyPaths DEF PutSend, Steady, Written, Opening, Over, Typing, RequestShape, Putting
  <1>2. /\ path' = [path EXCEPT ![n][k] = r] /\ inode' = [inode EXCEPT ![r] = {r}] /\ UNCHANGED files
        /\ call' = [call EXCEPT ![r].opened = r, ![r].at = IF wrong THEN "refused" ELSE "record"]
    <2>1. Goes(r, "refused") => call'[r].opened = None
      BY <1>1 DEF Goes, Steady, Typing, BucketsTypeOK, Call
    <2> QED BY <2>1 DEF PutSend
  <1>3. call'[r].opened = r /\ call'[r].at \in {"refused", "record"}
    BY <1>2 DEF Steady, Typing, BucketsTypeOK, Call
  <1>4. /\ \A m \in Names, p \in Paths : path'[m][p] = IF m = n /\ p = k THEN r ELSE path[m][p]
        /\ \A i \in Requests : inode'[i] = IF i = r THEN {r} ELSE inode[i]
    BY <1>1, <1>2 DEF Steady, Typing, BucketsTypeOK
  <1>5. Sure(r)' BY <1>1, <1>3, <1>4 DEF Sure, Steady
  <1> HIDE DEF n, k
  <1>6. Placed'
    <2>1. \A m \in Names, p \in Paths, f \in Requests : f = path'[m][p] =>
            f = path[m][p] \/ (m = n /\ p = k /\ f = r)
      BY <1>4
    <2>2. call'[r].opened # None BY <1>3
    <2> QED BY <2>1, <2>2, PlacedStep DEF Stored, n, k
  <1>7. Shared'
    <2>1. ASSUME NEW q \in Requests, NEW f, f = call'[q].opened, f \notin {None, q}
          PROVE  Disturbed(f)'
      <3>1. q # r /\ f = call[q].opened BY <1>3, <2>1 DEF Steady, OpensOnly
      <3>2. f \in Requests /\ Disturbed(f) BY <2>1, <3>1 DEF Steady, Written, Shared, Opening
      <3> QED BY <3>2, DisturbedForLong DEF Steady, Written
    <2> QED BY <2>1 DEF Shared, Disturbed
  <1>8. Filed' BY <1>1, <1>2, FiledKept DEF Steady, Written
  <1>9. ASSUME NEW q \in Requests \ {r}, call'[q].opened # None, ~Disturbed(q)' PROVE Sure(q)'
    <2>1. /\ call'[q] = call[q] /\ call[q].key \in Keys /\ call[q].name \in Names /\ backend' = backend
          /\ call[q].key \in Paths /\ Temporary(call[q].key) \in Paths
          /\ call[q].at \in {"write", "replace"} => backend = "local"
      BY <1>9, KeyPaths DEF Steady, Written, Opening, OpensOnly
    <2>2. call[q].name = n => ~Clash(k, call[q].key)
      BY <1>3, <1>9, <2>1 DEF Disturbed, Clash, Steady, n, k
    <2>3. /\ path'[call[q].name][call[q].key] = path[call[q].name][call[q].key]
          /\ call[q].at \in {"write", "replace"} =>
               path'[call[q].name][Temporary(call[q].key)] = path[call[q].name][Temporary(call[q].key)]
      BY <1>4, <2>1, <2>2 DEF Clash
    <2>4. inode'[q] = inode[q] BY <1>4
    <2> QED BY <1>9, <2>3, <2>4, SureForLong DEF Steady, Written
  <1>10. Claimed' BY <1>5, <1>9 DEF Claimed
  <1> QED BY <1>6, <1>7, <1>8, <1>10 DEF Written, Steady

(* The file row, or the refusal of a second one. *)
LEMMA RecordWritten ==
  ASSUME NEW r \in Requests, Steady(r), PutRecord(r)
  PROVE  Written'
  <1> DEFINE f == [id |-> r, tenant |-> call[r].tenant, name |-> call[r].name, key |-> call[r].key]
  <1>1. /\ call[r].at = "record" /\ call[r].opened \in Requests /\ call[r].opened # None
        /\ UNCHANGED <<path, inode>>
        /\ \/ Goes(r, "refused") /\ UNCHANGED files
           \/ Goes(r, "done") /\ files' = files \union {f}
    BY Zenon DEF PutRecord, Steady, Written, Opening
  <1> HIDE DEF f
  <1>2. call'[r].opened = call[r].opened /\ call'[r].at \in {"refused", "done"}
    BY <1>1 DEF Goes, Steady, Typing, BucketsTypeOK, Call
  <1>3. Placed' BY <1>1, PlacedStep DEF Steady, Typing, BucketsTypeOK
  <1>4. Shared' BY <1>2, SharedKept DEF Steady, Written
  <1>5. ASSUME NEW q \in Requests, call'[q].opened # None, ~Disturbed(q)' PROVE Sure(q)'
    <2>1. CASE q # r BY <1>1, <1>5, <2>1, SureForLong DEF Steady, Written
    <2>2. CASE q = r
      <3>1. Sure(r) BY <1>1, <1>5, <2>2, DisturbedForLong DEF Steady, Written, Claimed
      <3> QED BY <1>1, <1>2, <2>2, <3>1 DEF Sure, Steady
    <2> QED BY <2>1, <2>2
  <1>6. Filed'
    <2>1. CASE UNCHANGED files BY <1>1, <2>1, FiledKept DEF Steady, Written
    <2>2. CASE Goes(r, "done") /\ files' = files \union {f}
      <3>1. call'[r].at = "done" BY <2>2 DEF Goes, Steady, Typing, BucketsTypeOK, Call
      <3>2. ASSUME NEW g \in files
            PROVE  /\ g.id \in Requests /\ call'[g.id].at = "done" /\ call'[g.id].opened # None
                   /\ call'[g.id].name = g.name /\ call'[g.id].key = g.key
        <4>1. g.id \in Requests /\ g.id # r BY <1>1 DEF Steady, Written, Filed
        <4> QED BY <4>1 DEF Filed, OpensOnly, Steady, Written
      <3>3. f.id = r /\ f.name = call[r].name /\ f.key = call[r].key BY DEF f
      <3> QED BY <1>1, <1>2, <2>2, <3>1, <3>2, <3>3 DEF Filed, Steady
    <2> QED BY <1>1, <2>1, <2>2
  <1> QED BY <1>3, <1>4, <1>5, <1>6 DEF Written, Claimed, Steady

-----------------------------------------------------------------------------
(* Every step leaves the files as they are, or as above. *)
LEMMA RequestWritten ==
  ASSUME Typing, Written, NEW r \in Requests, BucketsStep(r), UNCHANGED backend
  PROVE  Written'
  <1>1. OpensOnly(r) /\ Opening' /\ Stored' /\ Framed(r) /\ call[r].at # "done"
    BY OpeningStep, StepStored, StepFrame, StepAffects DEF Written, Affects
  <1>2. call[r].at \in Putting => Steady(r) BY <1>1 DEF Steady, Framed
  <1>3. call[r].at \notin {"write", "replace", "record"} \union Over => call[r].opened = None
    BY DEF Written, Opening
  <1>4. None \notin Requests BY BucketsAssumption
  <1> DEFINE Nothing == /\ UNCHANGED <<path, inode, files>> /\ call'[r].opened = call[r].opened
                        /\ call'[r].at \in {"write", "replace", "record", "done"} => call[r].opened = None
  <1>5. Nothing => Written' BY <1>1, NothingWritten
  <1> USE DEF Typing, BucketsTypeOK, Call, Goes, Made, Over
  <1>6. CASE CreateCheckRow(r) BY <1>5, <1>6 DEF CreateCheckRow
  <1>7. CASE CreateStore(r) BY <1>5, <1>7 DEF CreateStore
  <1>8. CASE CreateInsert(r) BY <1>3, <1>5, <1>8 DEF CreateInsert
  <1>9. CASE DeleteCheckStorage(r) BY <1>5, <1>9 DEF DeleteCheckStorage
  <1>10. CASE DeleteRemove(r) BY <1>5, <1>10 DEF DeleteRemove
  <1>11. CASE DeleteDrop(r) BY <1>3, <1>5, <1>11 DEF DeleteDrop
  <1>12. CASE PutOpen(r) BY <1>5, <1>12 DEF PutOpen
  <1>13. CASE PutTruncate(r)
    <2>1. CASE Goes(r, "refused") /\ UNCHANGED <<path, inode>> BY <1>5, <1>13, <2>1 DEF PutTruncate
    <2>2. CASE call'[r].opened # None BY <1>1, <1>2, <1>13, <2>2, TruncateWritten DEF PutTruncate, Putting
    <2> DEFINE t == Temporary(call[r].key)
               file == IF path[call[r].name][t] = None THEN r ELSE path[call[r].name][t]
    <2>3. call[r].at = "truncate" /\ call[r].name \in Names /\ t \in Paths
      BY <1>13, KeyPaths DEF PutTruncate, RequestShape, Putting
    <2>4. file \in Requests BY <2>3
    <2> HIDE DEF file
    <2>5. CASE call' = [call EXCEPT ![r].at = "write", ![r].opened = file] BY <1>4, <2>2, <2>4, <2>5
    <2> QED BY <1>13, <2>1, <2>5 DEF PutTruncate, file
  <1>14. CASE PutWrite(r) BY <1>2, <1>14, WriteWritten DEF PutWrite, Putting
  <1>15. CASE PutWriteFails(r) BY <1>1, <1>2, <1>15, UnlinkWritten DEF PutWriteFails, Putting
  <1>16. ASSUME NEW wrong \in BOOLEAN, PutReplace(r, wrong) PROVE Written'
    BY <1>1, <1>2, <1>16, ReplaceWritten DEF PutReplace, Putting
  <1>17. ASSUME NEW wrong \in BOOLEAN, PutSend(r, wrong) PROVE Written'
    <2>1. CASE Goes(r, "refused") /\ UNCHANGED <<path, inode>> BY <1>5, <1>17, <2>1 DEF PutSend
    <2>2. CASE call' = [call EXCEPT ![r].opened = r, ![r].at = IF wrong THEN "refused" ELSE "record"]
      <3>1. call'[r].opened = r BY <2>2
      <3> QED BY <1>1, <1>2, <1>4, <1>17, <3>1, SendWritten DEF PutSend, Putting
    <2> QED BY <1>17, <2>1, <2>2 DEF PutSend
  <1>18. CASE PutRecord(r) BY <1>2, <1>18, RecordWritten DEF PutRecord, Putting
  <1>19. CASE Fail(r) BY <1>5, <1>19 DEF Fail
  <1> QED BY <1>6, <1>7, <1>8, <1>9, <1>10, <1>11, <1>12, <1>13, <1>14, <1>15, <1>16, <1>17, <1>18, <1>19 DEF BucketsStep

LEMMA ArriveWritten ==
  ASSUME Typing, Written, BucketsArrive, UNCHANGED backend
  PROVE  Written'
  <1>1. PICK r \in Requests, t \in Tenants, n \in Names :
          \/ Create(r, t, n)
          \/ Delete(r, t, n)
          \/ \E k \in Keys : Put(r, t, n, k)
    BY DEF BucketsArrive
  <1>2. UNCHANGED <<path, inode, files>> BY <1>1 DEF Create, Delete, Put
  <1>3. /\ call[r] = NoCall /\ \A q \in Requests \ {r} : call'[q] = call[q]
        /\ call'[r].opened = None /\ call'[r].at \in {"row", "exists", "open", "send"}
        /\ call'[r].at = "open" => backend = "local"
    <2> USE DEF Typing, BucketsTypeOK, Call, NoCall, Steps, Arrives
    <2>1. CASE Create(r, t, n) BY <2>1 DEF Create
    <2>2. CASE Delete(r, t, n)
      <3>1. PICK b \in RowsOf(t, n) :
              Arrives(r, [NoCall EXCEPT !.op = "delete", !.tenant = t, !.name = n, !.row = b.id, !.at = "exists"])
        BY <2>2 DEF Delete
      <3> DEFINE i == b.id
      <3>2. Arrives(r, [NoCall EXCEPT !.op = "delete", !.tenant = t, !.name = n, !.row = i, !.at = "exists"])
        BY <3>1
      <3> HIDE DEF i
      <3> QED BY <3>2
    <2>3. ASSUME NEW k \in Keys, Put(r, t, n, k), backend = "local"
          PROVE  /\ call[r] = NoCall /\ \A q \in Requests \ {r} : call'[q] = call[q]
                 /\ call'[r].opened = None /\ call'[r].at = "open"
      BY <2>3 DEF Put
    <2>4. ASSUME NEW k \in Keys, Put(r, t, n, k), backend # "local"
          PROVE  /\ call[r] = NoCall /\ \A q \in Requests \ {r} : call'[q] = call[q]
                 /\ call'[r].opened = None /\ call'[r].at = "send"
      BY <2>4 DEF Put
    <2> QED BY <1>1, <2>1, <2>2, <2>3, <2>4
  <1>4. OpensOnly(r) BY <1>3 DEF OpensOnly, NoCall
  <1>5. Opening' BY <1>3 DEF Opening, Written
  <1> QED BY <1>2, <1>3, <1>4, <1>5, NothingWritten DEF NoCall

LEMMA WrittenInit ==
  ASSUME BucketsInit
  PROVE  Written
BY DEF BucketsInit, NoCall, Written, Opening, Placed, Shared, Claimed, Filed

LEMMA WrittenStep ==
  ASSUME Typing, Written, [BucketsNext]_bucketVars
  PROVE  Written'
  <1>1. CASE UNCHANGED bucketVars
    BY <1>1 DEF bucketVars, Written, Opening, Placed, Shared, Claimed, Sure, Filed, Disturbed, Clash
  <1> QED BY <1>1, RequestWritten, ArriveWritten DEF BucketsNext

(* LocalStorageAdapter.put_object and S3StorageAdapter.put_object: a recorded    *)
(* file has the bytes its upload sent unless another upload wrote under a name   *)
(* that the two share.                                                         *)
THEOREM FilesWhole == BucketsSpec => []FilesAreWhole
  <1>1. BucketsInit => Typing /\ Written BY TypingInit, WrittenInit
  <1>2. Typing /\ Written /\ [BucketsNext]_bucketVars => (Typing /\ Written)' BY TypingStep, WrittenStep
  <1>3. Typing /\ Written => FilesAreWhole
    <2> SUFFICES ASSUME Written, NEW f \in files, ~Disturbed(f.id)
                 PROVE  path[f.name][f.key] = f.id /\ inode[f.id] = {f.id}
      BY DEF FilesAreWhole, Disturbed, Written, Filed
    <2> QED BY DEF Written, Filed, Claimed, Sure
  <1> QED BY <1>1, <1>2, <1>3, PTL DEF BucketsSpec
=============================================================================
