------------------------------- MODULE Buckets -------------------------------
(***************************************************************************)
(* Buckets and the objects put into them: bucket_service.py,                 *)
(* FileService.proxy_upload and the storage adapters it calls.  A bucket is  *)
(* a directory of the local store, or an S3 bucket, and, unless it is a       *)
(* configured one, a row of its tenant; no transaction spans the two.  On the *)
(* local store an upload writes a temporary file beside the object and        *)
(* renames it, and its writes go to the file it has opened, whatever the name *)
(* stands for by then.                                                       *)
(*                                                                          *)
(* Deletions of files are in FileLifecycle; here a file once there stays.    *)
(***************************************************************************)
EXTENDS Integers, FiniteSets

CONSTANTS
  Requests,   \* bound: requests served, each once
  Tenants, Names,
  Configured, \* storage.allowed_buckets
  Stems,      \* object keys without their ".tmp" suffixes
  Backends,   \* "local", "s3": the deployments considered
  None

(* A path is a stem and the number of ".tmp" suffixes. *)
Keys  == Stems \X {0, 1}
Paths == Stems \X {0, 1, 2}

ASSUME BucketsAssumption ==
  /\ Requests \subseteq Nat \ {0}
  /\ Configured \subseteq Names
  /\ Backends \subseteq {"local", "s3"}
  /\ None \notin Requests \union Tenants \union Names \union Keys \union {0}

VARIABLES
  backend, \* storage.backend, which never changes
  dirs,   \* names of the buckets in storage
  path,   \* for each bucket, the file each path stands for: that opened by a request
  inode,  \* the requests whose bytes are in the file a request has opened
  rows,   \* storage_buckets: id, tenant, name
  files,  \* file_objects: id, tenant, bucket, key
  call    \* the requests

bucketVars == <<backend, dirs, path, inode, rows, files, call>>

(* row: the bucket row a deletion has read; made, gone: this request has        *)
(* created, or removed, the bucket; opened: the file it has written.            *)
Steps == {"idle", "row", "store", "insert", "exists", "remove", "drop",
          "open", "truncate", "write", "replace", "send", "record", "done", "refused", "failed"}
Call == [at : Steps, op : {"create", "delete", "put", None},
         tenant : Tenants \union {None}, name : Names \union {None},
         key : Keys \union {None},
         row : Requests \union {0, None}, gone : BOOLEAN, made : BOOLEAN, opened : Requests \union {None}]

NoCall == [at |-> "idle", op |-> None, tenant |-> None, name |-> None, key |-> None,
           row |-> None, gone |-> FALSE, made |-> FALSE, opened |-> None]

BucketRow == [id : Requests \union {0}, tenant : Tenants, name : Names]
FileRow   == [id : Requests, tenant : Tenants, name : Names, key : Keys]

(* The state has the form the rows, the calls and the file system have.         *)
BucketsTypeOK ==
  /\ backend \in Backends
  /\ dirs \subseteq Names
  /\ path \in [Names -> [Paths -> Requests \union {None}]]
  /\ inode \in [Requests -> SUBSET Requests]
  /\ rows \subseteq BucketRow
  /\ files \subseteq FileRow
  /\ call \in [Requests -> Call]

(* Some buckets have been created before. *)
BucketsInit ==
  /\ backend \in Backends
  /\ \E owned \in SUBSET (Names \ Configured), owner \in [Names -> Tenants] :
       /\ dirs = Configured \union owned
       /\ rows = {[id |-> 0, tenant |-> owner[n], name |-> n] : n \in owned}
  /\ path = [n \in Names |-> [p \in Paths |-> None]]
  /\ inode = [r \in Requests |-> {}]
  /\ files = {}
  /\ call = [r \in Requests |-> NoCall]

-----------------------------------------------------------------------------
RowsOf(t, n) == {b \in rows : b.tenant = t /\ b.name = n}
Empty(n) == \A p \in Paths : path[n][p] = None
\* Mutant: one temporary file for the whole bucket.
TemporaryShared(k) == <<k[1], 2>>

(* f"{key}.tmp" *)
Temporary(k) == <<k[1], k[2] + 1>>

(* is_bucket_allowed. *)
Allowed(t, n) == n \in Configured \/ RowsOf(t, n) # {}

Over == {"done", "refused", "failed"}
Goes(r, at) == call' = [call EXCEPT ![r].at = at]

(* A request arrives that passes its first check: one that does not changes      *)
(* nothing.  The names of the requests only tell them apart.                    *)
Arrives(r, c) ==
  /\ call[r] = NoCall
  /\ \A q \in Requests : q < r => call[q] # NoCall
  /\ call' = [call EXCEPT ![r] = c]

(* The client goes away, the process crashes, or a call of the database or of  *)
(* the storage fails without effect: the rest does not happen.                 *)
Fail(r) ==
  /\ call[r].at \notin Over \union {"idle"}
  /\ Goes(r, "failed")
  /\ UNCHANGED <<dirs, path, inode, rows, files>>

-----------------------------------------------------------------------------
(* POST /v1/buckets: two checks, the bucket, its row. *)

Create(r, t, n) ==
  /\ n \notin dirs
  /\ Arrives(r, [NoCall EXCEPT !.op = "create", !.tenant = t, !.name = n, !.at = "row"])
  /\ UNCHANGED <<dirs, path, inode, rows, files>>

CreateCheckRow(r) ==
  /\ call[r].at = "row"
  /\ Goes(r, IF RowsOf(call[r].tenant, call[r].name) = {} THEN "store" ELSE "refused")
  /\ UNCHANGED <<dirs, path, inode, rows, files>>

Made(r, at) == call' = [call EXCEPT ![r].at = at, ![r].made = TRUE]

\* Mutant: a bucket that has come into being since the check is taken over.
CreateStoreAnyway(r) ==
  /\ call[r].at = "store"
  /\ dirs' = dirs \union {call[r].name} /\ Made(r, "insert")
  /\ UNCHANGED <<path, inode, rows, files>>

\* Mutant: an error of the storage is passed over.
CreateStoreOptimistic(r) ==
  /\ call[r].at = "store"
  /\ call[r].name \notin dirs
  /\ dirs' \in {dirs, dirs \union {call[r].name}} /\ Made(r, "insert")
  /\ UNCHANGED <<path, inode, rows, files>>

(* mkdir(exist_ok=False), or CreateBucket. *)
CreateStore(r) ==
  /\ call[r].at = "store"
  /\ \/ call[r].name \in dirs /\ Goes(r, "refused") /\ UNCHANGED dirs
     \/ call[r].name \notin dirs /\ dirs' = dirs \union {call[r].name} /\ Made(r, "insert")
  /\ UNCHANGED <<path, inode, rows, files>>

(* INSERT and commit, or the unique key (tenant_id, name) refuses. *)
CreateInsert(r) ==
  /\ call[r].at = "insert"
  /\ IF RowsOf(call[r].tenant, call[r].name) = {}
     THEN /\ rows' = rows \union {[id |-> r, tenant |-> call[r].tenant, name |-> call[r].name]}
          /\ Goes(r, "done")
     ELSE Goes(r, "refused") /\ UNCHANGED rows
  /\ UNCHANGED <<dirs, path, inode, files>>

-----------------------------------------------------------------------------
(* DELETE /v1/buckets/{name}: the row is read, the bucket removed when it is    *)
(* empty, and the row, by its id, deleted.                                     *)

Delete(r, t, n) ==
  /\ n \notin Configured
  /\ \E b \in RowsOf(t, n) :
       Arrives(r, [NoCall EXCEPT !.op = "delete", !.tenant = t, !.name = n, !.row = b.id, !.at = "exists"])
  /\ UNCHANGED <<dirs, path, inode, rows, files>>

DeleteCheckStorage(r) ==
  /\ call[r].at = "exists"
  /\ Goes(r, IF call[r].name \in dirs THEN "remove" ELSE "refused")
  /\ UNCHANGED <<dirs, path, inode, rows, files>>

\* Mutant: a bucket that cannot be removed only loses its row.
DeleteRemoveForgiving(r) ==
  /\ call[r].at = "remove"
  /\ call' = [call EXCEPT ![r].at = "drop", ![r].gone = Empty(call[r].name)]
  /\ dirs' = IF Empty(call[r].name) THEN dirs \ {call[r].name} ELSE dirs
  /\ UNCHANGED <<path, inode, rows, files>>

(* A bucket that is no longer there counts as removed. *)
DeleteRemove(r) ==
  /\ call[r].at = "remove"
  /\ IF ~Empty(call[r].name) THEN Goes(r, "refused") /\ UNCHANGED dirs
     ELSE /\ dirs' = dirs \ {call[r].name}
          /\ call' = [call EXCEPT ![r].at = "drop", ![r].gone = call[r].name \in dirs]
  /\ UNCHANGED <<path, inode, rows, files>>

DeleteDrop(r) ==
  /\ call[r].at = "drop"
  /\ rows' = {b \in rows : b.id # call[r].row \/ b.name # call[r].name}
  /\ Goes(r, "done")
  /\ UNCHANGED <<dirs, path, inode, files>>

-----------------------------------------------------------------------------
(* POST /v1/files/upload, from is_bucket_allowed and object_exists to the row.  *)

Put(r, t, n, k) ==
  /\ Allowed(t, n) /\ path[n][k] = None
  /\ Arrives(r, [NoCall EXCEPT !.op = "put", !.tenant = t, !.name = n, !.key = k,
                               !.at = IF backend = "local" THEN "open" ELSE "send"])
  /\ UNCHANGED <<dirs, path, inode, rows, files>>

(* mkdir(parents=True): the bucket may come back. *)
PutOpen(r) ==
  /\ call[r].at = "open"
  /\ \/ call[r].name \in dirs /\ Goes(r, "truncate") /\ UNCHANGED dirs
     \/ call[r].name \notin dirs /\ dirs' = dirs \union {call[r].name} /\ Made(r, "truncate")
  /\ UNCHANGED <<path, inode, rows, files>>

(* open(temporary, "wb"): a file that is there is truncated, whoever wrote it.  *)
PutTruncate(r) ==
  LET n == call[r].name
      temporary == Temporary(call[r].key)
      file == IF path[n][temporary] = None THEN r ELSE path[n][temporary]
  IN  /\ call[r].at = "truncate"
      /\ IF n \notin dirs THEN Goes(r, "refused") /\ UNCHANGED <<path, inode>>
         ELSE /\ path' = [path EXCEPT ![n][temporary] = file]
              /\ inode' = [inode EXCEPT ![file] = {}]
              /\ call' = [call EXCEPT ![r].at = "write", ![r].opened = file]
      /\ UNCHANGED <<dirs, rows, files>>

PutWrite(r) ==
  /\ call[r].at = "write"
  /\ inode' = [inode EXCEPT ![call[r].opened] = @ \union {r}]
  /\ Goes(r, "replace")
  /\ UNCHANGED <<dirs, path, rows, files>>

(* An OSError, and the temporary name is unlinked. *)
PutWriteFails(r) ==
  /\ call[r].at \in {"write", "replace"}
  /\ path' = [path EXCEPT ![call[r].name][Temporary(call[r].key)] = None]
  /\ Goes(r, "refused")
  /\ UNCHANGED <<dirs, inode, rows, files>>

(* os.replace; if the checksum the client gave is wrong, the object is then      *)
(* removed.  When the temporary file has gone, that is an OSError too.          *)
PutReplace(r, wrong) ==
  LET n == call[r].name
      temporary == Temporary(call[r].key)
  IN  /\ call[r].at = "replace" /\ path[n][temporary] # None
      /\ path' = [path EXCEPT ![n][temporary] = None,
                              ![n][call[r].key] = IF wrong THEN None ELSE path[n][temporary]]
      /\ Goes(r, IF wrong THEN "refused" ELSE "record")
      /\ UNCHANGED <<dirs, inode, rows, files>>

(* PutObject: whole or not at all, and kept when the checksum is wrong. *)
PutSend(r, wrong) ==
  /\ call[r].at = "send"
  /\ IF call[r].name \notin dirs THEN Goes(r, "refused") /\ UNCHANGED <<path, inode>>
     ELSE /\ path' = [path EXCEPT ![call[r].name][call[r].key] = r]
          /\ inode' = [inode EXCEPT ![r] = {r}]
          /\ call' = [call EXCEPT ![r].opened = r,
                                 ![r].at = IF wrong THEN "refused" ELSE "record"]
  /\ UNCHANGED <<dirs, rows, files>>

(* INSERT and commit, or the unique key (tenant_id, bucket, object_key) refuses. *)
PutRecord(r) ==
  LET f == [id |-> r, tenant |-> call[r].tenant, name |-> call[r].name, key |-> call[r].key] IN
  /\ call[r].at = "record"
  /\ IF \E g \in files : g.tenant = f.tenant /\ g.name = f.name /\ g.key = f.key
     THEN Goes(r, "refused") /\ UNCHANGED files
     ELSE Goes(r, "done") /\ files' = files \union {f}
  /\ UNCHANGED <<dirs, path, inode, rows>>

-----------------------------------------------------------------------------

BucketsArrive ==
  \E r \in Requests, t \in Tenants, n \in Names :
    \/ Create(r, t, n)
    \/ Delete(r, t, n)
    \/ \E k \in Keys : Put(r, t, n, k)

BucketsStep(r) ==
  \/ CreateCheckRow(r) \/ CreateStore(r) \/ CreateInsert(r)
  \/ DeleteCheckStorage(r) \/ DeleteRemove(r) \/ DeleteDrop(r)
  \/ PutOpen(r) \/ PutTruncate(r) \/ PutWrite(r) \/ PutWriteFails(r) \/ PutRecord(r)
  \/ \E wrong \in BOOLEAN : PutReplace(r, wrong) \/ PutSend(r, wrong)
  \/ Fail(r)

BucketsNext == (BucketsArrive \/ \E r \in Requests : BucketsStep(r)) /\ UNCHANGED backend

BucketsSpec == BucketsInit /\ [][BucketsNext]_bucketVars

-----------------------------------------------------------------------------
(* Properties. *)

(* Two uploads of different keys get in each other's way when the temporary     *)
(* file of one is the object of the other.                                     *)
Clash(k, l) == k = l \/ (backend = "local" /\ (Temporary(k) = l \/ Temporary(l) = k))

(* The object of every file row is, byte for byte, what its upload sent, unless *)
(* another upload has written to the same key, or to a key that is the          *)
(* temporary name of it: then the row may describe other bytes, a mixture, or   *)
(* nothing (LocalStorageAdapter.put_object, delete_bucket).                     *)
FilesAreWhole ==
  \A f \in files :
    LET file == path[f.name][f.key] IN
    \/ file = f.id /\ inode[file] = {f.id}
    \/ \E r \in Requests \ {f.id} :
         /\ call[r].opened # None /\ call[r].name = f.name
         /\ Clash(call[r].key, f.key)

(* Deletions that have taken a bucket away and not, or not yet, the rows ids;    *)
(* or that had read another row of the name, which was deleted and created      *)
(* again in between.                                                           *)
HasRemoved(n, ids) ==
  \E r \in Requests :
    /\ call[r].op = "delete" /\ call[r].name = n /\ call[r].gone
    /\ call[r].row \in ids => call[r].at \in {"drop", "failed"}

(* A bucket the API lists exists in storage, but for a deletion that has not    *)
(* finished or that read its row before the bucket was created anew             *)
(* (create_bucket, delete_bucket).                                             *)
RowsAreBacked == \A b \in rows : b.name \in dirs \/ HasRemoved(b.name, {b.id})

(* A name belongs to two tenants only when the bucket of the first was removed  *)
(* and its row was not: nothing in the database keeps them apart.              *)
OneTenant ==
  \A b, c \in rows : b.name = c.name /\ b # c => HasRemoved(b.name, {b.id, c.id})

(* A bucket without any row, which nobody can list, create or delete, is the    *)
(* remains of a creation that did not finish, or was put back by an upload to   *)
(* the local store that had been let in before.                                *)
BucketsAreOwned ==
  \A n \in dirs \ Configured :
    \/ \E b \in rows : b.name = n
    \/ \E r \in Requests :
         /\ call[r].name = n /\ call[r].made
         /\ call[r].op = "create" => call[r].at # "done"
=============================================================================
