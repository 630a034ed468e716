--------------------------- MODULE MultipartUpload ---------------------------
(***************************************************************************)
(* Upload sessions that compete for one object key: the handlers of         *)
(* app/services/upload_service.py run over a database (rows of              *)
(* upload_sessions, upload_parts, file_objects), a storage backend (local   *)
(* directory or S3) and the session sweep of the cleanup worker.            *)
(*                                                                          *)
(* A request is one database transaction under READ COMMITTED.  Database    *)
(* variables hold COMMITTED values: what a transaction has written but not  *)
(* committed is in its request record, and the row lock it holds meanwhile  *)
(* is in `lock'.  Storage has no transactions: `stored', `live' and         *)
(* `object' change when the storage call does.  An action is what a handler *)
(* does between two awaits that other requests can observe.                 *)
(***************************************************************************)
EXTENDS Naturals, FiniteSets

CONSTANTS
  Sessions,    \* upload sessions of one tenant for the same bucket and object key
  Handlers,    \* requests the API nodes serve at the same time
  Parts,       \* part numbers 1 .. total_parts of every session
  Contents,    \* what a client may send as a part; its ETag names it
  Backend,     \* "local" or "s3" (settings.storage.backend)
  Modes,       \* upload modes a session may be given on S3
  ProxyParts,  \* TRUE: clients send parts through the API
  DirectParts, \* TRUE: clients PUT to presigned URLs and commit part ETags
  HonestETags, \* TRUE: a client commits a part only after storing it
  Sweeping,    \* TRUE: the cleanup worker runs
  StorageErrors, \* TRUE: storage calls may fail
  Crashes,     \* TRUE: nodes may crash, requests may be cancelled
  None,        \* no value
  Torn, Mixed  \* the bytes of a part file still being written, and those of
               \* one that requests with different bytes have written at once

ASSUME ConstantsAssumption ==
  /\ Backend \in {"local", "s3"}
  /\ Modes \subseteq {"proxy", "presigned"}
  /\ {ProxyParts, DirectParts, HonestETags, Sweeping, StorageErrors, Crashes} \subseteq BOOLEAN
  /\ None \notin Sessions \union Handlers \union Parts \union Contents
  /\ Torn \notin Contents \union {None} /\ Mixed \notin Contents \union {None, Torn}

VARIABLES
  status,   \* upload_sessions.status, "none" before the row exists
  fileId,   \* upload_sessions.completed_file_id: the file is named by its session
  lapsed,   \* upload_sessions.expires_at is in the past
  partRow,  \* upload_parts: the committed ETag of each part, or None
  file,     \* file_objects: the session whose row owns the (unique) key, or None
  lock,     \* holder of the row lock of each upload_sessions row, or None
  stored,   \* storage: the bytes of each uploaded part
  live,     \* storage: the S3 multipart upload exists
  object,   \* storage: the object under the key, by session and parts
  req,      \* one record for each request being served
  swept     \* ids the sweep has selected and not yet updated

db      == <<status, fileId, lapsed, partRow, file>>
storage == <<stored, live, object>>
vars    == <<db, lock, storage, req, swept>>

Statuses == {"none", "initiated", "uploading", "completed", "aborted", "expired"}
Active   == {"initiated", "uploading"}

(* Where a request is waiting; "idle" is no request. *)
Steps == {"idle", "insert", "mark", "put", "write", "upsert", "commit", "list",
          "assemble", "record", "discard", "aborted"}

(* What the file of a part may hold. *)
Bytes == Contents \union {None, Torn, Mixed}

NoParts == [p \in Parts |-> None]
NoObject == [from |-> None, data |-> NoParts]
Idle == [at |-> "idle", s |-> None, p |-> None, c |-> None,
         linked |-> FALSE, listed |-> NoParts]

Request == [at : Steps, s : Sessions \union {None}, p : Parts \union {None},
            c : Contents \union {None}, linked : BOOLEAN,
            listed : [Parts -> Bytes]]
Object == [from : Sessions \union {None}, data : [Parts -> Bytes]]

TypeOK ==
  /\ status  \in [Sessions -> Statuses]
  /\ fileId  \in [Sessions -> Sessions \union {None}]
  /\ lapsed  \in [Sessions -> BOOLEAN]
  /\ partRow \in [Sessions -> [Parts -> Contents \union {None}]]
  /\ file    \in Sessions \union {None}
  /\ lock    \in [Sessions -> Handlers \union {None}]
  /\ stored  \in [Sessions -> [Parts -> Bytes]]
  /\ live    \in [Sessions -> BOOLEAN]
  /\ object  \in Object
  /\ req     \in [Handlers -> Request]
  /\ swept   \subseteq Sessions

Init ==
  /\ status  = [s \in Sessions |-> "none"]
  /\ fileId  = [s \in Sessions |-> None]
  /\ lapsed  = [s \in Sessions |-> FALSE]
  /\ partRow = [s \in Sessions |-> NoParts]
  /\ file    = None
  /\ lock    = [s \in Sessions |-> None]
  /\ stored  = [s \in Sessions |-> NoParts]
  /\ live    = [s \in Sessions |-> FALSE]
  /\ object  = NoObject
  /\ req     = [w \in Handlers |-> Idle]
  /\ swept   = {}

-----------------------------------------------------------------------------
(* Requests and row locks. *)

At(w, step) == req[w].at = step

Begin(w, r) == req' = [req EXCEPT ![w] = r]

GoTo(w, step) == req' = [req EXCEPT ![w].at = step]

(* The part files of session s lose their names: whoever is still writing   *)
(* one of P writes to an unlinked file.                                      *)
Unlinked(r, s, P) == IF r.s = s /\ r.p \in P THEN [r EXCEPT !.linked = FALSE] ELSE r

(* Complete and abort, which take their session with SELECT ... FOR UPDATE. *)
Exclusive == {"list", "assemble", "record", "discard", "aborted"}

Locked(s) == lock[s] # None

(* Another transaction has written the row of part p of session s. *)
PartLocked(s, p) == \E v \in Handlers : At(v, "commit") /\ req[v].s = s /\ req[v].p = p

(* SELECT ... FOR UPDATE is in force on the session; or a new part's foreign    *)
(* key keeps it out.                                                         *)
LockedForUpdate(s) ==
  \E v \in Handlers : lock[s] = v /\ req[v].at \in Exclusive
KeyShared(s) == \E p \in Parts : PartLocked(s, p) /\ partRow[s][p] = None

Acquire(w, s) == lock[s] = None /\ lock' = [lock EXCEPT ![s] = w]

(* The transaction of w ends: its row lock, if it had one, is released. *)
Released(w) == [s \in Sessions |-> IF lock[s] = w THEN None ELSE lock[s]]

(* Commit or rollback, and the answer. *)
End(w) == lock' = Released(w) /\ req' = [req EXCEPT ![w] = Idle]

\* Mutant: the session goes back to the pool without its rollback.
RefuseHoldingLock(w) ==
  req' = [req EXCEPT ![w] = Idle] /\ UNCHANGED <<db, lock, storage, swept>>

(* The transaction rolls back and the request is answered with an error. *)
Refuse(w) == End(w) /\ UNCHANGED <<db, storage, swept>>

StoredParts(s) == {p \in Parts : stored[s][p] # None}
AllCommitted(s) == \A p \in Parts : partRow[s][p] # None

-----------------------------------------------------------------------------
(* create_session: the conflict check (object_conflict_policy "reject"), the *)
(* storage call, then the INSERT.  A session whose S3 upload was initiated   *)
(* by a request that failed is never created again: its id is lost.          *)

CreateCheck(w, s) ==
  /\ At(w, "idle")
  /\ status[s] = "none" /\ ~live[s]
  /\ \A v \in Handlers : req[v].s # s
  /\ object = NoObject
  /\ \E m \in Modes :
       live' = [live EXCEPT ![s] = (Backend = "s3" /\ m = "presigned")]
  /\ Begin(w, [Idle EXCEPT !.at = "insert", !.s = s])
  /\ UNCHANGED <<db, lock, stored, object, swept>>

CreateInsert(w) ==
  LET s == req[w].s IN
  /\ At(w, "insert")
  /\ status' = [status EXCEPT ![s] = "initiated"]
  /\ End(w)
  /\ UNCHANGED <<fileId, lapsed, partRow, file, storage, swept>>

-----------------------------------------------------------------------------
(* proxy_upload_part.  The session row is read without a lock; a handler     *)
(* that read "initiated" will write "uploading" over whatever the row holds  *)
(* when it gets the row lock, and keeps the lock to the end.                  *)

PartRead(w, s, p, c) ==
  /\ ProxyParts
  /\ At(w, "idle")
  /\ status[s] \in Active
  /\ Begin(w, [Idle EXCEPT !.at = IF status[s] = "initiated" THEN "mark" ELSE "put",
                           !.s = s, !.p = p, !.c = c])
  /\ UNCHANGED <<db, lock, storage, swept>>

PartMark(w) ==
  /\ At(w, "mark")
  /\ Acquire(w, req[w].s)
  /\ GoTo(w, "put")
  /\ UNCHANGED <<db, storage, swept>>

(* The other requests that are writing the part file of w, and those of them  *)
(* that write other bytes.                                                   *)
Writers(w) ==
  {v \in Handlers \ {w} : req[v].linked /\ req[v].s = req[w].s /\ req[v].p = req[w].p}
Rivals(w) == {v \in Writers(w) : req[v].c # req[w].c}

(* Local: the part file is created or truncated in place. *)
PartOpen(w) ==
  LET r == req[w] IN
  /\ Backend = "local" /\ At(w, "put")
  /\ stored' = [stored EXCEPT ![r.s][r.p] = IF Rivals(w) = {} THEN Torn ELSE Mixed]
  /\ Begin(w, [r EXCEPT !.at = "write", !.linked = TRUE])
  /\ UNCHANGED <<db, lock, live, object, swept>>

\* Mutant: the part file is closed before its buffered bytes are written.
PartUnflushed(w) ==
  /\ At(w, "write")
  /\ Begin(w, [req[w] EXCEPT !.at = "upsert", !.linked = FALSE])
  /\ UNCHANGED <<db, lock, storage, swept>>

(* What the file may hold when w has written its last bytes: while another     *)
(* request is still writing the same bytes, the file is complete or not; what   *)
(* one with other bytes has written, or writes, may be among them.             *)
Leaves(w) ==
  LET r == req[w] IN
  {r.c} \union
    (IF Rivals(w) # {} \/ stored[r.s][r.p] \notin {Torn, r.c} THEN {Mixed}
     ELSE IF Writers(w) # {} THEN {Torn} ELSE {})

(* Local: the last bytes are written. *)
PartWritten(w) ==
  LET r == req[w] IN
  /\ At(w, "write")
  /\ IF r.linked THEN \E b \in Leaves(w) : stored' = [stored EXCEPT ![r.s][r.p] = b]
                 ELSE UNCHANGED stored
  /\ Begin(w, [r EXCEPT !.at = "upsert", !.linked = FALSE])
  /\ UNCHANGED <<db, lock, live, object, swept>>

(* Local: an OSError; whatever file has the part's name is unlinked. *)
PartWriteFails(w) ==
  LET r == req[w] IN
  /\ StorageErrors /\ At(w, "write")
  /\ stored' = [stored EXCEPT ![r.s][r.p] = None]
  /\ req' = [v \in Handlers |-> IF v = w THEN Idle ELSE Unlinked(req[v], r.s, {r.p})]
  /\ lock' = Released(w)
  /\ UNCHANGED <<db, live, object, swept>>

(* S3: UploadPart is atomic, and NoSuchUpload once the upload is gone. *)
PartPut(w) ==
  LET r == req[w] IN
  /\ Backend = "s3" /\ At(w, "put")
  /\ \/ /\ live[r.s]
        /\ stored' = [stored EXCEPT ![r.s][r.p] = r.c]
        /\ GoTo(w, "upsert")
        /\ UNCHANGED <<db, lock, live, object, swept>>
     \/ (~live[r.s] \/ StorageErrors) /\ Refuse(w)

(* upsert_part: INSERT ... ON CONFLICT waits for the transaction that has       *)
(* written the row of the part, and keeps the row to the end.  A new row's      *)
(* foreign key locks the session FOR KEY SHARE, which goes with an UPDATE of    *)
(* the session but not with complete and abort's FOR UPDATE.                   *)
PartUpsert(w) ==
  /\ At(w, "upsert")
  /\ ~PartLocked(req[w].s, req[w].p)
  /\ partRow[req[w].s][req[w].p] = None => ~LockedForUpdate(req[w].s)
  /\ GoTo(w, "commit")
  /\ UNCHANGED <<db, lock, storage, swept>>

\* Mutant: touch_activity also writes the status.
PartCommitMarks(w) ==
  LET r == req[w] IN
  /\ At(w, "commit")
  /\ lock[r.s] \in {None, w}
  /\ status' = [status EXCEPT ![r.s] = "uploading"]
  /\ partRow' = [partRow EXCEPT ![r.s][r.p] = r.c]
  /\ End(w)
  /\ UNCHANGED <<fileId, lapsed, file, storage, swept>>

(* touch_activity, an UPDATE of the session row that waits for its lock, and   *)
(* the commit.                                                                *)
PartCommit(w) ==
  LET r == req[w] IN
  /\ At(w, "commit")
  /\ lock[r.s] \in {None, w}
  /\ status' = IF lock[r.s] = w THEN [status EXCEPT ![r.s] = "uploading"] ELSE status
  /\ partRow' = [partRow EXCEPT ![r.s][r.p] = r.c]
  /\ End(w)
  /\ UNCHANGED <<fileId, lapsed, file, storage, swept>>

(* A client PUTs a part to its presigned URL: no request of the API. *)
DirectPut(s, p, c) ==
  /\ DirectParts /\ Backend = "s3"
  /\ live[s] /\ status[s] # "none"
  /\ stored' = [stored EXCEPT ![s][p] = c]
  /\ UNCHANGED <<db, lock, live, object, req, swept>>

(* commit_part: the client names the ETag; the status is only checked. *)
CommitPartRead(w, s, p, c) ==
  /\ DirectParts
  /\ At(w, "idle")
  /\ status[s] \in Active
  /\ HonestETags => stored[s][p] # None
  /\ Begin(w, [Idle EXCEPT !.at = "upsert", !.s = s, !.p = p, !.c = c])
  /\ UNCHANGED <<db, lock, storage, swept>>

-----------------------------------------------------------------------------
(* complete: under the row lock taken by SELECT ... FOR UPDATE. *)

CompleteLock(w, s) ==
  /\ At(w, "idle")
  /\ Acquire(w, s) /\ ~KeyShared(s)
  /\ status[s] \in Active
  /\ AllCommitted(s)
  /\ Begin(w, [Idle EXCEPT !.at = "list", !.s = s])
  /\ UNCHANGED <<db, storage, swept>>

\* Mutant: ETags are not compared.
CompleteListBlind(w) ==
  /\ At(w, "list")
  /\ Begin(w, [req[w] EXCEPT !.at = "assemble", !.listed = stored[req[w].s]])
  /\ UNCHANGED <<db, lock, storage, swept>>

\* Mutant: a session whose parts are all listed is taken for assembled.
CompleteListOnly(w) ==
  /\ At(w, "list")
  /\ GoTo(w, "record")
  /\ UNCHANGED <<db, lock, storage, swept>>

\* Mutant: the file row is committed before storage is completed.
CompleteListRecords(w) ==
  LET s == req[w].s IN
  /\ At(w, "list")
  /\ file' = s
  /\ fileId' = [fileId EXCEPT ![s] = s]
  /\ status' = [status EXCEPT ![s] = "completed"]
  /\ Begin(w, [req[w] EXCEPT !.at = "assemble", !.listed = stored[s]])
  /\ UNCHANGED <<lapsed, partRow, lock, storage, swept>>

(* list_parts against the committed rows.  Local lists names without ETags    *)
(* (an empty list means "use the rows"); S3 compares the ETag of every part   *)
(* it lists, and a part that is not listed is not compared.  A session without *)
(* an S3 upload id skips the listing and is refused by the next call instead.  *)
CompleteList(w) ==
  LET s == req[w].s
      mismatch == \E p \in StoredParts(s) : stored[s][p] # partRow[s][p]
  IN
  /\ At(w, "list")
  /\ \/ Backend = "s3" /\ (~live[s] \/ mismatch \/ StorageErrors) /\ Refuse(w)
     \/ /\ Backend = "s3" => live[s] /\ ~mismatch
        /\ Begin(w, [req[w] EXCEPT !.at = "assemble", !.listed =
                       IF Backend = "local" /\ StoredParts(s) = {} THEN partRow[s]
                                                                 ELSE stored[s]])
        /\ UNCHANGED <<db, lock, storage, swept>>

(* complete_multipart_upload of the listed parts.  On S3 every listed part    *)
(* must still have its ETag, at least one is listed, and the upload exists.  Local concatenates    *)
(* the files, replaces the object, and removes the session's directory        *)
(* whether or not a file was missing or a write failed.                                         *)
CompleteStore(w) ==
  LET r == req[w]
      s == r.s
      listed == {p \in Parts : r.listed[p] # None}
      possible == IF Backend = "s3"
                    THEN /\ live[s] /\ listed # {}
                         /\ \A p \in listed : stored[s][p] = r.listed[p]
                    ELSE listed \subseteq StoredParts(s)
  IN
  /\ At(w, "assemble")
  /\ \E whole \in {possible} \union (IF StorageErrors THEN {FALSE} ELSE {}) :
       /\ object' = IF whole
                      THEN [from |-> s, data |-> [p \in Parts |->
                              IF p \in listed THEN stored[s][p] ELSE None]]
                      ELSE object
       /\ stored' = IF whole \/ Backend = "local"
                      THEN [stored EXCEPT ![s] = NoParts] ELSE stored
       /\ live' = [live EXCEPT ![s] = @ /\ ~whole]
       /\ lock' = IF whole THEN lock ELSE Released(w)
       /\ req' = [v \in Handlers |->
                    IF v = w THEN IF whole THEN [r EXCEPT !.at = "record"] ELSE Idle
                    ELSE IF Backend = "local" THEN Unlinked(req[v], s, Parts)
                    ELSE req[v]]
  /\ UNCHANGED <<db, swept>>

\* Mutant: the unique violation is swallowed.
CompleteRecordAnyway(w) ==
  LET s == req[w].s IN
  /\ At(w, "record")
  /\ file' = IF file = None THEN s ELSE file
  /\ status' = [status EXCEPT ![s] = "completed"]
  /\ fileId' = [fileId EXCEPT ![s] = s]
  /\ End(w)
  /\ UNCHANGED <<lapsed, partRow, storage, swept>>

(* INSERT INTO file_objects, the session's final UPDATE, the commit; the      *)
(* unique key of file_objects refuses a second row and rolls back.            *)
CompleteRecord(w) ==
  LET s == req[w].s IN
  /\ At(w, "record")
  /\ \/ /\ file = None
        /\ file' = s
        /\ status' = [status EXCEPT ![s] = "completed"]
        /\ fileId' = [fileId EXCEPT ![s] = s]
        /\ End(w)
        /\ UNCHANGED <<lapsed, partRow, storage, swept>>
     \/ file # None /\ Refuse(w)

-----------------------------------------------------------------------------
(* abort *)

\* Mutant: the row is read without FOR UPDATE.
AbortUnlocked(w, s) ==
  /\ At(w, "idle")
  /\ status[s] \in Active
  /\ Begin(w, [Idle EXCEPT !.at = "discard", !.s = s])
  /\ UNCHANGED <<db, lock, storage, swept>>

\* Mutant: a completed session can be aborted.
AbortAny(w, s) ==
  /\ At(w, "idle")
  /\ Acquire(w, s)
  /\ status[s] # "none"
  /\ Begin(w, [Idle EXCEPT !.at = "discard", !.s = s])
  /\ UNCHANGED <<db, storage, swept>>

AbortLock(w, s) ==
  /\ At(w, "idle")
  /\ Acquire(w, s) /\ ~KeyShared(s)
  /\ status[s] \in Active
  /\ Begin(w, [Idle EXCEPT !.at = "discard", !.s = s])
  /\ UNCHANGED <<db, storage, swept>>

(* abort_multipart_upload; an ApiError of the storage is swallowed. *)
AbortStore(w) ==
  LET s == req[w].s IN
  /\ At(w, "discard")
  /\ \/ /\ stored' = [stored EXCEPT ![s] = NoParts]
        /\ live' = [live EXCEPT ![s] = FALSE]
        /\ req' = [v \in Handlers |->
                     IF v = w THEN [req[w] EXCEPT !.at = "aborted"]
                     ELSE Unlinked(req[v], s, Parts)]
     \/ /\ StorageErrors /\ Backend = "s3"
        /\ GoTo(w, "aborted")
        /\ UNCHANGED <<stored, live>>
  /\ UNCHANGED <<db, lock, object, swept>>

\* Mutant: the final status is never assigned.
AbortCommitsAborting(w) ==
  /\ At(w, "aborted")
  /\ status' = [status EXCEPT ![req[w].s] = "aborting"]
  /\ End(w)
  /\ UNCHANGED <<fileId, lapsed, partRow, file, storage, swept>>

AbortCommit(w) ==
  /\ At(w, "aborted")
  /\ status' = [status EXCEPT ![req[w].s] = "aborted"]
  /\ End(w)
  /\ UNCHANGED <<fileId, lapsed, partRow, file, storage, swept>>

-----------------------------------------------------------------------------
(* The remaining requests take one step: refresh reads and writes one row     *)
(* under its lock.  Requests that only read (get, list parts, presign,        *)
(* resume) leave all of this state unchanged.                                 *)

Refresh(s) ==
  /\ ~Locked(s) /\ ~KeyShared(s)
  /\ status[s] \in Active
  /\ lapsed' = [lapsed EXCEPT ![s] = FALSE]
  /\ UNCHANGED <<status, fileId, partRow, file, lock, storage, req, swept>>

(* expires_at passes. *)
Lapse(s) ==
  /\ status[s] # "none" /\ ~lapsed[s]
  /\ lapsed' = [lapsed EXCEPT ![s] = TRUE]
  /\ UNCHANGED <<status, fileId, partRow, file, lock, storage, req, swept>>

\* Mutant: sessions that never received a part are forgotten.
SweepUploadingOnly ==
  /\ Sweeping /\ swept = {}
  /\ swept' = {s \in Sessions : status[s] = "uploading" /\ lapsed[s]}
  /\ swept' # {}
  /\ UNCHANGED <<db, lock, storage, req>>

(* expire_upload_sessions: a SELECT of ids, then an UPDATE of those ids which *)
(* waits for their row locks and looks at neither status nor expires_at.      *)
SweepSelect ==
  /\ Sweeping /\ swept = {}
  /\ swept' = {s \in Sessions : status[s] \in Active /\ lapsed[s]}
  /\ swept' # {}
  /\ UNCHANGED <<db, lock, storage, req>>

SweepUpdate ==
  /\ swept # {}
  /\ \A s \in swept : ~Locked(s)
  /\ status' = [s \in Sessions |-> IF s \in swept THEN "expired" ELSE status[s]]
  /\ swept' = {}
  /\ UNCHANGED <<fileId, lapsed, partRow, file, lock, storage, req>>

(* A crash, a cancelled request, a failed database call: the                  *)
(* transaction rolls back, storage keeps what was done to it, and a part       *)
(* file being written stays as it is.                                          *)
Fail(w) ==
  /\ Crashes
  /\ ~At(w, "idle")
  /\ Refuse(w)

(* Request w holds the session's row and waits for that of a part, which v      *)
(* holds while it waits for the session's: v waits for w, and w for v.         *)
WaitInCircle(w, v) ==
  /\ At(w, "upsert") /\ At(v, "commit")
  /\ req[v].s = req[w].s /\ req[v].p = req[w].p
  /\ lock[req[w].s] = w

(* PostgreSQL finds the circle and ends one of its two transactions. *)
Deadlock(w) ==
  /\ \E v \in Handlers : WaitInCircle(w, v) \/ WaitInCircle(v, w)
  /\ Refuse(w)

SweepFail ==
  /\ Crashes /\ swept # {}
  /\ swept' = {}
  /\ UNCHANGED <<db, lock, storage, req>>

-----------------------------------------------------------------------------

Step(w) ==
  \/ CreateInsert(w)
  \/ PartMark(w) \/ PartOpen(w) \/ PartWritten(w) \/ PartPut(w)
  \/ PartUpsert(w) \/ PartCommit(w)
  \/ CompleteList(w) \/ CompleteStore(w) \/ CompleteRecord(w)
  \/ AbortStore(w) \/ AbortCommit(w)

Arrive(w) ==
  \E s \in Sessions :
    \/ CreateCheck(w, s)
    \/ CompleteLock(w, s)
    \/ AbortLock(w, s)
    \/ \E p \in Parts, c \in Contents :
         PartRead(w, s, p, c) \/ CommitPartRead(w, s, p, c)

Environment ==
  \/ \E s \in Sessions : Refresh(s) \/ Lapse(s)
  \/ \E s \in Sessions, p \in Parts, c \in Contents : DirectPut(s, p, c)
  \/ SweepSelect \/ SweepUpdate \/ SweepFail
  \/ \E w \in Handlers : Fail(w) \/ Deadlock(w) \/ PartWriteFails(w)

Next == (\E w \in Handlers : Step(w) \/ Arrive(w)) \/ Environment

Spec == Init /\ [][Next]_vars

(* An event loop resumes every request whose await is over.  PostgreSQL      *)
(* queues the waiters of a row lock, so one that waits gets it in the end:    *)
(* strong fairness; its deadlock detector runs whenever somebody has waited   *)
(* for a second.  The worker's loop comes round again and again.  Nothing     *)
(* obliges a client to send a request, time to pass, or a fault to happen.    *)
Fairness ==
  /\ \A w \in Handlers : SF_vars(Step(w))
  /\ WF_vars(\E w \in Handlers : Deadlock(w))
  /\ WF_vars(SweepSelect) /\ SF_vars(SweepUpdate)

FairSpec == Spec /\ Fairness

-----------------------------------------------------------------------------
(* Properties. *)

(* Complete and abort work under the row lock of their session from the      *)
(* SELECT ... FOR UPDATE to the commit or rollback (docs 20.2), and a lock    *)
(* belongs to a request that is working on that row: none is left behind by  *)
(* a refused, failed or crashed request.                                     *)
LockDiscipline ==
  \A w \in Handlers :
    /\ req[w].at \in Exclusive => req[w].s \in Sessions /\ lock[req[w].s] = w
    /\ \A s \in Sessions : lock[s] = w =>
         req[w].s = s /\ req[w].at \in Exclusive \union {"put", "write", "upsert", "commit"}

(* The two rows complete() writes never disagree: a session names a file     *)
(* exactly when the key's only file_objects row is the one it created, and a *)
(* session is never "completed" without it, whoever overwrites its status.   *)
OneFilePerKey ==
  \A s \in Sessions :
    /\ fileId[s] \in {None, s}
    /\ fileId[s] = s <=> file = s
    /\ status[s] = "completed" => file = s

(* A file row is inserted only over an object that was assembled by the same *)
(* session from every part, each with the ETag its upload_parts row has.     *)
CompletedIsCommitted ==
  [][\A s \in Sessions : file' = s /\ file # s =>
       object.from = s /\ object.data = partRow[s] /\ AllCommitted(s)]_vars

(* Once a file row is committed no request, retry or crash of an upload       *)
(* changes the object it describes.                                          *)
FileStable == [][file # None => object' = object]_vars

(* A session that created a file keeps no S3 multipart upload, even if its   *)
(* status is overwritten later: storage can be completed at most once.       *)
CompletedOnce == \A s \in Sessions : file = s => ~live[s]

(* A completed session leaves "completed" in two ways only: the sweep had    *)
(* selected it while it was active, or a part request that read "initiated"  *)
(* writes its stale "uploading" back.                                        *)
ReopenedOnlyByStaleWriters ==
  [][\A s \in Sessions : status[s] = "completed" /\ status'[s] # "completed" =>
       \/ s \in swept /\ status'[s] = "expired"
       \/ \E w \in Handlers : lock[s] = w /\ At(w, "commit") /\ status'[s] = "uploading"]_vars

(* Without crashes, a part file that is incomplete has a request still        *)
(* writing it under that name, and a request writing a named file has one:   *)
(* neither the rmtree of complete or abort nor a second writer of the same    *)
(* bytes breaks this.  Writers of different bytes may leave a mixture.        *)
TornIsBeingWritten ==
  \A s \in Sessions, p \in Parts :
    LET writers == {w \in Handlers : req[w].linked /\ req[w].s = s /\ req[w].p = p}
    IN  /\ stored[s][p] = Torn => writers # {}
        /\ writers # {} => stored[s][p] # None

(* Every request ends, whatever row locks it has to wait for: of a session,     *)
(* which others keep across storage calls, and of a part, in whatever order. *)
EveryRequestEnds == \A w \in Handlers : ~At(w, "idle") ~> At(w, "idle")

(* A session left alone past its expires_at does not stay active. *)
LapsedSessionExpires ==
  \A s \in Sessions : status[s] \in Active /\ lapsed[s] ~> ~(status[s] \in Active /\ lapsed[s])

(* What clients see of the sessions: rows that exist and are not finished are *)
(* open; the refinement mapping of UploadContract.                            *)
Phase == [s \in Sessions |-> IF status[s] \in Active THEN "open" ELSE status[s]]
Contract == INSTANCE UploadContract WITH phase <- Phase, owner <- file

(* Sessions whose parts go straight to storage, and that no sweep touches,    *)
(* keep the API's promise through crashes, retries and races of complete with *)
(* abort: a finished session stays finished and the key has one owner.        *)
ContractKept == Contract!Spec

(* docs 20.5: a repeated complete returns the same file_id.  It can only if   *)
(* the session that created the file stays completed.                        *)
CompletedStaysCompleted == \A s \in Sessions : file = s => status[s] = "completed"

(* docs 2 and 11: the object a file row describes is made of whole parts. *)
ObjectIsWhole == file # None => \A p \in Parts : object.data[p] \in Contents
=============================================================================
