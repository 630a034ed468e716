# PyuploadX in TLA+

PyuploadX is a file-upload service: a FastAPI application (several nodes behind a
balancer), a PostgreSQL database, a storage backend (a local directory or S3/MinIO),
background workers, a Python SDK and a web portal.  This directory models the parts of
it that keep state, checks them with TLC on small instances, and proves the most
important facts with TLAPS for every instance.  Paths below are relative to the
repository; "docs" is `docs/docs_product-design.md`.

## 1. Inventory

| Component | State | Operations | What makes it correct |
|---|---|---|---|
| Multipart uploads (`app/services/upload_service.py`, `app/storage/*.py`, `db/repositories/*`) | rows of `upload_sessions`, `upload_parts`, `file_objects`; S3 multipart uploads, part files, objects | create, proxy part, presign + direct PUT, commit part, complete, abort, refresh, resume | one file per key; the object is exactly the committed parts; a repeated complete is safe; no lock outlives its request; every request ends |
| Session sweep (`app/services/cleanup_service.py`, `app/worker/cleanup.py`) | ids between its SELECT and UPDATE | expire sessions | abandoned sessions expire; finished ones are left alone |
| Files (`app/services/file_service.py`) | `file_objects`, objects | proxied upload, delete, list, download | a row and its object live and die together; a legal hold protects both |
| Lifecycle policy (`app/lifecycle/policy.py`) | none | merge, check and compute a policy | server limits cannot be bypassed |
| Lifecycle operations (`app/services/lifecycle_service.py`) | lifecycle columns of `file_objects` | update, extend, make permanent, legal hold | the schedule follows the policy |
| Lifecycle worker (`app/worker/lifecycle.py`) | a batch read without locks | delete, notify, skip held files | holds stop deletions; due files are processed; webhooks tell the truth |
| Directory jobs (`app/services/directory_upload_service.py`, `app/directory_upload/*`) | `directory_upload_jobs`, `directory_upload_entries` | add entries, complete manifest, initiate, report, retry, complete, cancel | the manifest is final; a job completes without failed entries; finished is finished |
| Webhook outbox (`app/services/webhook_service.py`) | `webhook_outbox` | enqueue; deliver (no caller) | an event is queued with its cause or not at all |
| Buckets (`app/services/bucket_service.py`, `app/storage/*.py`) | `storage_buckets`, directories or S3 buckets, objects, temporary files | create, delete, list; put an object | bucket rows and storage agree; the object of a file row is what its upload sent |
| Runtime settings (`app/services/setting_service.py`) | `app_settings` | read with the configuration as default; update several keys at once | an accepted update is not lost; a default is one that requests can use |
| SDK (`sdk/pyuploadx`) | thread pools, a cached threshold, local state files | upload of a file (one request or parallel parts) or a directory, sequential and parallel downloads, retries | a call that returns has done what it says; no thread outlives it; it ends |
| Reconciliation, idempotency records | `idempotency_records` (nothing writes any) | reports | |
| Portal (`portal/src/upload/fileUpload.ts`) | the uploads of a browser tab | start, pause, resume, abort | no upload is lost or started twice |
| Authentication, configuration, logging, metrics, Redis, CLI, migrations | none that matters to the above | | |

How they interact: API handlers share nothing in memory.  Each is one database
transaction (READ COMMITTED, `get_db_session` rolls back what the handler did not
commit) with storage calls inside it; handlers meet in rows, row locks and storage.
Workers are other processes on the same database.  The SDK and the portal only call the
API and presigned URLs.

What is hard: transactions that span storage calls which do not roll back; rows read
without `FOR UPDATE` and written later (`proxy_upload_part`, the sweep, `add_entries`,
`retry`, the lifecycle worker); part files rewritten in place while `complete` reads
them; temporary files that two uploads share; crashes between storage and commit; row locks and
unique keys that requests take in different orders, so that part requests of one session, and additions to one
job, can deadlock; two default policies, the runtime one for uploads and the configured one for later changes;
settings that are read, changed and written back; a client that retries what the server may still be doing.  `PROJECT.json` lists every such hazard at its line, with
the properties that would catch it.

## 2. Modules

| Module | Models |
|---|---|
| `UploadContract` | the API's promise about sessions competing for one key: opened once, finished once, at most one owner of the file; implemented by `MultipartUpload` and by `SdkServer` |
| `MultipartUpload` | every handler of `upload_service.py` over rows, row locks and a storage backend, with the sweep and faults; instantiates `UploadContract` with the refinement mapping `Phase`/`file` |
| `MultipartUploadProofs` | its theorems |
| `LifecyclePolicy` | `compute_effective_lifecycle` as operators |
| `FileLifecycle` | extends `LifecyclePolicy`: a file from upload to deletion, lifecycle requests and worker batches |
| `FileLifecycleProofs` | its theorems |
| `DirectoryJob` | one directory job and its requests |
| `DirectoryJobProofs` | its theorems |
| `PartLayout` | how a file is cut into parts and a download into ranges, as operators |
| `PartLayoutProofs` | that both cuts are right for every size |
| `SdkServer` | the API as the SDK meets it: what each request answers and leaves behind, and which local files a request that was given up is still writing |
| `SdkClient` | extends `SdkServer`: the SDK's methods, thread pools and retries over an unreliable network |
| `SdkClientProofs` | its theorems |
| `Buckets` | bucket creation and deletion, and `proxy_upload` down to the file system, over storage and database |
| `BucketsProofs` | its theorems |
| `RuntimeSettings` | extends `Buckets`: PUT /v1/settings over rows and row locks; instantiates `LifecyclePolicy` with the default policy in force |
| `Administration` | `Buckets` and `RuntimeSettings` composed |
| `AdministrationProofs` | its theorems |
| `MC*` | constants and symmetry sets for TLC |

Conventions shared by the state machines of the server:

- Database variables hold *committed* values.  What an open transaction has read or
  will write is in its request record (`req[w]`, for workers `job[x]`), whose field
  `at` names the await it is suspended in.  `lock` has the row locks of open transactions.
- An action is what a handler does between two awaits that other requests can observe.
  A handler that reads and writes one row under its lock, with no other call between,
  is one action.  Rollback, by an error answer or a crash, is `Refuse`/`Fail`.
- Waiting is a guard.  Where transactions can wait for each other in a circle, `Deadlock` is PostgreSQL's detector,
  which ends one of them; the client sees an error.
- Storage variables change when the storage call does, whatever becomes of the
  transaction.
- Clients are unconstrained: any request may arrive in any state, again and again.  That
  is how lost answers, retries and duplicates are covered.

`MultipartUpload`: `status`, `fileId`, `lapsed` (is `expires_at` past), `partRow`,
`file` are the columns of the three tables that matter; `stored`, `live`, `object` are
storage.  Contents are model values and an ETag names the content, so "the bytes of a
part" and "its ETag" coincide; a part file that is being written holds `Torn`, and `Mixed` once requests with
different bytes have written it at the same time.  S3 parts
are replaced atomically (`PartPut`, `DirectPut`); local parts are opened with "wb"
(`PartOpen`) and finished later (`PartWritten`), into an unlinked file when `rmtree` came
between.  Then `upsert_part` takes the row of the part (`PartUpsert`) and `touch_activity` waits for the row of the
session (`PartCommit`).  A proxied part that found the session "initiated" has its row locked before (`PartMark`), so
two uploads of one part can wait for each other (`WaitInCircle`).  A new part's foreign key locks the
session `FOR KEY SHARE`: it goes with an UPDATE of the session, not with the `FOR UPDATE` of `complete` and `abort`.
`complete` is `CompleteLock` (checks under `FOR UPDATE`), `CompleteList`
(storage's parts against the rows), `CompleteStore`, `CompleteRecord` (INSERT of the file and
commit).  The sweep is a SELECT of ids and a later UPDATE by id.  Switches
(`Backend`, `ProxyParts`, `DirectParts`, `HonestETags`, `Sweeping`, `StorageErrors`, `Crashes`)
select the environment of a run.

All sessions and files of a model belong to one tenant: the unique key is (tenant, bucket, object key), and two
tenants of one bucket and key, whose rows do not exclude each other, are not modelled.

`FileLifecycle`: `row` has the columns of `file_objects` the code decides by, `object`
says whose bytes are under the key (`"row"`: those the row describes), `outbox` the event
types queued per file.  Uploads (`UploadStart/Put/Insert`) cover `proxy_upload` and, with
`session`, the file a multipart session leaves, whose policy was computed when the session
was created.  Both take a default from `Defaults`, whatever the runtime settings hold at that time; `Extend` and
`UpdateLifecycle` know only that of the configuration (`Bootstrap`), as `LifecycleService` does.  `UploadPut` replaces whatever is
under the key, and so does `UploadMismatch`, where the client's checksum is wrong: the local store then removes
the object, S3 keeps it.  A worker's batch is `WorkerSelect` (no locks, a snapshot), one of
`WorkerSkip/Notify/Claim` per file in order of `next_action_at`, `WorkerErase`, and `WorkerCommit`;
rows are locked when SQLAlchemy flushes them, before a storage call or at the commit, and
only changed columns are written, so a batch keeps columns others have changed since.
`lifecycle.enabled` is taken to be true and `object_conflict_policy` to be "reject" (the defaults).

`DirectoryJob`: a job's row and the status of each entry.  `complete_manifest`, `complete`
and `cancel` lock the row before they read it; `add_entries`, `retry` and
`mark_entry_result` read first (`AddRead`, `RetryRead`, `MarkCount`) and write when they get
the row lock.  An addition takes three steps more.  `AddOpen` is the SELECT of the existing paths, before which
autoflush writes the new status of a "created" job and so locks its row; `AddInsert` inserts one entry after the other,
in any order, and waits for whoever has inserted the same key or has the job `FOR UPDATE`; `AddCount` writes the
counters and commits.  What waits for what is `WaitsFor`.  The manifest hash is represented by the set of paths it was taken of.  The
statuses "finalizing" and "cancelling" are written and overwritten within one transaction
and never committed; "paused" and "completed_with_errors" are never written.

`SdkClient` takes the other side.  `server` is a record that the functions of `SdkServer` change, one
whole request at a time (the interleavings inside a handler are those of the modules above; what
`SdkServer` answers is their answers for one client and one key).  One interleaving reaches the client: on the local store a
request it has given up may have opened a part's file, or the temporary file of the object, and not yet
written it (`OpenLate`, `writing`); whoever assembles or writes the object meanwhile may store an object with bytes missing
(`Torn`).  A second `complete` of a session waits for the first.  `main` is the calling thread, `worker` the threads of a pool,
`late` the requests the client has given up and the server may still execute, at any later time
or never.  A call is answered by the server, answered by a gateway (a status `retry` may retry), or breaks
off.  `_request` and the part upload retry separately, so a part is tried up to `MaxAttempts` times
`MaxAttempts`; connection errors of the HTTP client are not among those `retry` names and are raised at
once.  A directory has three kinds of names: ordinary ones, `unsafe` ones the server refuses, and `renamed` ones that
normalization changes, whose file `upload_file` then does not find.  The ids are fetched page by page.  A file is the sequence of the positions of its bytes: it is stored right when
every position is in its place, whatever the sizes.

`Buckets`: `dirs` are the buckets in storage, `path` says which file a path stands for and `inode` whose
bytes that file holds, so that a file written through an open descriptor after its name was replaced
is told from a new one.  A key is a stem and a number of ".tmp" suffixes, because the temporary name of
one object is the object of another key.  On the local store a put is `PutOpen` (mkdir with parents),
`PutTruncate` (open "wb"), `PutWrite`, `PutReplace`; on S3 it is `PutSend`.  `DeleteRemove` (the check that the bucket is empty and
its removal) is one step, as is the check and creation of `CreateStore`.  Requests that are
refused at their first check change nothing and are left out.

`RuntimeSettings`: `setting` has the committed rows, `writer` the transaction that holds a row, and
each update its own values until `Commit`.  The fields are validated and flushed one by one in the order of
the code, whatever their order in the body.  The default bucket, one number and the default policy
stand for the eight keys.

## 3. Runs

| Run | Instance | Question and result |
|---|---|---|
| `upload_s3` | 1 session, 2 requests, 2 parts, 2 contents, both modes, sweep, storage errors, crashes | a file row is only written over the object assembled from exactly the committed parts, and nothing changes that object later; locks are not leaked; storage is completed at most once; every request ends, those that deadlock over a part's row included |
| `upload_local` | 1 session of 1 part, 2 requests, 2 contents, local storage, sweep, storage errors, no crashes | which half-written part files can exist, also where two requests write different bytes; only the sweep or a stale part request takes a session out of "completed"; lapsed sessions expire |
| `upload_contract` | 2 sessions for one key, presigned parts, storage errors, crashes | `MultipartUpload` implements `UploadContract`; the two rows `complete` writes never disagree |
| `lifecycle` | 1 file on the local store, 2 requests, 2 workers, two default policies, wrong checksums, storage errors, crashes | a deletion keeps what it checked until it commits; a row is "deleted" only without its object; events and rows agree; the schedule follows the policy; a held object is only lost to a worker that read the file before the hold, or to a rival upload let in before the file was there |
| `lifecycle_batch` | 2 files, 1 request, 1 worker with batches of 2, storage errors | a due file that is not held does not stay due |
| `directory` | 2 paths, 2 requests, crashes | counters never exceed the rows; a job is uploading or completed only past its manifest; it completes with no failed entry; a finished job is reopened only by a request that read it before; every request ends, additions that wait for each other's keys included |
| `sdk` | files of 0 and 4 bytes in parts of 3, both backends, directories of 2 files in batches and pages of 1, 2 or 3 download threads, 2 attempts, 2 uploads, a threshold that changes | a call that returns has stored, or fetched, every byte in its place, but for a file on the local store one of whose requests was given up while it was writing; a directory returns only with every file stored and its job completed; threads are joined; a call raises only after a fault, but for the named cases; every call ends |
| `buckets` | 3 requests of 2 tenants, a configured and an ordinary bucket, keys "x" and "x.tmp", both backends, failures anywhere | which file rows may describe other bytes than their upload's; rows, tenants and buckets in storage fall apart only in the ways named |
| `administration` | 1 update of the settings and 1 request about buckets, or 2 updates | a default policy that accepted updates have led to admits uploads, but for two named modes and what the configuration itself got wrong; an acknowledged policy is lost to an overlapping update only; the default bucket is somebody's or was deleted; updates never wait for each other |

Three runs end in a violation, each showing a disagreement between the code and what its
documents say (`findings` in `PROJECT.json` quotes them):

| Run | What TLC shows |
|---|---|
| `upload_sweep_race` | the sweep's UPDATE marks a session expired that `complete` finished after the sweep's SELECT; a repeated `complete` is then refused |
| `upload_late_retry` | on local storage, a late retry of a committed part truncates its file while `complete` concatenates |
| `lifecycle_hold_race` | a legal hold committed after the worker's SELECT does not stop the deletion |

Three more of the kind are in the models and have no run of their own: a part committed by its ETag and never
stored is missing from the object (`upload_contract` admits it, with `HonestETags = FALSE`); a
multipart file's TTL runs from its session's creation; entries can be added to a manifest
that has just been finalized.

Bounds.  Two requests give every pair of handlers at every pair of suspension points, in
any order, and any handler may run again later; three-way races among handlers of
one session are not explored.  Two parts are needed for "some but not all" of everything `complete`
checks; two contents make a replaced part visible.  `upload_local` is about the bytes of one part file, so one
part with two contents suffices; with the part's row and the writers taken apart, two parts on the local store are out of TLC's time.  One file is enough for `lifecycle`, whose
actors meet in one row; `lifecycle_batch` has two so that order within a batch and the flush of
an earlier file matter.  `Horizon = 1` is one tick: due or not due.  The
uploads' default deletes after one tick, the configuration's keeps for two and does nothing: an update or extension that takes the
wrong one shows.  `Requests` and
`Extensions` hold a default policy, a notification at a date, an extension, and `MakePermanent` and
holds come on top.  Sizes 0 and 4 with parts of 3 give the empty part, a full one and the short last part; the
exact fit is in the theorems about `PartLayout`.  2 and 3 threads for 4 bytes give ranges of equal and of
different length.  `Batch = 1` and `PageSize = 1` give two batches and two pages.  A directory without entries is
`MaxFiles = 0`: the same configuration passes with it, and the theorems cover it.  Two attempts at each of two levels distinguish "the first", "a retry" and "the last".
Three bucket requests are a deletion, a creation and an upload of one name at once, or two
uploads and what takes the bucket from under them; the tenants are symmetric.  The patches of `administration` set one
field each, and the configuration's default has a TTL below its own minimum.  `Mixes` bounds
how many requests of each kind `administration` serves; both counts at 2 are out of TLC's time.  `upload_s3` and `upload_local` have one session per key; with two, the
second completion replaces the first one's object before its own INSERT fails, so `FileStable`
does not hold (hazard `upload_service.py:506`).

Deadlock checking is off where the modelled objects really come to rest: an aborted session,
a key left with an object no row describes, a cancelled job without entries.

Fairness.  An asyncio event loop resumes every request whose await is over, and PostgreSQL
queues the waiters of a row lock: strong fairness of the steps of a request (`Step`), and of
a worker's loop, which comes round for ever.  PostgreSQL looks for deadlocks whenever somebody has waited for
`deadlock_timeout`: weak fairness of `Deadlock`, without which `EveryRequestEnds` holds neither for
part requests nor for additions.  Weak fairness of an update of the settings suffices
for `EveryUpdateEnds`, because an update that waits for a row waits for one that
waits for nobody.  For the SDK, weak fairness of its next step: every attempt is bounded by the HTTP
client's timeout.  Nothing obliges a client to send a request, the
clock to reach a deadline, or a fault to happen.

Each property is tested by a mutant, defined next to the operator it changes and listed in
`PROJECT.json`; under its run's configuration TLC finds the property violated.

## 4. Proofs

All theorems are for arbitrary sets of sessions, handlers, parts, contents, files, workers,
paths, tenants, names, sizes, threads and attempts, both backends and every combination of the fault switches, unless the theorem
itself assumes otherwise.  The assumptions on the constants are
`ConstantsAssumption`, `PolicyAssumption`, `LifecycleAssumption`, `DirectoryAssumption`, `BucketsAssumption`,
`SettingsAssumption`, `ServerAssumption` and `ClientAssumption`.

`MultipartUploadProofs`:

- `TypeCorrect` (`TypeOK`).  Types alone are not inductive: a step of `complete` needs to know that
  its request names a session.  The invariant proved is `Typing`, `TypeOK` with `RequestShape`: whoever
  is past its first step names the session, part or list it works on.
- `LockSafe` (`LockDiscipline`).  Each step acquires a free lock, keeps what it has, or ends and
  releases everything (`LockTaken`, `LockKept`, `LockReleased`); `LockStep` says which of the three
  every handler does.
- `FileSafe` (`OneFilePerKey`), on either backend and with every fault, several sessions included.
- `CompletedSafe` (`CompletedOnce`) and `ReopeningSafe` (`ReopenedOnlyByStaleWriters`) share the invariant
  `Progress`, which needs `LockDiscipline`: a session about to be inserted has no other request (`Unborn`), every
  later request and the sweep found its row (`Born`), while `complete` and `abort` hold the lock the session stays active
  (`Open`), and an upload completed in storage is gone from there on (`Consumed`).  That last part is
  why a session that a stale writer reopens is still not completed twice.  `CompletedSafe` assumes S3: a local session has
  no upload that could be used up, and one that a stale writer reopened may be completed again.
- `WritersSafe` (`TornIsBeingWritten`) assumes that nothing crashes: a crash leaves half a part behind.  Its
  invariant adds `LinkedWrites`: only a request at its write on the local store has a file under a name.
- `ContractImplemented` (`ContractKept`): the refinement, step by step, assuming presigned parts and no sweep.
  `NobodyLate` says that then no request waits to write a status it read before; with either of the two the
  implication is false, which is what `ReopenedOnlyByStaleWriters` and `upload_sweep_race` are about.
- `ReplacementSafe` and `MixingSafe`, for any number of sessions of a key, assume `OnS3`: S3 and clients that commit the
  ETags storage gave them.  `PartsStored` says that a live upload has every part that is or will be committed; `Followed`
  follows `complete` from the list of parts (what it has listed are the committed rows) to the object.  So whatever
  replaces the object is a completion under its session's row lock, and puts that session's committed parts there;
  two sessions never mix.
- `RivalSafe` assumes S3 only, and any clients.  It bounds the hazard of `upload_service.py:506` from above: the object of a
  recorded file changes by the completion of *another* session of its key, and by nothing else (from `Progress`,
  whose `Consumed` says that the session that made the file has no upload left to complete).
- `CompletionSafe` (`CompletedIsCommitted`) and `ObjectSafe` (`FileStable`) assume `Alone`: `OnS3` and one session of the
  key.  `Assembled` carries `Followed` on from the object to the row of the file.  With the local
  store, or with two sessions, the properties do not hold in general (section 3).
- `CirclesSafe` (`CirclesArePairs`): part requests may wait in a circle, but only two at a time, one that marked the session and one
  that has written the same part; whoever waits behind them waits for one who works or for such a pair (`WaitsFor` says for whom a request
  waits).  `RequestsAreBounded`: every step
  of a request brings it nearer to its answer, in at most five steps, and nobody else sets it back.

`FileLifecycleProofs`:

- `RetentionBounds`, about the operators of `LifecyclePolicy`: whatever is asked for, and whatever the default policy, an accepted policy
  respects the minimum retention, the maximum TTL and the ban on permanent files.
- `TypeCorrect`; the invariant adds `Busy` (who works on a file names it).
- `ScheduleSafe` (`ScheduleFollowsPolicy`), strengthened to keys without a row (`AllScheduled`), since an
  insertion starts from `NoRow`.
- `DeletionSafe` (`DeletionChecksHold`): inductive with `Typing`, because every writer of a row needs
  its lock.
- `ErasedSafe` (`DeletedIsErased`).  It needs `Erasure`: what a request or a worker that is about to write
  "deleted" knows of the object, and that the files of a batch have rows; and `DeletionChecksHold`, to
  know that the row of an erased object cannot be inserted anew (`ObjectsGone`, `RowsStay`).
- `OutboxSafe` (`OutboxTellsTheTruth`), from `Typing` alone.
- `HoldSafe` (`HeldObjectSurvives`, an action property): from `LosingStep`, which lists the steps that take a described object out of
  storage, `DeletionChecksHold` for the API and `Claimed` for workers.  What is left are workers with an older snapshot and rival uploads.
- `RetentionSafe` carries `RetentionBounds` from the operators to the rows: a committed row is permanent only where the
  server permits it, has a TTL within the server's bounds, and a deadline one TTL after a moment no later than its completion.
  The invariant `Entitled` is about rows and about uploads that hold a policy, granted at a base not later than now.  For a
  multipart file that base is the creation of its session, so the deadline may be less than the minimum after the completion.
- `ExtensionLoses` (`ExtensionIsARenewal`): every accepted `extend`, whatever its seconds, writes the policy of a request that asked for
  nothing.  The new deadline is one TTL after the file's completion, and with `allow_client_override` off the TTL, the mode and the action
  are the configuration's.
- `ErasureIsDue` (`ErasedWhenDue`, an action property): apart from a client's deletion and a rival upload that replaces or removes
  it, an object that a row describes is taken from storage
  only by a worker whose snapshot has the file due, to be deleted and not held.

`DirectoryJobProofs`, for any finite set of paths:

- `TypeCorrect`.
- `CountersSafe` (`CountersNeverExceedRows`): inductive with the fact that what an open `add_entries` has read
  is still a lower bound of the rows (`ReadsAreBounds`), as rows are never deleted (`PresentGrows`).
- `SealedSafe` (`UploadingIsSealed`), `CompletionSafe` (`CompletionIsClean`) and `ReopeningSafe`
  (`ReopenedOnlyByStaleRequests`) share `SealedForGood`: a pending `retry` has seen the job sealed, and while
  `complete` holds the row lock the job stays "uploading" and no entry fails (`FinalizingExcludes`).
- `LocksSafe` (`RowLocksAreExclusive`) and `ReportsSafe` (`ReportsAreSerial`): only a completion, and an addition that found the job
  "created", keep its row over an await; a report keeps the row of its entry, an addition the keys it has inserted
  (`KeysAreOwned`), and nobody else changes a reported entry until its report commits.  Both need
  `Reported`: only entries with a row are reported.
- `CirclesSafe` (`CirclesAreAdditions`): a circle of waiting requests has two additions in it, one of which waits for a key
  of the other.  Everything else a client can send never deadlocks.

`BucketsProofs`, for any requests, tenants, names and keys, either backend:

- `TypeCorrect`, with `RequestShape` as above.
- `RowsBacked` (`RowsAreBacked`), `TenantsApart` (`OneTenant`) and `BucketsOwned` (`BucketsAreOwned`) are inductive only
  together (`Backed`).  The link is a creation between its bucket and its row: `InsertsAreBacked` says
  that its bucket is there or was removed meanwhile, that a row of its name already has lost its bucket, and
  that two such creations have a removal between them.  `IdsAreDone` says that a deletion cannot have
  read a row whose creation is not over, so a removal that excuses the old row excuses the
  new one too.  `StepAffects` reduces the thirteen steps to the five things they do to buckets and rows.
- `FilesWhole` (`FilesAreWhole`) from `Written`, which has to speak of uploads that are still under way and of
  files that are shared.  `Disturbed` is the excuse of the property: another upload has opened a file under a name of
  this one's; it lasts (`DisturbedForLong`).  `Placed`: a file under a name is that of an upload using the name,
  or is disturbed; so whoever finds a file in its way disturbs its owner (`FoundIsShared`).  `Shared`: an upload that writes
  into a file it did not make disturbs it.  `Claimed`: whoever is not disturbed has its own file where it
  thinks, with what it has written so far (`Sure`).  `OthersSure` shows once that a local write of one upload leaves
  the undisturbed others alone; the rest is one lemma for each step that writes.

`PartLayoutProofs`, about the operators of `PartLayout`, for every file size, part size and number of
workers: `PartsAreTheFile` (the parts put one after another are the file, and all but the last have the part
size) and `RangesAreTheObject` (each range request is satisfiable, is answered with exactly its bytes, and the
answers are the object).  Concatenation is a recursive function, about which an induction would be needed: the proof
takes the first number of parts for which the claim fails, which `Smallest` says exists, and `PartExtends`
shows that the claim passes from one number of parts to the next.

`SdkClientProofs`, for any sizes, thresholds, batches, numbers of files, threads, attempts and repeated uploads.
All its theorems rest on one invariant, `ClientInv`, in two halves:

- The server.  `Proper` says what a request of the SDK is: a part carries the bytes of its number, an
  "uploaded" result is about a file that is stored, a job is finished when each of its files is stored or known to have failed.
  `Sound` says what the server then is between requests: a part that is there is right, so what `complete` assembles is the
  file (`PartsAreTheFile`); a sealed job lists every file; a completed one has stored them all.  `ServedIsSound` shows both
  kept by any proper request, and that nothing the client has relied on is taken back (`Grown`).  That is why requests served
  late are harmless: what was proper when it was sent stays proper (`ProperForLong`, `LateIsProper`).  Requests that are still
  writing are not: `FaultsShow` says that an object with bytes missing, and a file that is being written, are on the local
  store and after a call without an answer, so a call whose requests were all answered has stored the whole file.
- The client.  `Informed` says what the calling thread and its pool know at each step of the three methods (`FileKnown`,
  `DirectoryKnown`, `DownloadKnown`), that sessions are left for another run, and `PoolJoined` that threads exist only while
  they are waited for.
- `TypeCorrect`, `ReturnedFileSafe`, `ReturnedDirectorySafe`, `ReturnedDownloadSafe` and `PoolSafe` follow from it
  (`ReturnedDownloadSafe` with `RangesAreTheObject`).
- `RaisesSafe` (`RaisesOnlyAfterFaults`) needs `OnCourse` besides: as long as the call is `Undisturbed` (no fault, the first
  run, nothing the server refuses by rule), the server is exactly where the method expects it, as in "the entries listed are those
  of the batches before this one"; so it accepts the next request (`MainIsServed`, `WorkerIsServed`).  `NextSteadily`
  shows that a call that is undisturbed after a step was so before it.
- `SdkKeepsContract` ties the two levels together: `SdkServer`, whose requests are whole transactions, implements
  the same `UploadContract` as `MultipartUpload`, whose handlers interleave.  A session's phase is its status there
  (`PhaseOf`), the owner is the session that is completed (`Owner`).  It needs that a completed session excludes another one (`AtMostOne`).
- `CallsAreBounded` (`CallsAdvance`): every step of a method leaves fewer calls to make, or as many calls and fewer
  attempts.  An upload or download makes at most three calls for a file, one for a batch, one for a page of ids, and six more (the threads of
  a pool together count as one), each request of at most `MaxAttempts` times `MaxAttempts` attempts; no answer, lost answer or dead thread starts any of them again.

`AdministrationProofs`, for the composition of the settings with the buckets:

- `DeploymentTypeCorrect` (`TypeOK`).
- `DefaultBucketSafe` (`DefaultBucketWasOwned`) and `DefaultPolicySafe` (`DefaultIsAcceptable`) from `SettingsSound`: what is
  committed, and what an update has validated and may commit, names a bucket that is `Known` (configured, somebody's, or
  deleted by a request) and a policy that is `WithinLimits`.  A bucket stays known through every step of
  the buckets (`KnownForLong`, from the frames of `BucketsProofs`), and merging one validated field into a policy keeps it
  within the limits.  Nothing validates the configuration's own default, and nothing is assumed of it: a field that is still the
  configuration's and out of the limits is named (`Unvalidated`).
- `PolicyLossesExplained` (`PolicyLostOnlyToOverlap`) from `Fate`, which follows each update from what it read to what it
  commits.  What an update has seen has ended.  What it made is what it asks for and, in the other field, what those
  it saw asked for, unless one of them was overlapped (`MadeAsSeen`).  What is acknowledged, or was found
  written already, is in force or overlapped (`Acknowledged`).  An overlap lasts (`OverlappedForLong`).

- `UpdatesNeverDeadlock` (`WaitsAreOrdered`): an update waits only for one that is further through the fields, which every
  request writes in one order (`WritersGoAhead`).  `UpdatesAreBounded` (`UpdatesAdvance`): every step of an update
  leaves less of it, ten steps at most.

Theorems without a run of their own (the limits of rows, the extension, erasure, several sessions on S3, waiting and bounded steps, the
SDK's contract) state their properties in the proof modules; each was checked with TLC on an instance of its module before it was proved.

Only model-checked.  Liveness (`EveryRequestEnds`, `LapsedSessionExpires`, `DueFileIsProcessed`, `EveryCallEnds`,
`EveryUpdateEnds`) needs ENABLED and fairness reasoning out of this prover's reach.  What fairness cannot supply is proved for the requests of
`MultipartUpload`, the updates of the settings and the calls of the SDK: whoever is waited for can go on, and every
step is progress in a measure with a least value.  That a step is *enabled* whenever one is due stays with TLC, and so do
`LapsedSessionExpires` and `DueFileIsProcessed` as a whole, which rest on the fairness of the workers' loops.

## 5. Not modelled

- Reads that change nothing (get, list, resume, presigned downloads); wording, logging, metrics and audit
  events; checksums of parts.
- `deliver_due`, `cleanup_local_multipart_dirs` and the idempotency store, which nothing calls or fills; the
  reconciliation of the command line, which reports and changes nothing; configuration and authentication, which
  keep no state that requests share.
- Normalization of paths: it works on the characters of a string.  Object keys are
  model values, or a stem and its ".tmp" suffixes where two names can meet.
- The SDK's state database, which is written and never read back under the id it was written with, and
  its asynchronous client, which sends the same requests one by one.
- Two tenants that use one key of one bucket (section 2), and multipart completions among the uploads of `Buckets`: their temporary
  name is that of the proxied uploads of the key, so they would disturb each other as those do.
- What the walk of a directory raises before the first request (a path that is no directory, a symbolic link), and the entries for
  directories.
- The portal: its requests are those of the modelled handlers, and what is hard in it (a pause that races
  a part that has just finished) depends on how a browser schedules React state and fetch.
- Six of the eight setting keys one by one: they are validated, flushed and committed like the one number of
  `RuntimeSettings` that stands for them.

## 6. Plan

Done: multipart uploads with their contract and its refinement, the lifecycle of files with its
worker, directory jobs, buckets and the writing of objects, the settings composed with the
buckets, the SDK against the server it calls, the layout of parts and ranges, and the theorems of section 4.

Left: `MultipartUpload` and `FileLifecycle` composed, with a clock for the policy of a multipart file and a deletion between two
completions of one key; that `MultipartUpload`'s handlers answer as the functions of `SdkServer` do, beyond the contract they
share; a bound on the batches a due file waits for, without held files in front of it.
