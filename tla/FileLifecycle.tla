---------------------------- MODULE FileLifecycle ----------------------------
(***************************************************************************)
(* A file from the moment its row is written to its deletion: the row in    *)
(* file_objects, the object in storage, the API requests of file_service.py *)
(* and lifecycle_service.py, and the batches of the lifecycle workers        *)
(* (app/worker/lifecycle.py), of which a cluster runs several.              *)
(*                                                                          *)
(* `row' holds committed values and `lock' the row locks of open             *)
(* transactions.  Requests that read and write one row under its lock with  *)
(* no other call in between are single steps; uploads, deletions and worker  *)
(* batches call storage while their transaction is open and are not.         *)
(***************************************************************************)
EXTENDS LifecyclePolicy, FiniteSets

CONSTANTS
  Backend,       \* "local" or "s3"
  Files,         \* object keys of one tenant; each can have one row of file_objects
  Handlers,      \* uploads and deletions being served
  Workers,       \* lifecycle workers
  BatchSize,     \* lifecycle.worker.batch_size
  Horizon,       \* bound: the clock stops here
  Defaults,      \* bound: the default policies of the runtime settings
  Bootstrap,     \* lifecycle.default_policy of the configuration
  Requests,      \* bound: the policies clients ask for
  Extensions,    \* bound: the extend_seconds clients ask for
  StorageErrors, \* TRUE: storage calls may fail
  Crashes        \* TRUE: processes may crash, transactions may be cancelled

ASSUME LifecycleAssumption ==
  /\ Backend \in {"local", "s3"}
  /\ BatchSize \in Nat \ {0} /\ Horizon \in Nat
  /\ Defaults \subseteq DefaultPolicies /\ Bootstrap \in DefaultPolicies
  /\ Requests \subseteq PolicyRequest /\ Extensions \subseteq Nat \ {0}
  /\ {StorageErrors, Crashes} \subseteq BOOLEAN
  /\ None \notin Files \union Handlers \union Workers
  /\ None \notin {"row", "stray", "deleted", "deleting", "expired"}
  /\ (Handlers \union Workers) \intersect {"row", "stray"} = {}
  /\ Handlers \intersect Workers = {}

VARIABLES
  now,
  row,     \* file_objects, by key
  lock,    \* holder of the row lock of each row, or None
  object,  \* storage: nothing, the object "row" describes, one put by an
           \* upload that is still running, or a "stray" one no row describes
  outbox,  \* webhook_outbox: the event types queued for each file
  req,     \* one record for each upload or deletion being served
  job      \* one record for each worker: its batch

vars == <<now, row, lock, object, outbox, req, job>>

Lives  == {"active", "expired", "deleting", "deleted"}
Times  == Int \union {None}
Row == [status : {"none", "active", "deleted"}, life : Lives,
        mode : Modes, action : Actions, ttl : Times, expires : Times,
        next : Times, hold : BOOLEAN, completed : Int]

NoRow == [status |-> "none", life |-> "active", mode |-> "permanent",
          action |-> "none", ttl |-> None, expires |-> None, next |-> None,
          hold |-> FALSE, completed |-> 0]
NoPolicy == [mode |-> "permanent", action |-> "none", ttl |-> None, expires |-> None]

Idle == [at |-> "idle", f |-> None, policy |-> NoPolicy, base |-> 0, session |-> FALSE]
Request == [at : {"idle", "put", "insert", "erase", "erased"}, f : Files \union {None},
            policy : Policy, base : Int, session : BOOLEAN]

Outcomes == {"deleted", "deleting", "expired"}
NoOutcome == [f \in Files |-> None]
(* What a worker's SELECT read of a row, as far as it is used. *)
Seen == [hold : BOOLEAN, action : Actions, next : Times]
NothingSeen == [hold |-> FALSE, action |-> "none", next |-> None]
NoJob == [at |-> "idle", todo |-> {}, f |-> None, snap |-> [f \in Files |-> NothingSeen],
          out |-> NoOutcome]
Job == [at : {"idle", "scan", "erase"}, todo : SUBSET Files, f : Files \union {None},
        snap : [Files -> Seen], out : [Files -> Outcomes \union {None}]]

TypeOK ==
  /\ now \in Nat
  /\ row \in [Files -> Row]
  /\ lock \in [Files -> Handlers \union Workers \union {None}]
  /\ object \in [Files -> Handlers \union {None, "row", "stray"}]
  /\ outbox \in [Files -> SUBSET {"lifecycle.delete", "lifecycle.notify"}]
  /\ req \in [Handlers -> Request]
  /\ job \in [Workers -> Job]

Init ==
  /\ now = 0
  /\ row = [f \in Files |-> NoRow]
  /\ lock = [f \in Files |-> None]
  /\ object = [f \in Files |-> None]
  /\ outbox = [f \in Files |-> {}]
  /\ req = [w \in Handlers |-> Idle]
  /\ job = [x \in Workers |-> NoJob]

-----------------------------------------------------------------------------

Exists(f) == row[f].status # "none"
Free(f) == lock[f] = None

Released(a) == [f \in Files |-> IF lock[f] = a THEN None ELSE lock[f]]

(* What an ended upload w put under a key and did not register is nobody's. *)
Abandoned(w) == [f \in Files |-> IF object[f] = w THEN "stray" ELSE object[f]]

Refuse(w) ==
  /\ req' = [req EXCEPT ![w] = Idle]
  /\ lock' = Released(w)
  /\ object' = Abandoned(w)
  /\ UNCHANGED <<now, row, outbox, job>>

(* _apply: the policy's columns and the time of the next action. *)
WithPolicy(r, policy) ==
  [r EXCEPT !.mode = policy.mode, !.action = policy.action, !.ttl = policy.ttl,
            !.expires = policy.expires,
            !.next = IF policy.action = "none" THEN None ELSE policy.expires]

-----------------------------------------------------------------------------
(* Uploads.  proxy_upload decides the policy and completed_at when it starts; *)
(* a multipart session decides the policy when it is created and completed_at  *)
(* when it is completed (`session').  Both take the default that the runtime   *)
(* settings hold at that time.                                                *)

UploadStart(w, f, r) ==
  /\ req[w].at = "idle"
  /\ object[f] = None
  /\ \E d \in Defaults, session \in BOOLEAN :
       /\ Acceptable(d, r, now)
       /\ req' = [req EXCEPT ![w] = [at |-> "put", f |-> f, policy |-> Effective(d, r, now),
                                     base |-> now, session |-> session]]
  /\ UNCHANGED <<now, row, lock, object, outbox, job>>

(* Whatever is under the key by now is replaced. *)
UploadPut(w) ==
  /\ req[w].at = "put"
  /\ \/ /\ object' = [object EXCEPT ![req[w].f] = w]
        /\ req' = [req EXCEPT ![w].at = "insert"]
        /\ UNCHANGED <<now, row, lock, outbox, job>>
     \/ StorageErrors /\ Refuse(w)

(* put_object finds the client's checksum wrong when the object has already    *)
(* been replaced: LocalStorage removes the key, S3Storage leaves it.          *)
UploadMismatch(w) ==
  /\ req[w].at = "put" /\ ~req[w].session
  /\ object' = [object EXCEPT ![req[w].f] = IF Backend = "local" THEN None ELSE "stray"]
  /\ req' = [req EXCEPT ![w] = Idle]
  /\ UNCHANGED <<now, row, lock, outbox, job>>

(* The unique key of file_objects refuses a key that ever had a row. *)
UploadInsert(w) ==
  LET r == req[w]
      f == r.f
      created == [NoRow EXCEPT !.status = "active",
                               !.completed = IF r.session THEN now ELSE r.base]
  IN
  /\ req[w].at = "insert"
  /\ \/ /\ ~Exists(f)
        /\ row' = [row EXCEPT ![f] = WithPolicy(created, r.policy)]
        /\ object' = [object EXCEPT ![f] = IF @ = w THEN "row" ELSE @]
        /\ req' = [req EXCEPT ![w] = Idle]
        /\ UNCHANGED <<now, lock, outbox, job>>
     \/ Exists(f) /\ Refuse(w)

(* DELETE /v1/files: under the row lock, storage first, then the row. *)

DeleteLock(w, f) ==
  /\ req[w].at = "idle"
  /\ Free(f)
  /\ row[f].status = "active" /\ ~row[f].hold
  /\ lock' = [lock EXCEPT ![f] = w]
  /\ req' = [req EXCEPT ![w] = [Idle EXCEPT !.at = "erase", !.f = f]]
  /\ UNCHANGED <<now, row, object, outbox, job>>

DeleteErase(w) ==
  /\ req[w].at = "erase"
  /\ \/ /\ object' = [object EXCEPT ![req[w].f] = None]
        /\ req' = [req EXCEPT ![w].at = "erased"]
        /\ UNCHANGED <<now, row, lock, outbox, job>>
     \/ StorageErrors /\ Refuse(w)

\* Mutant: deletion leaves a state the enumeration does not have.
DeleteCommitExpires(w) ==
  /\ req[w].at = "erased"
  /\ row' = [row EXCEPT ![req[w].f].status = "expired", ![req[w].f].life = "deleted"]
  /\ req' = [req EXCEPT ![w] = Idle]
  /\ lock' = Released(w)
  /\ UNCHANGED <<now, object, outbox, job>>

DeleteCommit(w) ==
  /\ req[w].at = "erased"
  /\ row' = [row EXCEPT ![req[w].f].status = "deleted", ![req[w].f].life = "deleted"]
  /\ req' = [req EXCEPT ![w] = Idle]
  /\ lock' = Released(w)
  /\ UNCHANGED <<now, object, outbox, job>>

Fail(w) ==
  /\ Crashes
  /\ req[w].at # "idle"
  /\ Refuse(w)

-----------------------------------------------------------------------------
(* Requests that change one row under its lock.  None of them looks at        *)
(* status or lifecycle_status, and LifecycleService knows only the default     *)
(* policy of the configuration.                                              *)

Write(f, r) ==
  /\ Exists(f) /\ Free(f)
  /\ row' = [row EXCEPT ![f] = r]
  /\ UNCHANGED <<now, lock, object, outbox, req, job>>

UpdateLifecycle(f, r) ==
  /\ ~row[f].hold
  /\ Acceptable(Bootstrap, r, row[f].completed)
  /\ Write(f, WithPolicy(row[f], Effective(Bootstrap, r, row[f].completed)))

(* extend asks for the same mode and TTL and a later expires_at; for every    *)
(* mode it accepts, the policy is computed from the TTL alone.                *)
Extend(f, seconds) ==
  LET r == [mode |-> row[f].mode, action |-> row[f].action, ttl |-> row[f].ttl,
            expires |-> row[f].expires + seconds]
  IN
  /\ row[f].mode \in TtlModes
  /\ Acceptable(Bootstrap, r, row[f].completed)
  /\ Write(f, WithPolicy(row[f], Effective(Bootstrap, r, row[f].completed)))

\* Mutant: the scheduled action is not cancelled.
MakePermanentKeepsAction(f) ==
  /\ PermanentAllowed /\ ~row[f].hold
  /\ Write(f, [WithPolicy(row[f], NoPolicy) EXCEPT !.next = row[f].next])

MakePermanent(f) ==
  /\ PermanentAllowed /\ ~row[f].hold
  /\ Write(f, WithPolicy(row[f], NoPolicy))

\* Mutant: the row is read without FOR UPDATE and written back at once.
SetHoldUnlocked(f, hold) ==
  /\ Exists(f)
  /\ row' = [row EXCEPT ![f].hold = hold]
  /\ UNCHANGED <<now, lock, object, outbox, req, job>>

SetHold(f, hold) == Write(f, [row[f] EXCEPT !.hold = hold])

-----------------------------------------------------------------------------
(* A worker's batch: one transaction.  The SELECT takes no locks, and what it *)
(* read (`snap') decides everything.  Changes to a row are sent to the         *)
(* database, which locks it, at the flush before a storage call or at the     *)
(* commit; only changed columns are written.                                  *)

Due(f) ==
  /\ row[f].status = "active" /\ row[f].life = "active"
  /\ row[f].next # None /\ row[f].next <= now

Dirty(x) == {f \in Files : job[x].out[f] # None}
MayLock(x, F) == \A f \in F : lock[f] \in {None, x}
Flushed(x, F) == [f \in Files |-> IF f \in F THEN x ELSE lock[f]]

Snapshot(batch) ==
  [f \in Files |-> IF f \in batch
                     THEN [hold |-> row[f].hold, action |-> row[f].action, next |-> row[f].next]
                     ELSE NothingSeen]

WorkerSelect(x) ==
  LET due == {f \in Files : Due(f)} IN
  /\ job[x].at = "idle"
  /\ \E batch \in SUBSET due :
       /\ batch # {}
       /\ Cardinality(batch) <= BatchSize
       /\ batch = due \/ Cardinality(batch) = BatchSize
       /\ \A f \in batch, g \in due \ batch : row[f].next <= row[g].next
       /\ job' = [job EXCEPT ![x] = [NoJob EXCEPT !.at = "scan", !.todo = batch,
                                               !.snap = Snapshot(batch)]]
  /\ UNCHANGED <<now, row, lock, object, outbox, req>>

(* The file of the batch whose turn it is, by next_action_at. *)
Turn(x, f) ==
  /\ job[x].at = "scan" /\ f \in job[x].todo
  /\ \A g \in job[x].todo : job[x].snap[f].next <= job[x].snap[g].next

(* A held file only gets a "lifecycle.blocked" event. *)
WorkerSkip(x, f) ==
  /\ Turn(x, f) /\ job[x].snap[f].hold
  /\ job' = [job EXCEPT ![x].todo = @ \ {f}]
  /\ UNCHANGED <<now, row, lock, object, outbox, req>>

\* Mutant: a notified file stays active.
WorkerNotifySilently(x, f) ==
  /\ Turn(x, f) /\ ~job[x].snap[f].hold /\ job[x].snap[f].action = "notify"
  /\ job' = [job EXCEPT ![x].todo = @ \ {f}]
  /\ UNCHANGED <<now, row, lock, object, outbox, req>>

WorkerNotify(x, f) ==
  /\ Turn(x, f) /\ ~job[x].snap[f].hold /\ job[x].snap[f].action = "notify"
  /\ job' = [job EXCEPT ![x].todo = @ \ {f}, ![x].out[f] = "expired"]
  /\ UNCHANGED <<now, row, lock, object, outbox, req>>

\* Mutant: the legal hold is not looked at.
WorkerClaimHeld(x, f) ==
  /\ Turn(x, f) /\ job[x].snap[f].action = "delete"
  /\ MayLock(x, Dirty(x) \union {f})
  /\ lock' = Flushed(x, Dirty(x) \union {f})
  /\ job' = [job EXCEPT ![x].at = "erase", ![x].f = f]
  /\ UNCHANGED <<now, row, object, outbox, req>>

WorkerClaim(x, f) ==
  /\ Turn(x, f) /\ ~job[x].snap[f].hold /\ job[x].snap[f].action = "delete"
  /\ MayLock(x, Dirty(x) \union {f})
  /\ lock' = Flushed(x, Dirty(x) \union {f})
  /\ job' = [job EXCEPT ![x].at = "erase", ![x].f = f]
  /\ UNCHANGED <<now, row, object, outbox, req>>

\* Mutant: a storage error is taken for success.
WorkerEraseOptimistic(x) ==
  LET f == job[x].f IN
  /\ job[x].at = "erase"
  /\ object' \in {[object EXCEPT ![f] = None]} \union (IF StorageErrors THEN {object} ELSE {})
  /\ job' = [job EXCEPT ![x].at = "scan", ![x].todo = @ \ {f}, ![x].out[f] = "deleted"]
  /\ UNCHANGED <<now, row, lock, outbox, req>>

(* A storage error is caught, and the file keeps "deleting". *)
WorkerErase(x) ==
  LET f == job[x].f IN
  /\ job[x].at = "erase"
  /\ \/ /\ object' = [object EXCEPT ![f] = None]
        /\ job' = [job EXCEPT ![x].at = "scan", ![x].todo = @ \ {f}, ![x].out[f] = "deleted"]
     \/ /\ StorageErrors
        /\ job' = [job EXCEPT ![x].at = "scan", ![x].todo = @ \ {f}, ![x].out[f] = "deleting"]
        /\ UNCHANGED object
  /\ UNCHANGED <<now, row, lock, outbox, req>>

Outcome(r, out) ==
  IF out = None THEN r
  ELSE [r EXCEPT !.life = out, !.status = IF out = "deleted" THEN "deleted" ELSE @]

\* Mutant: the webhook is queued before the storage call.
EventsEarly(out) ==
  IF out \in {"deleted", "deleting"} THEN {"lifecycle.delete"}
  ELSE IF out = "expired" THEN {"lifecycle.notify"} ELSE {}

(* The webhook queued with an outcome, in the same transaction. *)
Events(out) ==
  CASE out = "deleted" -> {"lifecycle.delete"}
    [] out = "expired" -> {"lifecycle.notify"}
    [] OTHER           -> {}

WorkerCommit(x) ==
  LET out == job[x].out IN
  /\ job[x].at = "scan" /\ job[x].todo = {}
  /\ MayLock(x, Dirty(x))
  /\ row' = [f \in Files |-> Outcome(row[f], out[f])]
  /\ outbox' = [f \in Files |-> outbox[f] \union Events(out[f])]
  /\ lock' = Released(x)
  /\ job' = [job EXCEPT ![x] = NoJob]
  /\ UNCHANGED <<now, object, req>>

(* A crash, a database error, or a deadlock with another batch: the whole     *)
(* batch rolls back, and objects already erased stay erased.                  *)
WorkerFail(x) ==
  /\ Crashes
  /\ job[x].at # "idle"
  /\ lock' = Released(x)
  /\ job' = [job EXCEPT ![x] = NoJob]
  /\ UNCHANGED <<now, row, object, outbox, req>>

Tick ==
  /\ now < Horizon
  /\ now' = now + 1
  /\ UNCHANGED <<row, lock, object, outbox, req, job>>

-----------------------------------------------------------------------------

Step(w) ==
  UploadPut(w) \/ UploadMismatch(w) \/ UploadInsert(w) \/ DeleteErase(w) \/ DeleteCommit(w)

Arrive(w) ==
  \E f \in Files : DeleteLock(w, f) \/ \E r \in Requests : UploadStart(w, f, r)

Edit ==
  \E f \in Files :
    \/ \E r \in Requests : UpdateLifecycle(f, r)
    \/ \E seconds \in Extensions : Extend(f, seconds)
    \/ MakePermanent(f)
    \/ \E hold \in BOOLEAN : SetHold(f, hold)

Work(x) ==
  \/ WorkerSelect(x) \/ WorkerErase(x) \/ WorkerCommit(x)
  \/ \E f \in Files : WorkerSkip(x, f) \/ WorkerNotify(x, f) \/ WorkerClaim(x, f)

Next ==
  \/ \E w \in Handlers : Step(w) \/ Arrive(w) \/ Fail(w)
  \/ \E x \in Workers : Work(x) \/ WorkerFail(x)
  \/ Edit \/ Tick

Spec == Init /\ [][Next]_vars

(* Workers scan again and again, requests are resumed when their await is     *)
(* over, and PostgreSQL queues the waiters of a row lock.                      *)
FairSpec ==
  Spec /\ (\A w \in Handlers : SF_vars(Step(w))) /\ (\A x \in Workers : SF_vars(Work(x)))

-----------------------------------------------------------------------------
(* Properties. *)

(* While an API deletion is between its checks and its commit, what it        *)
(* checked stays true: the row lock keeps legal holds and other deletions      *)
(* out (docs 20.2).                                                           *)
DeletionChecksHold ==
  \A w \in Handlers : req[w].at \in {"erase", "erased"} =>
    LET f == req[w].f IN lock[f] = w /\ row[f].status = "active" /\ ~row[f].hold

(* The object of a file under a committed legal hold is lost to nobody but a   *)
(* worker whose SELECT saw the file before the hold, and a rival upload that    *)
(* found the key free before the file had its object: it replaces the object,  *)
(* and on a wrong checksum the local store removes it.                        *)
HeldObjectSurvives ==
  [][\A f \in Files :
       row[f].hold /\ object[f] = "row" /\ object'[f] # "row" =>
         \/ \E x \in Workers :
              /\ job[x].at = "erase" /\ job[x].f = f /\ ~job[x].snap[f].hold
              /\ job'[x].at # "erase"
         \/ \E w \in Handlers : req[w].at = "put" /\ req[w].f = f /\ req'[w].at # "put"]_vars

(* A row says "deleted" only when the object it described is gone, whichever   *)
(* of the storage call, the commit or the process failed on the way.           *)
DeletedIsErased ==
  \A f \in Files : row[f].status = "deleted" => object[f] # "row"

(* The outbox is transactional (docs 10.8): a deletion is announced only if   *)
(* the row is deleted, and an expired file has been announced, although        *)
(* several workers may process one file from different snapshots.             *)
OutboxTellsTheTruth ==
  \A f \in Files :
    /\ "lifecycle.delete" \in outbox[f] => row[f].status = "deleted"
    /\ row[f].life = "expired" => "lifecycle.notify" \in outbox[f]

(* A file waits for the worker exactly when its policy has an action and a    *)
(* deadline, and then until that deadline: six operations write these columns, *)
(* and the worker's branch for any other action is never reached.              *)
ScheduleFollowsPolicy ==
  \A f \in Files : Exists(f) =>
    row[f].next = IF row[f].action = "none" THEN None ELSE row[f].expires

(* A file that is due does not stay due for ever. *)
DueFileIsProcessed ==
  \A f \in Files : Due(f) /\ ~row[f].hold ~> ~(Due(f) /\ ~row[f].hold)

(* docs 14.2: "before any automatic deletion, legal_hold stops it".  When a    *)
(* worker is about to erase an object it holds the row lock, so the hold       *)
(* cannot change any more.                                                    *)
HoldBlocksWorker ==
  \A x \in Workers : job[x].at = "erase" => ~row[job[x].f].hold
=============================================================================
