----------------------------- MODULE DirectoryJob -----------------------------
(***************************************************************************)
(* One directory upload job: its row in directory_upload_jobs, its entries,  *)
(* and the requests of app/services/directory_upload_service.py.  Only       *)
(* complete_manifest, complete and cancel lock the job's row before they     *)
(* read it; add_entries, retry and mark_entry_result read it, or count the   *)
(* entries, and write later, when they get the row lock.  Transactions are   *)
(* READ COMMITTED, `job' and `entry' hold committed values, and SQLAlchemy    *)
(* writes only the columns a request has changed.  What a transaction has     *)
(* written and not committed makes others wait: the job's row, a result of    *)
(* an entry, the unique keys of the entries it inserts; and an insertion      *)
(* keeps FOR UPDATE away from the job's row, which its foreign key names.     *)
(***************************************************************************)
EXTENDS Naturals, FiniteSets

CONSTANTS
  Paths,    \* normalized paths of the files a client may list
  Handlers, \* requests being served
  Results,  \* bound: what clients report of an entry
  Crashes,  \* TRUE: requests may be cancelled, nodes may crash
  None

ASSUME DirectoryAssumption ==
  /\ IsFiniteSet(Paths)
  /\ Results \subseteq {"pending", "uploading", "uploaded", "skipped", "failed"}
  /\ Crashes \in BOOLEAN
  /\ None \notin Paths \union Handlers

VARIABLES
  job,    \* status, total_files, manifest, uploaded_files, failed_files
  entry,  \* directory_upload_entries.status by path, "none" if there is no row
  lock,   \* holder of the job's row lock, or None
  req     \* one record for each request being served

vars == <<job, entry, lock, req>>

EntryStatuses == {"none", "pending", "uploading", "uploaded", "skipped", "failed"}
Collecting == {"created", "manifest_uploading"}
Statuses == Collecting \union {"ready", "uploading", "completed", "cancelled"}

(* The manifest a hash stands for is the set of its paths; None before it.  *)
Job == [status : Statuses, files : Nat, manifest : (SUBSET Paths) \union {{None}},
        uploaded : Nat, failed : Nat]

(* p is the entry a request is inserting or has written, `made' the entries it *)
(* has inserted and not committed.                                            *)
Idle == [at |-> "idle", paths |-> {}, saw |-> "created", files |-> 0, made |-> {},
         p |-> None, result |-> "pending", uploaded |-> 0, failed |-> 0]
Request == [at : {"idle", "open", "insert", "count", "mark", "retry", "finalize"},
            paths : SUBSET Paths, saw : Statuses, files : Nat, made : SUBSET Paths,
            p : Paths \union {None}, result : EntryStatuses \ {"none"},
            uploaded : Nat, failed : Nat]

TypeOK ==
  /\ job \in Job
  /\ entry \in [Paths -> EntryStatuses]
  /\ lock \in Handlers \union {None}
  /\ req \in [Handlers -> Request]

(* create_job has committed. *)
Init ==
  /\ job = [status |-> "created", files |-> 0, manifest |-> {None},
            uploaded |-> 0, failed |-> 0]
  /\ entry = [p \in Paths |-> "none"]
  /\ lock = None
  /\ req = [w \in Handlers |-> Idle]

-----------------------------------------------------------------------------

Present == {p \in Paths : entry[p] # "none"}
With(e, status) == Cardinality({p \in Paths : e[p] = status})
Sealed == job.manifest # {None}

At(w, step) == req[w].at = step
Begin(w, r) == req' = [req EXCEPT ![w] = r]

(* The transaction of w ends and its row lock, if it has it, is free. *)
End(w) == req' = [req EXCEPT ![w] = Idle] /\ lock' = IF lock = w THEN None ELSE lock

Refuse(w) == End(w) /\ UNCHANGED <<job, entry>>

-----------------------------------------------------------------------------
(* Waiting for locks.                                                         *)

(* An insertion waits for another one, or an update, of the same key that has  *)
(* not committed, and, for its foreign key, for whoever has the job's row      *)
(* FOR UPDATE.                                                                 *)
AwaitsKey(w, v) ==
  /\ At(w, "insert")
  /\ \/ req[w].p \in req[v].made
     \/ At(v, "mark") /\ req[v].p = req[w].p
     \/ At(v, "finalize")

(* The writers of the job's row wait for its lock. *)
AwaitsRow(w, v) ==
  /\ lock = v
  /\ \/ At(w, "open") /\ req[w].saw = "created"
     \/ At(w, "count") \/ At(w, "mark") \/ At(w, "retry")

WaitsFor(w, v) == v # w /\ (AwaitsKey(w, v) \/ AwaitsRow(w, v))
Waiting(w) == \E v \in Handlers : WaitsFor(w, v)

(* FOR UPDATE waits for the row lock and for the insertions that name the row. *)
RowFree == lock = None /\ \A v \in Handlers : req[v].made = {}

(* Requests each of which waits for one of the others.  PostgreSQL finds such a *)
(* circle and ends one of its transactions.                                     *)
Circle(c) ==
  /\ c # {}
  /\ \A v \in c : (\E u \in c : WaitsFor(v, u)) /\ (\E u \in c : WaitsFor(u, v))

Deadlock(w) ==
  /\ \E c \in SUBSET Handlers : w \in c /\ Circle(c)
  /\ Refuse(w)

-----------------------------------------------------------------------------
(* add_entries: the job is read.  If it is "created", its new status is         *)
(* flushed, which takes its row lock, before the existing paths are read.  Then *)
(* the entries are inserted, one key after the other, and the counters written  *)
(* as the sums of what was read and what is added.                              *)

AddRead(w, paths) ==
  /\ At(w, "idle")
  /\ job.status \in Collecting
  /\ Begin(w, [Idle EXCEPT !.at = "open", !.paths = paths, !.saw = job.status,
                           !.files = job.files])
  /\ UNCHANGED <<job, entry, lock>>

\* Mutant: paths that exist already are counted again instead of refused.
AddOpenAgain(w) ==
  LET r == req[w] IN
  /\ At(w, "open") /\ ~Waiting(w)
  /\ \/ /\ r.paths \subseteq Present
        /\ Begin(w, [r EXCEPT !.at = "count", !.made = r.paths])
     \/ \E p \in r.paths \ Present :
          Begin(w, [r EXCEPT !.at = "insert", !.p = p, !.made = r.paths \intersect Present])
  /\ lock' = IF r.saw = "created" THEN w ELSE lock
  /\ UNCHANGED <<job, entry>>

AddOpen(w) ==
  LET r == req[w] IN
  /\ At(w, "open") /\ ~Waiting(w)
  /\ \/ /\ r.paths \intersect Present = {}
        /\ \E p \in r.paths : Begin(w, [r EXCEPT !.at = "insert", !.p = p])
        /\ lock' = IF r.saw = "created" THEN w ELSE lock
        /\ UNCHANGED <<job, entry>>
     \/ r.paths \intersect Present # {} /\ Refuse(w)

(* A key that was committed meanwhile ends the request. *)
AddInsert(w) ==
  LET r == req[w]
      made == r.made \union {r.p} IN
  /\ At(w, "insert") /\ ~Waiting(w)
  /\ \/ r.p \in Present /\ Refuse(w)
     \/ /\ r.p \notin Present
        /\ \/ made = r.paths /\ Begin(w, [r EXCEPT !.at = "count", !.made = made])
           \/ \E q \in r.paths \ made : Begin(w, [r EXCEPT !.p = q, !.made = made])
        /\ UNCHANGED <<job, entry, lock>>

AddCount(w) ==
  LET r == req[w] IN
  /\ At(w, "count") /\ ~Waiting(w)
  /\ entry' = [p \in Paths |-> IF p \in r.made THEN "pending" ELSE entry[p]]
  /\ job' = [job EXCEPT !.files = r.files + Cardinality(r.paths),
                        !.status = IF r.saw = "created" THEN "manifest_uploading" ELSE @]
  /\ End(w)

(* complete_manifest, under the row lock: the hash must be that of the rows,  *)
(* and the counts, when the client sends them, those of the counters.         *)
CompleteManifest(counted) ==
  /\ RowFree
  /\ job.status \in Collecting
  /\ Present # {}
  /\ counted => job.files = Cardinality(Present)
  /\ job' = [job EXCEPT !.status = "ready", !.manifest = Present]
  /\ UNCHANGED <<entry, lock, req>>

-----------------------------------------------------------------------------
(* Results of entries.  None of these looks at the job's status; a job that   *)
(* has entries is never "created", so initiate_entry never moves it.          *)

(* Another request has written the row of path p and not committed. *)
EntryLocked(p) == \E v \in Handlers : At(v, "mark") /\ req[v].p = p

InitiateEntry(p) ==
  /\ p \in Present /\ ~EntryLocked(p)
  /\ entry' = [entry EXCEPT ![p] = "uploading"]
  /\ UNCHANGED <<job, lock, req>>

(* mark_entry_result: the entry is written and the entries are counted, those *)
(* of other open transactions not among them; the counts are written to the   *)
(* job once its row lock is free.  A result that repeats the entry's status   *)
(* may change no column, and then the entry's row is not written (p is None).  *)
MarkCount(w, p, result) ==
  LET seen == [entry EXCEPT ![p] = result] IN
  /\ At(w, "idle")
  /\ p \in Present /\ ~EntryLocked(p)
  /\ \E written \in {p} \union (IF entry[p] = result THEN {None} ELSE {}) :
       Begin(w, [Idle EXCEPT !.at = "mark", !.p = written, !.result = result,
                             !.uploaded = With(seen, "uploaded"), !.failed = With(seen, "failed")])
  /\ UNCHANGED <<job, entry, lock>>

Marked(w) ==
  [p \in Paths |-> IF p = req[w].p THEN req[w].result ELSE entry[p]]

\* Mutant: the result is committed without the aggregation, so without the lock.
MarkCommitUnlocked(w) ==
  /\ At(w, "mark")
  /\ entry' = Marked(w)
  /\ End(w)
  /\ UNCHANGED job

MarkCommit(w) ==
  /\ At(w, "mark") /\ ~Waiting(w)
  /\ entry' = Marked(w)
  /\ job' = [job EXCEPT !.uploaded = req[w].uploaded, !.failed = req[w].failed]
  /\ End(w)

-----------------------------------------------------------------------------
(* retry takes a ready job to "uploading": read without a lock, then written. *)

\* Mutant: any job that has not finished may be retried.
RetryReadAny(w) ==
  /\ At(w, "idle")
  /\ job.status \notin {"completed", "cancelled"}
  /\ Begin(w, [Idle EXCEPT !.at = "retry", !.saw = job.status])
  /\ UNCHANGED <<job, entry, lock>>

RetryRead(w) ==
  /\ At(w, "idle")
  /\ job.status = "ready"
  /\ Begin(w, [Idle EXCEPT !.at = "retry", !.saw = job.status])
  /\ UNCHANGED <<job, entry, lock>>

RetryCommit(w) ==
  /\ At(w, "retry") /\ ~Waiting(w)
  /\ job' = [job EXCEPT !.status = "uploading"]
  /\ End(w)
  /\ UNCHANGED entry

(* complete, under the row lock: no failed entry, then the aggregation and the *)
(* final status.  A "ready" job is refused: it has to be retried first.        *)
CompleteLock(w) ==
  /\ At(w, "idle") /\ RowFree
  /\ job.status = "uploading"
  /\ With(entry, "failed") = 0
  /\ lock' = w
  /\ Begin(w, [Idle EXCEPT !.at = "finalize"])
  /\ UNCHANGED <<job, entry>>

\* Mutant: the answer is sent and the transaction left open.
CompleteCommitLater(w) ==
  /\ At(w, "finalize")
  /\ job' = [job EXCEPT !.status = "completed", !.uploaded = With(entry, "uploaded"),
                        !.failed = With(entry, "failed")]
  /\ Begin(w, Idle)
  /\ UNCHANGED <<entry, lock>>

CompleteCommit(w) ==
  /\ At(w, "finalize")
  /\ job' = [job EXCEPT !.status = "completed", !.uploaded = With(entry, "uploaded"),
                        !.failed = With(entry, "failed")]
  /\ End(w)
  /\ UNCHANGED entry

\* Mutant: the state machine's intermediate status is what is committed.
CancelLeavesCancelling ==
  /\ RowFree
  /\ job.status \notin {"completed", "cancelled"}
  /\ job' = [job EXCEPT !.status = "cancelling"]
  /\ UNCHANGED <<entry, lock, req>>

\* Mutant: a completed job can be cancelled.
CancelAny ==
  /\ RowFree
  /\ job.status # "cancelled"
  /\ job' = [job EXCEPT !.status = "cancelled"]
  /\ UNCHANGED <<entry, lock, req>>

(* cancel, under the row lock; a cancelled job cannot be cancelled again. *)
Cancel ==
  /\ RowFree
  /\ job.status \notin {"completed", "cancelled"}
  /\ job' = [job EXCEPT !.status = "cancelled"]
  /\ UNCHANGED <<entry, lock, req>>

Fail(w) ==
  /\ Crashes
  /\ ~At(w, "idle")
  /\ Refuse(w)

-----------------------------------------------------------------------------

Step(w) ==
  \/ AddOpen(w) \/ AddInsert(w) \/ AddCount(w)
  \/ MarkCommit(w) \/ RetryCommit(w) \/ CompleteCommit(w)

Arrive(w) ==
  \/ \E paths \in (SUBSET Paths) \ {{}} : AddRead(w, paths)
  \/ \E p \in Paths, result \in Results : MarkCount(w, p, result)
  \/ RetryRead(w) \/ CompleteLock(w)

Next ==
  \/ \E w \in Handlers : Step(w) \/ Arrive(w) \/ Fail(w) \/ Deadlock(w)
  \/ \E counted \in BOOLEAN : CompleteManifest(counted)
  \/ \E p \in Paths : InitiateEntry(p)
  \/ Cancel

Spec == Init /\ [][Next]_vars

(* The event loop resumes every request, PostgreSQL queues the waiters of a   *)
(* lock, and its deadlock detector runs whenever somebody has waited for a    *)
(* second.                                                                    *)
FairSpec ==
  /\ Spec
  /\ \A w \in Handlers : SF_vars(Step(w))
  /\ WF_vars(\E w \in Handlers : Deadlock(w))

-----------------------------------------------------------------------------
(* Properties. *)

(* The counters of two concurrent add_entries may lose an update, but never   *)
(* count an entry that is not there: they do not exceed the rows.             *)
CountersNeverExceedRows == job.files <= Cardinality(Present)

(* Whatever stale status a request writes, a job is "uploading" or           *)
(* "completed" only if its manifest was completed (docs 13.5).                *)
UploadingIsSealed ==
  job.status \in {"ready", "uploading", "completed"} => Sealed

(* A job is completed only over entries none of which has failed at that      *)
(* moment, although results are reported while complete runs: they wait for   *)
(* the job's row.                                                             *)
CompletionIsClean ==
  [][job.status # "completed" /\ job'.status = "completed" => With(entry', "failed") = 0]_vars

(* A finished job leaves its final status only when a request that read the   *)
(* job before it finished writes what it then decided.                        *)
ReopenedOnlyByStaleRequests ==
  [][job.status \in {"completed", "cancelled"} /\ job'.status # job.status =>
       \E w \in Handlers :
         \/ At(w, "retry") /\ job'.status = "uploading"
         \/ At(w, "count") /\ req[w].saw = "created" /\ job'.status = "manifest_uploading"]_vars

(* Every request ends: none waits for ever for the job's row or for a key that *)
(* another request is inserting, although two additions may wait for each      *)
(* other until PostgreSQL ends one of them.                                    *)
EveryRequestEnds == \A w \in Handlers : ~At(w, "idle") ~> At(w, "idle")
=============================================================================
