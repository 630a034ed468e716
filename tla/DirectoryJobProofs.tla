-------------------------- MODULE DirectoryJobProofs --------------------------
(* Proofs about DirectoryJob for any set of paths, requests and results.      *)
EXTENDS DirectoryJob, FiniteSetTheorems, TLAPS

-----------------------------------------------------------------------------
(* Typing. *)

(* A result that a request is about to commit is one of Results. *)
LEMMA ResultsTyped == Results \subseteq EntryStatuses \ {"none"}
  BY DirectoryAssumption DEF EntryStatuses

(* How many entries have a status is a number. *)
LEMMA WithTyped ==
  ASSUME NEW e \in [Paths -> EntryStatuses], NEW status
  PROVE  /\ IsFiniteSet({p \in Paths : e[p] = status})
         /\ With(e, status) \in Nat
  <1>1. IsFiniteSet({p \in Paths : e[p] = status})
    BY DirectoryAssumption, FS_Subset
  <1> QED
    BY <1>1, FS_CardinalityType DEF With

(* The paths that have a row are finitely many. *)
LEMMA PresentFinite ==
  /\ Present \subseteq Paths /\ IsFiniteSet(Present)
  /\ Cardinality(Present) \in Nat
  <1>1. Present \subseteq Paths
    BY DEF Present
  <1>2. IsFiniteSet(Present)
    BY <1>1, DirectoryAssumption, FS_Subset
  <1> QED
    BY <1>1, <1>2, FS_CardinalityType

(* Requests that end keep the types of everything they do not write. *)
LEMMA EndTyped ==
  ASSUME TypeOK, NEW w \in Handlers, End(w)
  PROVE  req' \in [Handlers -> Request] /\ lock' \in Handlers \union {None}
  BY DEF TypeOK, End, Idle, Request, Statuses, Collecting, EntryStatuses

(* What an addition that goes on keeps and changes of its record. *)
LEMMA OpenFields ==
  ASSUME TypeOK, NEW w \in Handlers, AddOpen(w), ~Refuse(w)
  PROVE  /\ \A v \in Handlers : v # w => req'[v] = req[v]
         /\ req'[w].at = "insert" /\ req'[w].p \in req[w].paths
         /\ req'[w].paths = req[w].paths /\ req'[w].saw = req[w].saw
         /\ req'[w].files = req[w].files /\ req'[w].made = req[w].made
  <1>1. req \in [Handlers -> Request] /\ req[w] \in Request
    BY DEF TypeOK
  <1>2. PICK p \in req[w].paths : req' = [req EXCEPT ![w] = [req[w] EXCEPT !.at = "insert", !.p = p]]
    BY DEF AddOpen, Begin
  <1> DEFINE r == [req[w] EXCEPT !.at = "insert", !.p = p]
  <1>3. /\ r.at = "insert" /\ r.p = p /\ r.paths = req[w].paths /\ r.saw = req[w].saw
        /\ r.files = req[w].files /\ r.made = req[w].made
    BY <1>1 DEF Request
  <1> HIDE DEF r
  <1>4. req' = [req EXCEPT ![w] = r]
    BY <1>2 DEF r
  <1> QED
    BY <1>1, <1>3, <1>4

LEMMA InsertFields ==
  ASSUME TypeOK, NEW w \in Handlers, AddInsert(w), ~Refuse(w)
  PROVE  /\ \A v \in Handlers : v # w => req'[v] = req[v]
         /\ req' = [req EXCEPT ![w] = req'[w]]
         /\ req'[w].paths = req[w].paths /\ req'[w].saw = req[w].saw
         /\ req'[w].files = req[w].files /\ req'[w].made = req[w].made \union {req[w].p}
         /\ \/ req'[w].at = "count" /\ req'[w].made = req[w].paths
            \/ req'[w].at = "insert" /\ req'[w].p \in req[w].paths
  <1>1. req \in [Handlers -> Request] /\ req[w] \in Request /\ req[w].at = "insert"
    BY DEF TypeOK, AddInsert, At
  <1> DEFINE made == req[w].made \union {req[w].p}
             Fields(r) == /\ req' = [req EXCEPT ![w] = r]
                          /\ r.paths = req[w].paths /\ r.saw = req[w].saw
                          /\ r.files = req[w].files /\ r.made = made
                          /\ \/ r.at = "count" /\ made = req[w].paths
                             \/ r.at = "insert" /\ r.p \in req[w].paths
  <1>2. \/ /\ made = req[w].paths
           /\ req' = [req EXCEPT ![w] = [req[w] EXCEPT !.at = "count", !.made = made]]
        \/ \E q \in req[w].paths \ made :
             req' = [req EXCEPT ![w] = [req[w] EXCEPT !.p = q, !.made = made]]
    BY DEF AddInsert, Begin
  <1> HIDE DEF made
  <1>3. ASSUME made = req[w].paths,
               req' = [req EXCEPT ![w] = [req[w] EXCEPT !.at = "count", !.made = made]]
        PROVE  \E r : Fields(r)
    <2>1. Fields([req[w] EXCEPT !.at = "count", !.made = made])
      BY <1>1, <1>3 DEF Request
    <2> QED
      BY <2>1
  <1>4. ASSUME NEW q \in req[w].paths \ made,
               req' = [req EXCEPT ![w] = [req[w] EXCEPT !.p = q, !.made = made]]
        PROVE  \E r : Fields(r)
    <2>1. Fields([req[w] EXCEPT !.p = q, !.made = made])
      BY <1>1, <1>4 DEF Request
    <2> QED
      BY <2>1
  <1>5. PICK r : Fields(r)
    BY <1>2, <1>3, <1>4
  <1>6. req'[w] = r
    BY <1>1, <1>5
  <1>7. \A v \in Handlers : v # w => req'[v] = req[v]
    BY <1>1, <1>5
  <1> QED
    BY <1>5, <1>6, <1>7 DEF made

(* Where a step leaves a request. *)
LEMMA RequestCases ==
  ASSUME TypeOK, [Next]_vars, NEW w \in Handlers
  PROVE  \/ req'[w] = req[w]
         \/ req'[w] = Idle
         \/ \E p \in Paths, result \in Results : MarkCount(w, p, result) /\ req'[w].at = "mark"
         \/ RetryRead(w) /\ req'[w].at = "retry"
         \/ CompleteLock(w) /\ req'[w].at = "finalize"
         \/ \E paths \in (SUBSET Paths) \ {{}} : AddRead(w, paths) /\ req'[w].at = "open"
         \/ AddOpen(w) /\ ~Refuse(w) /\ req'[w].at = "insert"
         \/ AddInsert(w) /\ ~Refuse(w) /\ req'[w].at \in {"insert", "count"}
  <1>t. req \in [Handlers -> Request]
    BY DEF TypeOK
  <1>1. CASE AddCount(w) \/ MarkCommit(w) \/ RetryCommit(w) \/ CompleteCommit(w) \/ Fail(w) \/ Deadlock(w) \/ Refuse(w)
    BY <1>1, <1>t DEF Fail, Deadlock, AddCount, MarkCommit, RetryCommit, CompleteCommit, Refuse, End
  <1>2. ASSUME NEW paths \in (SUBSET Paths) \ {{}}, AddRead(w, paths)
        PROVE  req'[w].at = "open"
    BY <1>2, <1>t DEF AddRead, Begin, Idle
  <1>3. ASSUME NEW p \in Paths, NEW result \in Results, MarkCount(w, p, result)
        PROVE  req'[w].at = "mark"
    BY <1>3, <1>t DEF MarkCount, Begin, Idle
  <1>6. ASSUME RetryRead(w)
        PROVE  req'[w].at = "retry"
    BY <1>6, <1>t DEF RetryRead, Begin, Idle
  <1>7. ASSUME CompleteLock(w)
        PROVE  req'[w].at = "finalize"
    BY <1>7, <1>t DEF CompleteLock, Begin, Idle
  <1>8. ASSUME AddOpen(w), ~Refuse(w)
        PROVE  req'[w].at = "insert"
    BY <1>8, OpenFields
  <1>9. ASSUME AddInsert(w), ~Refuse(w)
        PROVE  req'[w].at \in {"insert", "count"}
    BY <1>9, InsertFields
  <1>4. ASSUME NEW v \in Handlers, Step(v) \/ Arrive(v) \/ Fail(v) \/ Deadlock(v), v # w
        PROVE  req'[w] = req[w]
    BY <1>4, <1>t DEF Step, Fail, Deadlock, AddOpen, AddInsert, AddCount, MarkCommit, RetryCommit,
                      CompleteCommit, Refuse, End, Arrive, AddRead, MarkCount, RetryRead,
                      CompleteLock, Begin
  <1>5. CASE \/ \E counted \in BOOLEAN : CompleteManifest(counted)
             \/ \E p \in Paths : InitiateEntry(p)
             \/ Cancel \/ UNCHANGED vars
    BY <1>5 DEF CompleteManifest, InitiateEntry, Cancel, vars
  <1>10. CASE Step(w)
    BY <1>1, <1>8, <1>9, <1>10 DEF Step
  <1>11. CASE Arrive(w)
    BY <1>2, <1>3, <1>6, <1>7, <1>11 DEF Arrive
  <1> QED
    BY <1>1, <1>4, <1>5, <1>10, <1>11 DEF Next

(* A request inserts the entry of a path it lists. *)
Inserting ==
  \A w \in Handlers : At(w, "insert") => req[w].p \in Paths /\ req[w].p \in req[w].paths

LEMMA InsertingStep ==
  ASSUME TypeOK, Inserting, [Next]_vars
  PROVE  Inserting'
  <1>t. req \in [Handlers -> Request]
    BY DEF TypeOK
  <1>1. ASSUME NEW w \in Handlers, At(w, "insert")'
        PROVE  req'[w].p \in Paths /\ req'[w].p \in req'[w].paths
    <2>1. CASE req'[w] = req[w]
      BY <2>1, <1>1 DEF Inserting, At
    <2>2. CASE AddOpen(w) /\ ~Refuse(w)
      BY <2>2, <1>t, OpenFields DEF Request
    <2>3. CASE AddInsert(w) /\ ~Refuse(w)
      BY <2>3, <1>1, <1>t, InsertFields DEF Request, At
    <2> QED
      BY <1>1, <2>1, <2>2, <2>3, RequestCases DEF At, Idle
  <1> QED
    BY <1>1 DEF Inserting

(* Every request keeps the types. *)
LEMMA TypeStep ==
  ASSUME TypeOK, Inserting, [Next]_vars
  PROVE  TypeOK'
  <1>t. /\ job \in Job /\ entry \in [Paths -> EntryStatuses]
        /\ lock \in Handlers \union {None} /\ req \in [Handlers -> Request]
    BY DEF TypeOK
  <1>i. Idle \in Request
    BY DEF Idle, Request, Statuses, Collecting, EntryStatuses
  <1>1. ASSUME NEW w \in Handlers, Step(w)
        PROVE  TypeOK'
    <2>r. /\ req[w] \in Request /\ req[w].paths \subseteq Paths /\ req[w].files \in Nat
          /\ req[w].made \subseteq Paths /\ req[w].p \in Paths \union {None}
      BY <1>t DEF Request
    <2>e. CASE Refuse(w)
      BY <2>e, EndTyped, <1>t DEF Refuse, TypeOK
    <2>5. CASE AddOpen(w) /\ ~Refuse(w)
      <3>1. PICK p \in req[w].paths : req' = [req EXCEPT ![w] = [req[w] EXCEPT !.at = "insert", !.p = p]]
        BY <2>5 DEF AddOpen, Begin
      <3>2. [req[w] EXCEPT !.at = "insert", !.p = p] \in Request
        BY <2>r DEF Request
      <3>3. lock' \in Handlers \union {None} /\ UNCHANGED <<job, entry>>
        BY <2>5, <1>t DEF AddOpen
      <3> QED
        BY <3>1, <3>2, <3>3, <1>t DEF TypeOK
    <2>6. CASE AddInsert(w) /\ ~Refuse(w)
      <3> DEFINE made == req[w].made \union {req[w].p}
      <3>1. /\ UNCHANGED <<job, entry, lock>>
            /\ \/ /\ made = req[w].paths
                  /\ req' = [req EXCEPT ![w] = [req[w] EXCEPT !.at = "count", !.made = made]]
               \/ \E q \in req[w].paths \ made :
                    req' = [req EXCEPT ![w] = [req[w] EXCEPT !.p = q, !.made = made]]
        BY <2>6 DEF AddInsert, Begin
      <3> HIDE DEF made
      <3>2. CASE made = req[w].paths /\ req' = [req EXCEPT ![w] = [req[w] EXCEPT !.at = "count", !.made = made]]
        <4>1. [req[w] EXCEPT !.at = "count", !.made = made] \in Request
          BY <3>2, <2>r DEF Request
        <4> QED
          BY <3>1, <3>2, <4>1, <1>t DEF TypeOK
      <3>3. ASSUME NEW q \in req[w].paths \ made,
                   req' = [req EXCEPT ![w] = [req[w] EXCEPT !.p = q, !.made = made]]
            PROVE  TypeOK'
        <4>0. req[w].p \in Paths
          BY <2>6 DEF AddInsert, Inserting
        <4>1. [req[w] EXCEPT !.p = q, !.made = made] \in Request
          BY <3>3, <2>r, <4>0 DEF Request, made
        <4> QED
          BY <3>1, <3>3, <4>1, <1>t DEF TypeOK
      <3> QED
        BY <3>1, <3>2, <3>3
    <2>1. CASE AddCount(w)
      <3>1. Cardinality(req[w].paths) \in Nat
        BY <2>r, DirectoryAssumption, FS_Subset, FS_CardinalityType
      <3>2. entry' \in [Paths -> EntryStatuses]
        BY <2>1, <1>t DEF AddCount, EntryStatuses
      <3>3. job' \in Job
        <4> DEFINE files == req[w].files + Cardinality(req[w].paths)
                   status == IF req[w].saw = "created" THEN "manifest_uploading"
                             ELSE job.status
        <4>1. files \in Nat /\ status \in Statuses
          BY <2>r, <3>1, <1>t DEF Job, Statuses, Collecting
        <4>2. job' = [job EXCEPT !.files = files, !.status = status]
          BY <2>1 DEF AddCount
        <4> HIDE DEF files, status
        <4> QED
          BY <4>1, <4>2, <1>t DEF Job
      <3> QED
        BY <2>1, <3>2, <3>3, EndTyped DEF AddCount, TypeOK
    <2>2. CASE MarkCommit(w)
      <3>1. req[w] \in Request
        BY <1>t
      <3>2. entry' \in [Paths -> EntryStatuses] /\ job' \in Job
        BY <2>2, <3>1, <1>t DEF MarkCommit, Marked, Job, Request
      <3> QED
        BY <2>2, <3>2, EndTyped DEF MarkCommit, TypeOK
    <2>3. CASE RetryCommit(w)
      <3>1. job' \in Job
        BY <2>3, <1>t DEF RetryCommit, Job, Statuses
      <3> QED
        BY <2>3, <3>1, <1>t, EndTyped DEF RetryCommit, TypeOK
    <2>4. CASE CompleteCommit(w)
      <3>1. job' \in Job
        BY <2>4, <1>t, WithTyped DEF CompleteCommit, Job, Statuses
      <3> QED
        BY <2>4, <3>1, <1>t, EndTyped DEF CompleteCommit, TypeOK
    <2> QED
      BY <1>1, <2>1, <2>2, <2>3, <2>4, <2>5, <2>6, <2>e DEF Step
  <1>2. ASSUME NEW w \in Handlers, Arrive(w)
        PROVE  TypeOK'
    <2>1. ASSUME NEW paths \in (SUBSET Paths) \ {{}}, AddRead(w, paths)
          PROVE  TypeOK'
      <3> DEFINE r == [Idle EXCEPT !.at = "open", !.paths = paths, !.saw = job.status,
                                   !.files = job.files]
      <3>1. r \in Request
        BY <1>i, <1>t DEF Request, Job
      <3> QED
        BY <2>1, <3>1, <1>t DEF AddRead, Begin, TypeOK
    <2>2. ASSUME NEW p \in Paths, NEW result \in Results, MarkCount(w, p, result)
          PROVE  TypeOK'
      <3> DEFINE seen == [entry EXCEPT ![p] = result]
      <3>1. seen \in [Paths -> EntryStatuses] /\ result \in EntryStatuses \ {"none"}
        BY <1>t, ResultsTyped
      <3>2. With(seen, "uploaded") \in Nat /\ With(seen, "failed") \in Nat
        BY <3>1, WithTyped
      <3> HIDE DEF seen
      <3>3. PICK written \in Paths \union {None} :
              req' = [req EXCEPT ![w] =
                        [Idle EXCEPT !.at = "mark", !.p = written, !.result = result,
                                     !.uploaded = With(seen, "uploaded"),
                                     !.failed = With(seen, "failed")]]
        BY <2>2 DEF MarkCount, Begin, seen
      <3>4. [Idle EXCEPT !.at = "mark", !.p = written, !.result = result,
                         !.uploaded = With(seen, "uploaded"),
                         !.failed = With(seen, "failed")] \in Request
        BY <1>i, <3>1, <3>2 DEF Request
      <3>5. req' \in [Handlers -> Request]
        BY <3>3, <3>4, <1>t
      <3> QED
        BY <2>2, <3>5, <1>t DEF MarkCount, TypeOK
    <2>3. CASE RetryRead(w)
      BY <2>3, <1>t, <1>i DEF RetryRead, Begin, TypeOK, Request, Job
    <2>4. CASE CompleteLock(w)
      BY <2>4, <1>t, <1>i DEF CompleteLock, Begin, TypeOK, Request
    <2> QED
      BY <1>2, <2>1, <2>2, <2>3, <2>4 DEF Arrive
  <1>3. ASSUME NEW w \in Handlers, Fail(w) \/ Deadlock(w)
        PROVE  TypeOK'
    BY <1>3, EndTyped, <1>t DEF Fail, Deadlock, Refuse, TypeOK
  <1>4. ASSUME NEW counted \in BOOLEAN, CompleteManifest(counted)
        PROVE  TypeOK'
    BY <1>4, <1>t, PresentFinite DEF CompleteManifest, TypeOK, Job, Statuses
  <1>5. ASSUME NEW p \in Paths, InitiateEntry(p)
        PROVE  TypeOK'
    BY <1>5, <1>t DEF InitiateEntry, TypeOK, EntryStatuses
  <1>6. CASE Cancel
    BY <1>6, <1>t DEF Cancel, TypeOK, Job, Statuses
  <1>7. CASE UNCHANGED vars
    BY <1>7, <1>t DEF vars, TypeOK
  <1> QED
    BY <1>1, <1>2, <1>3, <1>4, <1>5, <1>6, <1>7 DEF Next

LEMMA TypeInvariant == Spec => [](TypeOK /\ Inserting)
  <1>1. ASSUME Init PROVE TypeOK /\ Inserting
    <2>1. job \in Job
      <3>1. "created" \in Statuses
        BY DEF Statuses, Collecting
      <3>2. {None} \in (SUBSET Paths) \union {{None}}
        OBVIOUS
      <3> QED
        BY <1>1, <3>1, <3>2 DEF Init, Job
    <2>2. entry \in [Paths -> EntryStatuses]
      BY <1>1 DEF Init, EntryStatuses
    <2>3. Idle \in Request
      BY DEF Idle, Request, Statuses, Collecting, EntryStatuses
    <2> QED
      BY <1>1, <2>1, <2>2, <2>3 DEF Init, TypeOK, Inserting, At, Idle
  <1>2. TypeOK /\ Inserting /\ [Next]_vars => (TypeOK /\ Inserting)'
    BY TypeStep, InsertingStep
  <1> QED
    BY <1>1, <1>2, PTL DEF Spec

(* TypeOK: the rows of a job and what its requests carry keep their types,    *)
(* counters computed from stale reads included.                               *)
THEOREM TypeCorrect == Spec => []TypeOK
  BY TypeInvariant, PTL

-----------------------------------------------------------------------------
(* Rows and keys. *)

(* Rows are never deleted. *)
LEMMA PresentGrows ==
  ASSUME TypeOK, [Next]_vars
  PROVE  Present \subseteq Present'
  <1>t. entry \in [Paths -> EntryStatuses] /\ req \in [Handlers -> Request]
    BY DEF TypeOK
  <1>1. ASSUME NEW w \in Handlers, AddCount(w)
        PROVE  Present \subseteq Present'
    BY <1>1, <1>t DEF AddCount, Present
  <1>2. ASSUME NEW w \in Handlers, MarkCommit(w)
        PROVE  Present \subseteq Present'
    <2>1. req[w].result # "none"
      BY <1>t DEF Request
    <2>2. entry' = [p \in Paths |-> IF p = req[w].p THEN req[w].result ELSE entry[p]]
      BY <1>2 DEF MarkCommit, Marked
    <2> QED
      BY <2>1, <2>2 DEF Present
  <1>3. ASSUME NEW p \in Paths, InitiateEntry(p)
        PROVE  Present \subseteq Present'
    BY <1>3, <1>t DEF InitiateEntry, Present
  <1>4. CASE entry' = entry
    BY <1>4 DEF Present
  <1> QED
    BY <1>1, <1>2, <1>3, <1>4
       DEF Next, Step, AddOpen, AddInsert, RetryCommit, CompleteCommit, Arrive, AddRead, MarkCount,
           RetryRead, CompleteLock, Fail, Deadlock, Refuse, CompleteManifest, Cancel, vars

(* Only entries with a row are reported. *)
Reported ==
  \A w \in Handlers : At(w, "mark") => req[w].p \in Present \union {None}

LEMMA ReportedStep ==
  ASSUME TypeOK, Reported, [Next]_vars
  PROVE  Reported'
  <1>t. req \in [Handlers -> Request]
    BY DEF TypeOK
  <1>1. ASSUME NEW w \in Handlers, At(w, "mark")'
        PROVE  req'[w].p \in Present' \union {None}
    <2>1. CASE req'[w] = req[w]
      BY <2>1, <1>1, PresentGrows DEF Reported, At
    <2>2. ASSUME NEW p \in Paths, NEW result \in Results, MarkCount(w, p, result)
          PROVE  req'[w].p \in Present' \union {None}
      <3>1. p \in Present /\ req'[w].p \in {p, None}
        BY <2>2, <1>t DEF MarkCount, Begin, Idle
      <3> QED
        BY <3>1, PresentGrows
    <2> QED
      BY <1>1, <2>1, <2>2, RequestCases DEF At, Idle
  <1> QED
    BY <1>1 DEF Reported

(* New rows are those of one insertion that commits. *)
LEMMA PresentStep ==
  ASSUME TypeOK, Reported, [Next]_vars
  PROVE  \/ Present' = Present
         \/ \E w \in Handlers : AddCount(w) /\ Present' = Present \union req[w].made
  <1>t. /\ entry \in [Paths -> EntryStatuses] /\ req \in [Handlers -> Request]
        /\ None \notin Paths
    BY DirectoryAssumption DEF TypeOK
  <1>1. ASSUME NEW w \in Handlers, AddCount(w)
        PROVE  Present' = Present \union req[w].made
    <2>1. req[w].made \subseteq Paths
      BY <1>t DEF Request
    <2>2. entry' = [p \in Paths |-> IF p \in req[w].made THEN "pending" ELSE entry[p]]
      BY <1>1 DEF AddCount
    <2> QED
      BY <2>1, <2>2 DEF Present
  <1>2. ASSUME NEW w \in Handlers, MarkCommit(w)
        PROVE  Present' = Present
    <2>1. req[w].result # "none" /\ req[w].p \in Present \union {None}
      BY <1>2, <1>t DEF Request, Reported, MarkCommit
    <2>2. entry' = [p \in Paths |-> IF p = req[w].p THEN req[w].result ELSE entry[p]]
      BY <1>2 DEF MarkCommit, Marked
    <2> QED
      BY <2>1, <2>2, <1>t DEF Present
  <1>3. ASSUME NEW p \in Paths, InitiateEntry(p)
        PROVE  Present' = Present
    BY <1>3, <1>t DEF InitiateEntry, Present
  <1>4. CASE entry' = entry
    BY <1>4 DEF Present
  <1> QED
    BY <1>1, <1>2, <1>3, <1>4
       DEF Next, Step, AddOpen, AddInsert, RetryCommit, CompleteCommit, Arrive, AddRead, MarkCount,
           RetryRead, CompleteLock, Fail, Deadlock, Refuse, CompleteManifest, Cancel, vars

(* What an insertion has written and not committed has no row yet, is on its   *)
(* list, and belongs to it alone: the unique key makes the others wait.        *)
KeysAreOwned ==
  \A w \in Handlers :
    /\ req[w].made # {} => At(w, "insert") \/ At(w, "count")
    /\ At(w, "count") => req[w].made = req[w].paths
    /\ req[w].made \intersect Present = {}
    /\ \A v \in Handlers : v # w => req[v].made \intersect req[w].made = {}

(* Which keys a request owns after a step. *)
LEMMA MadeCases ==
  ASSUME TypeOK, KeysAreOwned, [Next]_vars, NEW w \in Handlers
  PROVE  \/ req'[w] = req[w]
         \/ req'[w].made = {} /\ ~At(w, "count")'
         \/ /\ AddInsert(w) /\ req[w].p \notin Present
            /\ req' = [req EXCEPT ![w] = req'[w]] /\ entry' = entry
            /\ req'[w].made = req[w].made \union {req[w].p}
            /\ At(w, "insert")' \/ At(w, "count")'
            /\ At(w, "count")' => req'[w].made = req'[w].paths
  <1>t. req \in [Handlers -> Request]
    BY DEF TypeOK
  <1>1. CASE AddInsert(w) /\ ~Refuse(w)
    BY <1>1, <1>t, InsertFields DEF AddInsert, At
  <1>2. CASE AddOpen(w) /\ ~Refuse(w)
    BY <1>2, <1>t, OpenFields DEF AddOpen, At, KeysAreOwned
  <1>3. ASSUME NEW p \in Paths, NEW result \in Results, MarkCount(w, p, result)
        PROVE  req'[w].made = {} /\ ~At(w, "count")'
    BY <1>3, <1>t DEF MarkCount, Begin, Idle, At
  <1>4. CASE RetryRead(w) \/ CompleteLock(w)
    BY <1>4, <1>t DEF RetryRead, CompleteLock, Begin, Idle, At
  <1>5. ASSUME NEW paths \in (SUBSET Paths) \ {{}}, AddRead(w, paths)
        PROVE  req'[w].made = {} /\ ~At(w, "count")'
    BY <1>5, <1>t DEF AddRead, Begin, Idle, At
  <1>6. CASE req'[w] = Idle
    BY <1>6 DEF Idle, At
  <1> QED
    BY <1>1, <1>2, <1>3, <1>4, <1>5, <1>6, RequestCases

LEMMA KeysStep ==
  ASSUME TypeOK, Reported, KeysAreOwned, [Next]_vars
  PROVE  KeysAreOwned'
  <1>t. req \in [Handlers -> Request]
    BY DEF TypeOK
  <1> DEFINE Inserts(w) ==
        /\ AddInsert(w) /\ req[w].p \notin Present
        /\ req' = [req EXCEPT ![w] = req'[w]] /\ entry' = entry
        /\ req'[w].made = req[w].made \union {req[w].p}
  <1>1. ASSUME NEW w \in Handlers
        PROVE  /\ req'[w].made # {} => At(w, "insert")' \/ At(w, "count")'
               /\ At(w, "count")' => req'[w].made = req'[w].paths
               /\ req'[w].made \subseteq req[w].made \/ Inserts(w)
    <2>1. CASE req'[w] = req[w]
      BY <2>1 DEF KeysAreOwned, At
    <2> QED
      BY <2>1, MadeCases
  <1>2. ASSUME NEW w \in Handlers, Inserts(w)
        PROVE  /\ Present' = Present
               /\ \A v \in Handlers : v # w => req'[v] = req[v] /\ req[w].p \notin req[v].made
    <2>1. At(w, "insert") /\ ~Waiting(w)
      BY <1>2 DEF AddInsert
    <2>2. \A v \in Handlers : v # w => req[w].p \notin req[v].made
      BY <2>1 DEF Waiting, WaitsFor, AwaitsKey
    <2> QED
      BY <1>2, <1>t, <2>2 DEF Present
  <1>3. ASSUME NEW w \in Handlers, NEW v \in Handlers, v # w
        PROVE  req'[v].made \intersect req'[w].made = {}
    <2>0. req[v].made \intersect req[w].made = {}
      BY <1>3 DEF KeysAreOwned
    <2>1. CASE req'[v].made \subseteq req[v].made /\ req'[w].made \subseteq req[w].made
      BY <2>0, <2>1
    <2>2. CASE Inserts(w)
      BY <2>0, <2>2, <1>2, <1>3
    <2>3. CASE Inserts(v)
      BY <2>0, <2>3, <1>2, <1>3
    <2> QED
      BY <1>1, <2>1, <2>2, <2>3
  <1>4. ASSUME NEW w \in Handlers
        PROVE  req'[w].made \intersect Present' = {}
    <2>0. req[w].made \intersect Present = {}
      BY DEF KeysAreOwned
    <2>1. CASE Inserts(w)
      BY <2>0, <2>1, <1>2
    <2>2. CASE req'[w].made \subseteq req[w].made /\ Present' = Present
      BY <2>0, <2>2
    <2>3. ASSUME NEW v \in Handlers, AddCount(v), Present' = Present \union req[v].made
          PROVE  req'[w].made \intersect Present' = {}
      <3>1. req'[v].made = {} /\ (v # w => req'[w] = req[w])
        BY <2>3, <1>t DEF AddCount, End, Idle
      <3>2. v # w => req[v].made \intersect req[w].made = {}
        BY DEF KeysAreOwned
      <3> QED
        BY <2>0, <2>3, <3>1, <3>2
    <2> QED
      BY <1>1, <2>1, <2>2, <2>3, PresentStep
  <1> HIDE DEF Inserts
  <1> QED
    BY <1>1, <1>3, <1>4 DEF KeysAreOwned

LEMMA KeysInvariant == Spec => [](Reported /\ KeysAreOwned)
  <1>1. ASSUME Init PROVE Reported /\ KeysAreOwned
    <2>1. \A w \in Handlers : req[w].at = "idle" /\ req[w].made = {}
      BY <1>1 DEF Init, Idle
    <2> QED
      BY <2>1 DEF Reported, KeysAreOwned, At
  <1>2. /\ TypeOK /\ Reported /\ KeysAreOwned /\ [Next]_vars
        => (Reported /\ KeysAreOwned)'
    BY ReportedStep, KeysStep
  <1> QED
    BY <1>1, <1>2, TypeCorrect, PTL DEF Spec

-----------------------------------------------------------------------------
(* Counters. *)

(* What an add_entries has read is still a lower bound when it writes. *)
ReadsAreBounds ==
  /\ CountersNeverExceedRows
  /\ \A w \in Handlers : At(w, "open") \/ At(w, "insert") \/ At(w, "count") =>
       req[w].files <= Cardinality(Present)

(* An insertion of paths without a row adds as many rows as paths. *)
LEMMA RowsAdded ==
  ASSUME TypeOK, Reported, KeysAreOwned, [Next]_vars, NEW w \in Handlers, AddCount(w)
  PROVE  /\ Cardinality(req[w].paths) \in Nat
         /\ Cardinality(Present') = Cardinality(Present) + Cardinality(req[w].paths)
  <1> DEFINE paths == req[w].paths
  <1>t. req[w] \in Request /\ entry \in [Paths -> EntryStatuses]
    BY DEF TypeOK
  <1>1. paths \subseteq Paths
    BY <1>t DEF Request
  <1>2. IsFiniteSet(paths) /\ Cardinality(paths) \in Nat
    BY <1>1, DirectoryAssumption, FS_Subset, FS_CardinalityType
  <1>3. /\ req[w].made = paths /\ paths \intersect Present = {}
        /\ entry' = [p \in Paths |-> IF p \in req[w].made THEN "pending" ELSE entry[p]]
    BY DEF AddCount, KeysAreOwned
  <1>4. Present' = Present \union paths
    BY <1>1, <1>3, <1>t DEF Present
  <1>5. Cardinality(Present \intersect paths) = 0
    BY <1>3, FS_EmptySet
  <1>6. Cardinality(Present \union paths)
          = Cardinality(Present) + Cardinality(paths) - Cardinality(Present \intersect paths)
    BY <1>2, PresentFinite, FS_Union
  <1> HIDE DEF paths
  <1>7. Cardinality(Present \union paths) = Cardinality(Present) + Cardinality(paths)
    BY <1>2, <1>5, <1>6, PresentFinite
  <1> QED
    BY <1>2, <1>4, <1>7 DEF paths

(* No step counts an entry that has no row. *)
LEMMA CountersStep ==
  ASSUME TypeOK, Reported, KeysAreOwned, ReadsAreBounds, [Next]_vars
  PROVE  ReadsAreBounds'
  <1>t. /\ job \in Job /\ job.files \in Nat /\ req \in [Handlers -> Request]
        /\ \A w \in Handlers : req[w].files \in Nat
    BY DEF TypeOK, Job, Request
  <1>g. /\ Cardinality(Present) \in Nat /\ Cardinality(Present') \in Nat
        /\ Cardinality(Present) <= Cardinality(Present')
    <2>1. IsFiniteSet(Present')
      BY DirectoryAssumption, FS_Subset DEF Present
    <2> QED
      BY <2>1, PresentFinite, PresentGrows, FS_Subset, FS_CardinalityType
  <1>1. ASSUME NEW w \in Handlers, At(w, "open")' \/ At(w, "insert")' \/ At(w, "count")'
        PROVE  req'[w].files <= Cardinality(Present')
    <2>1. CASE req'[w] = req[w]
      BY <2>1, <1>1, <1>t, <1>g DEF ReadsAreBounds, At
    <2>2. ASSUME NEW paths \in (SUBSET Paths) \ {{}}, AddRead(w, paths)
          PROVE  req'[w].files <= Cardinality(Present')
      <3>1. req'[w].files = job.files
        BY <2>2, <1>t DEF AddRead, Begin, Idle
      <3> QED
        BY <3>1, <1>t, <1>g DEF ReadsAreBounds, CountersNeverExceedRows
    <2>3. CASE (AddOpen(w) \/ AddInsert(w)) /\ ~Refuse(w)
      <3>1. req'[w].files = req[w].files
        BY <2>3, OpenFields, InsertFields
      <3>2. At(w, "open") \/ At(w, "insert")
        BY <2>3 DEF AddOpen, AddInsert
      <3>3. req[w].files <= Cardinality(Present)
        BY <3>2 DEF ReadsAreBounds
      <3> QED
        BY <3>1, <3>3, <1>t, <1>g
    <2> QED
      BY <1>1, <2>1, <2>2, <2>3, RequestCases DEF At, Idle
  <1>2. CountersNeverExceedRows'
    <2>1. CASE job'.files = job.files
      BY <2>1, <1>t, <1>g DEF ReadsAreBounds, CountersNeverExceedRows
    <2>2. ASSUME NEW w \in Handlers, AddCount(w)
          PROVE  CountersNeverExceedRows'
      <3>1. job'.files = req[w].files + Cardinality(req[w].paths)
        BY <2>2, <1>t DEF AddCount, Job
      <3>2. req[w].files <= Cardinality(Present)
        BY <2>2 DEF AddCount, ReadsAreBounds
      <3> QED
        BY <2>2, <3>1, <3>2, <1>t, <1>g, RowsAdded DEF CountersNeverExceedRows
    <2>3. ASSUME NEW w \in Handlers, Step(w) \/ Arrive(w) \/ Fail(w) \/ Deadlock(w), ~AddCount(w)
          PROVE  job'.files = job.files
      BY <2>3, <1>t DEF Step, Fail, Deadlock, AddOpen, AddInsert, MarkCommit, RetryCommit,
                        CompleteCommit, Refuse, Arrive, AddRead, MarkCount, RetryRead,
                        CompleteLock, Job
    <2>4. CASE \/ \E counted \in BOOLEAN : CompleteManifest(counted)
               \/ \E p \in Paths : InitiateEntry(p)
               \/ Cancel \/ UNCHANGED vars
      BY <2>1, <2>4, <1>t DEF CompleteManifest, InitiateEntry, Cancel, vars, Job
    <2> QED
      BY <2>1, <2>2, <2>3, <2>4 DEF Next
  <1> QED
    BY <1>1, <1>2 DEF ReadsAreBounds

(* Lost updates between concurrent additions only ever undercount. *)
THEOREM CountersSafe == Spec => []CountersNeverExceedRows
  <1>1. Init => ReadsAreBounds
    <2>1. ASSUME Init PROVE CountersNeverExceedRows
      <3>1. job.files = 0
        BY <2>1 DEF Init
      <3> QED
        BY <3>1, PresentFinite DEF CountersNeverExceedRows
    <2> QED
      BY <2>1 DEF Init, ReadsAreBounds, At, Idle
  <1>2. TypeOK /\ Reported /\ KeysAreOwned /\ ReadsAreBounds /\ [Next]_vars => ReadsAreBounds'
    BY CountersStep
  <1>3. ReadsAreBounds => CountersNeverExceedRows
    BY DEF ReadsAreBounds
  <1> QED
    BY <1>1, <1>2, <1>3, TypeCorrect, KeysInvariant, PTL DEF Spec

-----------------------------------------------------------------------------
(* Statuses. *)

(* A request that will write "uploading", or is about to complete the job,    *)
(* has seen it sealed; nothing unseals it.                                    *)
SealedForGood ==
  /\ UploadingIsSealed
  /\ \A w \in Handlers : At(w, "retry") => Sealed
  /\ \A w \in Handlers : At(w, "finalize") =>
       /\ lock = w /\ job.status = "uploading"
       /\ \A p \in Paths : entry[p] # "failed"

(* With(entry, "failed") = 0, without counting. *)
LEMMA NoneFailed ==
  ASSUME NEW e \in [Paths -> EntryStatuses]
  PROVE  With(e, "failed") = 0 <=> \A p \in Paths : e[p] # "failed"
  <1> DEFINE failed == {p \in Paths : e[p] = "failed"}
  <1>1. IsFiniteSet(failed)
    BY WithTyped
  <1>2. Cardinality(failed) = 0 <=> failed = {}
    BY <1>1, FS_EmptySet
  <1> QED
    BY <1>2 DEF With

(* While complete holds the row lock nobody else writes the job, and the      *)
(* entries change only by being initiated.                                    *)
LEMMA FinalizingExcludes ==
  ASSUME TypeOK, SealedForGood, [Next]_vars, NEW w \in Handlers,
         At(w, "finalize"), At(w, "finalize")'
  PROVE  /\ lock' = w /\ job' = job
         /\ \A p \in Paths : entry'[p] # "failed"
  <1>t. /\ req \in [Handlers -> Request] /\ entry \in [Paths -> EntryStatuses]
        /\ None \notin Handlers
    BY DirectoryAssumption DEF TypeOK
  <1>l. lock = w /\ lock # None /\ \A p \in Paths : entry[p] # "failed"
    BY <1>t DEF SealedForGood
  <1>1. CASE Step(w) \/ Fail(w) \/ Deadlock(w)
    <2>1. req'[w] = Idle
      BY <1>1, <1>t DEF At, Step, Fail, Deadlock, AddOpen, AddInsert, AddCount, MarkCommit,
                        RetryCommit, CompleteCommit, Refuse, End
    <2> QED
      BY <2>1 DEF Idle, At
  <1>2. ASSUME NEW v \in Handlers, Step(v), v # w
        PROVE  lock' = w /\ job' = job /\ entry' = entry
    <2>1. ASSUME At(v, "count") \/ At(v, "mark") \/ At(v, "retry") \/ At(v, "insert")
          PROVE  Waiting(v)
      BY <1>2, <1>l, <2>1 DEF Waiting, WaitsFor, AwaitsRow, AwaitsKey
    <2>2. CASE AddOpen(v)
      <3>1. ~(req[v].saw = "created")
        BY <1>2, <1>l, <2>2 DEF AddOpen, Waiting, WaitsFor, AwaitsRow
      <3> QED
        BY <1>2, <1>l, <2>2, <3>1 DEF AddOpen, Refuse, End
    <2>3. CASE CompleteCommit(v)
      BY <1>2, <1>l, <2>3 DEF CompleteCommit, SealedForGood
    <2> QED
      BY <1>2, <2>1, <2>2, <2>3 DEF Step, AddInsert, AddCount, MarkCommit, RetryCommit
  <1>3. ASSUME NEW v \in Handlers, Arrive(v)
        PROVE  lock' = w /\ job' = job /\ entry' = entry
    BY <1>3, <1>l DEF Arrive, AddRead, MarkCount, RetryRead, CompleteLock, RowFree
  <1>6. ASSUME NEW v \in Handlers, Fail(v) \/ Deadlock(v), v # w
        PROVE  lock' = w /\ job' = job /\ entry' = entry
    BY <1>6, <1>l DEF Fail, Deadlock, Refuse, End
  <1>4. ASSUME NEW p \in Paths, InitiateEntry(p)
        PROVE  /\ lock' = w /\ job' = job
               /\ \A q \in Paths : entry'[q] # "failed"
    BY <1>4, <1>l, <1>t DEF InitiateEntry
  <1>5. CASE (\E counted \in BOOLEAN : CompleteManifest(counted)) \/ Cancel \/ UNCHANGED vars
    BY <1>5, <1>l DEF CompleteManifest, Cancel, RowFree, vars
  <1> QED
    BY <1>1, <1>2, <1>3, <1>4, <1>5, <1>6, <1>l DEF Next

(* Every step keeps the seal, and what complete has checked. *)
LEMMA SealedStep ==
  ASSUME TypeOK, SealedForGood, [Next]_vars
  PROVE  SealedForGood'
  <1>t. /\ job \in Job /\ entry \in [Paths -> EntryStatuses] /\ req \in [Handlers -> Request]
        /\ None \notin Paths
    BY DirectoryAssumption DEF TypeOK
  <1>s. Sealed => Sealed'
    <2>1. ASSUME NEW w \in Handlers, Step(w) \/ Arrive(w) \/ Fail(w) \/ Deadlock(w)
          PROVE  job'.manifest = job.manifest
      BY <2>1, <1>t DEF Step, AddOpen, AddInsert, AddCount, MarkCommit, RetryCommit,
                        CompleteCommit, Fail, Deadlock, Refuse,
                        Arrive, AddRead, MarkCount, RetryRead, CompleteLock, Job
    <2>2. ASSUME NEW counted \in BOOLEAN, CompleteManifest(counted)
          PROVE  Sealed'
      <3>1. job'.manifest = Present
        BY <2>2, <1>t DEF CompleteManifest, Job
      <3> QED
        BY <3>1, <1>t DEF Sealed, Present
    <2>3. CASE (\E p \in Paths : InitiateEntry(p)) \/ Cancel \/ UNCHANGED vars
      BY <2>3, <1>t DEF InitiateEntry, Cancel, vars, Job, Sealed
    <2> QED
      BY <2>1, <2>2, <2>3 DEF Next, Sealed
  <1>1. ASSUME NEW w \in Handlers, At(w, "retry")'
        PROVE  Sealed'
    <2>1. CASE req'[w] = req[w]
      BY <2>1, <1>1, <1>s DEF SealedForGood, At
    <2>2. CASE RetryRead(w)
      BY <2>2, <1>s DEF RetryRead, SealedForGood, UploadingIsSealed
    <2>3. CASE CompleteLock(w)
      BY <2>3, <1>1, <1>t DEF CompleteLock, Begin, Idle, At
    <2> QED
      BY <1>1, <2>1, <2>2, <2>3, RequestCases DEF At, Idle
  <1>2. ASSUME NEW w \in Handlers, At(w, "finalize")'
        PROVE  /\ lock' = w /\ job'.status = "uploading"
               /\ \A p \in Paths : entry'[p] # "failed"
    <2>1. CASE req'[w] = req[w]
      BY <2>1, <1>2, FinalizingExcludes DEF SealedForGood, At
    <2>2. CASE CompleteLock(w)
      BY <2>2, <1>t, NoneFailed DEF CompleteLock
    <2>3. CASE RetryRead(w)
      BY <2>3, <1>2, <1>t DEF RetryRead, Begin, Idle, At
    <2> QED
      BY <1>2, <2>1, <2>2, <2>3, RequestCases DEF At, Idle
  <1>3. UploadingIsSealed'
    <2>1. CASE job'.status = job.status
      BY <2>1, <1>s DEF SealedForGood, UploadingIsSealed
    <2>2. ASSUME NEW w \in Handlers, AddCount(w)
          PROVE  UploadingIsSealed'
      <3>1. job'.status \in {job.status, "manifest_uploading"}
        BY <2>2, <1>t DEF AddCount, Job
      <3> QED
        BY <3>1, <2>1 DEF UploadingIsSealed
    <2>3. ASSUME NEW w \in Handlers, \/ AddOpen(w) \/ AddInsert(w) \/ MarkCommit(w)
                                       \/ Arrive(w) \/ Fail(w) \/ Deadlock(w)
          PROVE  job'.status = job.status
      BY <2>3, <1>t DEF AddOpen, AddInsert, MarkCommit, Fail, Deadlock, Refuse, Arrive, AddRead, MarkCount, RetryRead,
                        CompleteLock, Job
    <2>4. ASSUME NEW w \in Handlers, RetryCommit(w) \/ CompleteCommit(w)
          PROVE  Sealed
      BY <2>4 DEF RetryCommit, CompleteCommit, SealedForGood, UploadingIsSealed
    <2>5. ASSUME NEW counted \in BOOLEAN, CompleteManifest(counted)
          PROVE  Sealed'
      <3>1. job'.manifest = Present
        BY <2>5, <1>t DEF CompleteManifest, Job
      <3> QED
        BY <3>1, <1>t DEF Sealed, Present
    <2>6. CASE Cancel
      BY <2>6, <1>t DEF Cancel, UploadingIsSealed, Job
    <2>7. CASE (\E p \in Paths : InitiateEntry(p)) \/ UNCHANGED vars
      BY <2>1, <2>7 DEF InitiateEntry, vars
    <2> QED
      BY <1>s, <2>1, <2>2, <2>3, <2>4, <2>5, <2>6, <2>7 DEF Next, Step, UploadingIsSealed
  <1> QED
    BY <1>1, <1>2, <1>3 DEF SealedForGood

(* The invariant that the theorems about statuses share. *)
LEMMA SealedInvariant == Spec => []SealedForGood
  <1>1. ASSUME Init PROVE SealedForGood
    <2>1. job.status = "created" /\ \A w \in Handlers : req[w].at = "idle"
      BY <1>1 DEF Init, Idle
    <2> QED
      BY <2>1 DEF SealedForGood, UploadingIsSealed, At
  <1>2. TypeOK /\ SealedForGood /\ [Next]_vars => SealedForGood'
    BY SealedStep
  <1> QED
    BY <1>1, <1>2, TypeCorrect, PTL DEF Spec

(* A job uploads, or is completed, only with a completed manifest, whatever   *)
(* stale status the requests write.                                           *)
THEOREM SealedSafe == Spec => []UploadingIsSealed
  BY SealedInvariant, PTL DEF SealedForGood

(* What a step may do to a finished job, and to one it finishes. *)
LEMMA StatusStep ==
  ASSUME TypeOK, SealedForGood, [Next]_vars
  PROVE  /\ job.status # "completed" /\ job'.status = "completed" => With(entry', "failed") = 0
         /\ job.status \in {"completed", "cancelled"} /\ job'.status # job.status =>
              \E w \in Handlers :
                \/ At(w, "retry") /\ job'.status = "uploading"
                \/ At(w, "count") /\ req[w].saw = "created" /\ job'.status = "manifest_uploading"
  <1>t. job \in Job /\ entry \in [Paths -> EntryStatuses] /\ req \in [Handlers -> Request]
    BY DEF TypeOK
  <1>1. ASSUME NEW w \in Handlers, AddCount(w)
        PROVE  \/ job'.status = job.status
               \/ At(w, "count") /\ req[w].saw = "created" /\ job'.status = "manifest_uploading"
    BY <1>1, <1>t DEF AddCount, Job
  <1>2. ASSUME NEW w \in Handlers, \/ AddOpen(w) \/ AddInsert(w) \/ MarkCommit(w)
                                   \/ Arrive(w) \/ Fail(w) \/ Deadlock(w)
        PROVE  job'.status = job.status
    BY <1>2, <1>t DEF AddOpen, AddInsert, MarkCommit, Fail, Deadlock, Refuse, Arrive, AddRead, MarkCount, RetryRead,
                      CompleteLock, Job
  <1>3. ASSUME NEW w \in Handlers, RetryCommit(w)
        PROVE  At(w, "retry") /\ job'.status = "uploading"
    BY <1>3, <1>t DEF RetryCommit, Job
  <1>4. ASSUME NEW w \in Handlers, CompleteCommit(w)
        PROVE  job.status = "uploading" /\ With(entry', "failed") = 0
    <2>1. job.status = "uploading" /\ entry' = entry /\ \A p \in Paths : entry[p] # "failed"
      BY <1>4 DEF CompleteCommit, SealedForGood
    <2> QED
      BY <2>1, <1>t, NoneFailed
  <1>5. ASSUME NEW counted \in BOOLEAN, CompleteManifest(counted)
        PROVE  job.status \in Collecting /\ job'.status = "ready"
    BY <1>5, <1>t DEF CompleteManifest, Job
  <1>6. CASE Cancel
    BY <1>6, <1>t DEF Cancel, Job
  <1>7. CASE (\E p \in Paths : InitiateEntry(p)) \/ UNCHANGED vars
    BY <1>7 DEF InitiateEntry, vars
  <1> QED
    BY <1>1, <1>2, <1>3, <1>4, <1>5, <1>6, <1>7 DEF Next, Step, Collecting

(* No entry has failed in the state in which a job is completed. *)
THEOREM CompletionSafe == Spec => CompletionIsClean
  <1> DEFINE Clean ==
        job.status # "completed" /\ job'.status = "completed" => With(entry', "failed") = 0
  <1>1. TypeOK /\ SealedForGood /\ [Next]_vars => [Clean]_vars
    BY StatusStep
  <1> HIDE DEF Clean
  <1>2. Spec => [][Clean]_vars
    BY <1>1, TypeCorrect, SealedInvariant, PTL DEF Spec
  <1> QED
    BY <1>2, PTL DEF CompletionIsClean, Clean

(* Nothing but the late write of a stale add_entries or retry takes a job     *)
(* out of a final status.                                                     *)
THEOREM ReopeningSafe == Spec => ReopenedOnlyByStaleRequests
  <1> DEFINE Stale ==
        job.status \in {"completed", "cancelled"} /\ job'.status # job.status =>
          \E w \in Handlers :
            \/ At(w, "retry") /\ job'.status = "uploading"
            \/ At(w, "count") /\ req[w].saw = "created" /\ job'.status = "manifest_uploading"
  <1>1. TypeOK /\ SealedForGood /\ [Next]_vars => [Stale]_vars
    BY StatusStep
  <1> HIDE DEF Stale
  <1>2. Spec => [][Stale]_vars
    BY <1>1, TypeCorrect, SealedInvariant, PTL DEF Spec
  <1> QED
    BY <1>2, PTL DEF ReopenedOnlyByStaleRequests, Stale

-----------------------------------------------------------------------------
(* Row locks. *)

(* Who holds what over an await.  The job's row: a completion, or an addition to *)
(* a job it saw "created", from its autoflush on; a reported entry: the one       *)
(* request that has written its result; the key of an entry without a row: one    *)
(* addition (directory_upload_service.py complete, mark_entry_result,             *)
(* add_entries).                                                                  *)
RowLocksAreExclusive ==
  /\ lock # None => \/ At(lock, "finalize")
                    \/ (At(lock, "insert") \/ At(lock, "count")) /\ req[lock].saw = "created"
  /\ \A w \in Handlers : At(w, "finalize") => lock = w
  /\ \A v \in Handlers, w \in Handlers : v # w /\ At(v, "mark") /\ At(w, "mark") =>
       req[v].p # req[w].p \/ req[v].p = None
  /\ \A v \in Handlers, w \in Handlers : v # w => req[v].made \intersect req[w].made = {}

(* Requests do wait for each other in a circle, but never without two additions  *)
(* of one file: some addition of the circle waits for a key that another one of   *)
(* it has inserted and not committed (directory_upload_service.py:192, 249).      *)
CirclesAreAdditions ==
  \A c \in SUBSET Handlers : Circle(c) =>
    \E v \in c, w \in c : v # w /\ At(v, "insert") /\ req[v].p \in req[w].made

(* A result that is being reported is not overwritten: until its own commit the  *)
(* committed status of that entry stays, whatever is added, initiated, completed  *)
(* or reported meanwhile.                                                       *)
ReportsAreSerial ==
  [][\A p \in Paths : EntryLocked(p) /\ entry'[p] # entry[p] =>
       \E w \in Handlers : req[w].p = p /\ MarkCommit(w)]_vars

(* No two open reports have written one entry. *)
ReportsAreOwned ==
  \A v \in Handlers, w \in Handlers : v # w /\ At(v, "mark") /\ At(w, "mark") =>
    req[v].p # req[w].p \/ req[v].p = None

LEMMA ReportsStep ==
  ASSUME TypeOK, ReportsAreOwned, [Next]_vars
  PROVE  ReportsAreOwned'
  <1>t. req \in [Handlers -> Request]
    BY DEF TypeOK
  <1>1. ASSUME NEW w \in Handlers, At(w, "mark")'
        PROVE  \/ req'[w] = req[w]
               \/ /\ \A v \in Handlers : v # w => req'[v] = req[v]
                  /\ \A v \in Handlers : At(v, "mark") => req'[w].p # req[v].p \/ req'[w].p = None
    <2>1. ASSUME NEW p \in Paths, NEW result \in Results, MarkCount(w, p, result)
          PROVE  /\ \A v \in Handlers : v # w => req'[v] = req[v]
                 /\ \A v \in Handlers : At(v, "mark") => req'[w].p # req[v].p \/ req'[w].p = None
      <3>1. \A v \in Handlers : At(v, "mark") => req[v].p # p
        BY <2>1 DEF MarkCount, EntryLocked
      <3>2. req'[w].p \in {p, None} /\ \A v \in Handlers : v # w => req'[v] = req[v]
        BY <2>1, <1>t DEF MarkCount, Begin, Idle
      <3> QED
        BY <3>1, <3>2
    <2> QED
      BY <1>1, <2>1, RequestCases DEF At, Idle
  <1> QED
    BY <1>1 DEF ReportsAreOwned, At

(* The job's row is held by a completion, or by an addition that found none of    *)
(* its paths there: as long as it has the row, no other addition commits one.     *)
HoldersAreKnown ==
  /\ lock # None => \/ At(lock, "finalize")
                    \/ /\ At(lock, "insert") \/ At(lock, "count")
                       /\ req[lock].saw = "created"
                       /\ req[lock].paths \intersect Present = {}
  /\ \A w \in Handlers : At(w, "finalize") => lock = w

LEMMA HoldersStep ==
  ASSUME TypeOK, Reported, HoldersAreKnown, [Next]_vars
  PROVE  HoldersAreKnown'
  <1>t. /\ req \in [Handlers -> Request] /\ entry \in [Paths -> EntryStatuses]
        /\ lock \in Handlers \union {None} /\ None \notin Handlers
    BY DirectoryAssumption DEF TypeOK
  <1>p. ASSUME lock # None, lock' = lock
        PROVE  Present' = Present
    <2>1. ASSUME NEW w \in Handlers, AddCount(w)
          PROVE  FALSE
      <3>1. At(w, "count") /\ ~Waiting(w) /\ lock' = IF lock = w THEN None ELSE lock
        BY <2>1 DEF AddCount, End
      <3>2. lock # w
        BY <3>1, <1>p
      <3>3. Waiting(w)
        BY <3>1, <3>2, <1>p, <1>t DEF Waiting, WaitsFor, AwaitsRow
      <3> QED
        BY <3>1, <3>3
    <2> QED
      BY <2>1, PresentStep
  <1>e. ASSUME NEW w \in Handlers, End(w)
        PROVE  HoldersAreKnown'
    <2>1. /\ req'[w].at = "idle" /\ \A v \in Handlers : v # w => req'[v] = req[v]
          /\ lock' = IF lock = w THEN None ELSE lock
      BY <1>e, <1>t DEF End, Idle
    <2>2. CASE lock' = None
      BY <2>1, <2>2, <1>t DEF HoldersAreKnown, At
    <2>3. CASE lock' # None
      <3>1. lock' = lock /\ lock # w /\ lock # None /\ lock \in Handlers
        BY <2>1, <2>3, <1>t
      <3> QED
        BY <2>1, <3>1, <1>p DEF HoldersAreKnown, At
    <2> QED
      BY <2>2, <2>3
  <1>1. ASSUME NEW w \in Handlers, Refuse(w) \/ Fail(w) \/ Deadlock(w) \/ AddCount(w) \/ MarkCommit(w)
                                   \/ RetryCommit(w) \/ CompleteCommit(w)
        PROVE  HoldersAreKnown'
    BY <1>1, <1>e DEF Refuse, Fail, Deadlock, AddCount, MarkCommit, RetryCommit, CompleteCommit
  <1>2. ASSUME NEW w \in Handlers, AddOpen(w), ~Refuse(w)
        PROVE  HoldersAreKnown'
    <2>1. /\ At(w, "open") /\ ~Waiting(w) /\ entry' = entry
          /\ req[w].paths \intersect Present = {}
          /\ lock' = IF req[w].saw = "created" THEN w ELSE lock
      BY <1>2 DEF AddOpen
    <2>2. /\ req'[w].at = "insert" /\ req'[w].paths = req[w].paths /\ req'[w].saw = req[w].saw
          /\ \A v \in Handlers : v # w => req'[v] = req[v]
      BY <1>2, OpenFields
    <2>3. Present' = Present
      BY <2>1 DEF Present
    <2>4. CASE req[w].saw = "created"
      <3>1. lock \in {None, w}
        BY <2>1, <2>4, <1>t DEF Waiting, WaitsFor, AwaitsRow
      <3> QED
        BY <2>1, <2>2, <2>3, <2>4, <3>1, <1>t DEF HoldersAreKnown, At
    <2>5. CASE req[w].saw # "created"
      <3>1. lock' = lock /\ lock # w
        BY <2>1, <2>5, <1>t DEF HoldersAreKnown, At
      <3> QED
        BY <2>2, <2>3, <3>1, <1>t DEF HoldersAreKnown, At
    <2> QED
      BY <2>4, <2>5
  <1>3. ASSUME NEW w \in Handlers, AddInsert(w), ~Refuse(w)
        PROVE  HoldersAreKnown'
    <2>1. At(w, "insert") /\ entry' = entry /\ lock' = lock
      BY <1>3 DEF AddInsert
    <2>2. /\ req'[w].at \in {"insert", "count"}
          /\ req'[w].paths = req[w].paths /\ req'[w].saw = req[w].saw
          /\ \A v \in Handlers : v # w => req'[v] = req[v]
      BY <1>3, InsertFields
    <2>3. Present' = Present
      BY <2>1 DEF Present
    <2> QED
      BY <2>1, <2>2, <2>3, <1>t DEF HoldersAreKnown, At
  <1>4. ASSUME NEW w \in Handlers, At(w, "idle"), lock' = lock, entry' = entry,
               req'[w].at # "finalize", \A v \in Handlers : v # w => req'[v] = req[v]
        PROVE  HoldersAreKnown'
    <2>1. lock # w /\ Present' = Present
      BY <1>4, <1>t DEF HoldersAreKnown, At, Present
    <2> QED
      BY <1>4, <2>1, <1>t DEF HoldersAreKnown, At
  <1>5. ASSUME NEW w \in Handlers, NEW p \in Paths, NEW result \in Results, MarkCount(w, p, result)
        PROVE  HoldersAreKnown'
    <2>1. /\ At(w, "idle") /\ lock' = lock /\ entry' = entry /\ req'[w].at = "mark"
          /\ \A v \in Handlers : v # w => req'[v] = req[v]
      BY <1>5, <1>t DEF MarkCount, Begin, Idle
    <2> QED
      BY <2>1, <1>4
  <1>6. ASSUME NEW w \in Handlers, NEW paths \in (SUBSET Paths) \ {{}}, AddRead(w, paths)
        PROVE  HoldersAreKnown'
    <2>1. /\ At(w, "idle") /\ lock' = lock /\ entry' = entry /\ req'[w].at = "open"
          /\ \A v \in Handlers : v # w => req'[v] = req[v]
      BY <1>6, <1>t DEF AddRead, Begin, Idle
    <2> QED
      BY <2>1, <1>4
  <1>7. ASSUME NEW w \in Handlers, RetryRead(w)
        PROVE  HoldersAreKnown'
    <2>1. /\ At(w, "idle") /\ lock' = lock /\ entry' = entry /\ req'[w].at = "retry"
          /\ \A v \in Handlers : v # w => req'[v] = req[v]
      BY <1>7, <1>t DEF RetryRead, Begin, Idle
    <2> QED
      BY <2>1, <1>4
  <1>8. ASSUME NEW w \in Handlers, CompleteLock(w)
        PROVE  HoldersAreKnown'
    <2>1. /\ At(w, "idle") /\ lock = None /\ lock' = w /\ req'[w].at = "finalize"
          /\ \A v \in Handlers : v # w => req'[v] = req[v]
      BY <1>8, <1>t DEF CompleteLock, RowFree, Begin, Idle
    <2> QED
      BY <2>1, <1>t DEF HoldersAreKnown, At
  <1>9. CASE UNCHANGED <<lock, req>>
    <2>1. lock # None => Present' = Present
      BY <1>p, <1>9
    <2> QED
      BY <1>9, <2>1 DEF HoldersAreKnown, At
  <1>10. ASSUME NEW w \in Handlers, Step(w)
         PROVE  HoldersAreKnown'
    BY <1>1, <1>2, <1>3, <1>10 DEF Step
  <1>11. ASSUME NEW w \in Handlers, Arrive(w)
         PROVE  HoldersAreKnown'
    BY <1>5, <1>6, <1>7, <1>8, <1>11 DEF Arrive
  <1> QED
    BY <1>1, <1>9, <1>10, <1>11 DEF Next, CompleteManifest, InitiateEntry, Cancel, vars

LEMMA LocksHold == Spec => [](ReportsAreOwned /\ HoldersAreKnown)
  <1>1. ASSUME Init PROVE ReportsAreOwned /\ HoldersAreKnown
    <2>1. lock = None /\ \A w \in Handlers : req[w].at = "idle"
      BY <1>1 DEF Init, Idle
    <2> QED
      BY <2>1 DEF ReportsAreOwned, HoldersAreKnown, At
  <1>2. /\ TypeOK /\ Reported /\ ReportsAreOwned /\ HoldersAreKnown /\ [Next]_vars
        => (ReportsAreOwned /\ HoldersAreKnown)'
    BY ReportsStep, HoldersStep
  <1> QED
    BY <1>1, <1>2, TypeCorrect, KeysInvariant, PTL DEF Spec

(* The locks of a directory job are exclusive, and nothing but a completion and a  *)
(* job's first additions holds the job's row while it waits for something else.    *)
THEOREM LocksSafe == Spec => []RowLocksAreExclusive
  <1>1. ReportsAreOwned /\ HoldersAreKnown /\ KeysAreOwned => RowLocksAreExclusive
    BY DEF ReportsAreOwned, HoldersAreKnown, KeysAreOwned, RowLocksAreExclusive
  <1> QED
    BY <1>1, LocksHold, KeysInvariant, PTL

(* Two additions that list one file may deadlock; without them, whatever the       *)
(* requests of a job do, no circle of waiting ones arises.                         *)
THEOREM CirclesSafe == Spec => []CirclesAreAdditions
  <1>1. ASSUME TypeOK, Inserting, Reported, HoldersAreKnown, KeysAreOwned
        PROVE  CirclesAreAdditions
    <2> SUFFICES ASSUME NEW c \in SUBSET Handlers, Circle(c),
                        \A v \in c, w \in c : v # w /\ At(v, "insert") => req[v].p \notin req[w].made
                 PROVE  FALSE
      BY DEF CirclesAreAdditions
    <2>t. /\ lock \in Handlers \union {None} /\ None \notin Handlers /\ None \notin Paths
          /\ c \subseteq Handlers
      BY <1>1, DirectoryAssumption DEF TypeOK
    <2>1. \A v \in c : \E w \in c : v # w /\ WaitsFor(v, w)
      BY DEF Circle, WaitsFor
    <2>2. lock \notin c
      <3> SUFFICES ASSUME lock \in c PROVE FALSE
        OBVIOUS
      <3>1. PICK w \in c : lock # w /\ WaitsFor(lock, w)
        BY <2>1
      <3>2. AwaitsKey(lock, w)
        BY <3>1 DEF WaitsFor, AwaitsRow
      <3>3. At(lock, "insert") /\ lock # None
        BY <3>2, <2>t DEF AwaitsKey
      <3>4. req[lock].paths \intersect Present = {}
        BY <1>1, <3>3 DEF HoldersAreKnown, At
      <3>x. ~At(w, "finalize")
        BY <1>1, <3>1, <2>t DEF HoldersAreKnown
      <3>5. At(w, "mark") /\ req[w].p = req[lock].p
        BY <1>1, <3>1, <3>2, <3>x DEF AwaitsKey
      <3>6. req[w].p \in Present
        BY <1>1, <3>3, <3>5, <2>t DEF Inserting, Reported
      <3>7. req[lock].p \in req[lock].paths
        BY <1>1, <3>3, <2>t DEF Inserting
      <3> QED
        BY <3>4, <3>5, <3>6, <3>7
    <2>3. ASSUME NEW v \in c
          PROVE  At(v, "insert") /\ \E w \in c : At(w, "mark")
      <3>1. PICK w \in c : v # w /\ WaitsFor(v, w)
        BY <2>1
      <3>2. AwaitsKey(v, w)
        BY <3>1, <2>2 DEF WaitsFor, AwaitsRow
      <3>3. ~At(w, "finalize")
        BY <1>1, <2>2, <2>t, <3>1 DEF HoldersAreKnown
      <3> QED
        BY <3>1, <3>2, <3>3 DEF AwaitsKey
    <2>4. PICK v \in c : TRUE
      BY DEF Circle
    <2> QED
      BY <2>3, <2>4 DEF At
  <1> QED
    BY <1>1, TypeInvariant, LocksHold, KeysInvariant, PTL

(* Two reports of one entry never interleave, and no other request overwrites it  *)
(* in between, although most of them never lock the job before they write.       *)
THEOREM ReportsSafe == Spec => ReportsAreSerial
  <1> DEFINE Serial ==
        \A p \in Paths : EntryLocked(p) /\ entry'[p] # entry[p] =>
          \E w \in Handlers : req[w].p = p /\ MarkCommit(w)
  <1>1. TypeOK /\ Reported /\ KeysAreOwned /\ [Next]_vars => [Serial]_vars
    <2> SUFFICES ASSUME TypeOK, Reported, KeysAreOwned, Next,
                        NEW p \in Paths, EntryLocked(p), entry'[p] # entry[p]
                 PROVE  \E w \in Handlers : req[w].p = p /\ MarkCommit(w)
      OBVIOUS
    <2>t. entry \in [Paths -> EntryStatuses] /\ None \notin Paths
      BY DirectoryAssumption DEF TypeOK
    <2>0. p \in Present
      <3>1. PICK v \in Handlers : At(v, "mark") /\ req[v].p = p
        BY DEF EntryLocked
      <3> QED
        BY <3>1, <2>t DEF Reported
    <2>1. ASSUME NEW w \in Handlers, AddCount(w)
          PROVE  FALSE
      <3>1. p \notin req[w].made
        BY <2>0 DEF KeysAreOwned
      <3> QED
        BY <2>1, <3>1, <2>t DEF AddCount
    <2>2. ASSUME NEW w \in Handlers, MarkCommit(w)
          PROVE  req[w].p = p
      <3>1. entry' = [q \in Paths |-> IF q = req[w].p THEN req[w].result ELSE entry[q]]
        BY <2>2 DEF MarkCommit, Marked
      <3>2. entry'[p] = IF p = req[w].p THEN req[w].result ELSE entry[p]
        BY <3>1
      <3> QED
        BY <3>2
    <2>3. ASSUME NEW w \in Handlers, \/ AddOpen(w) \/ AddInsert(w) \/ RetryCommit(w)
                                     \/ CompleteCommit(w) \/ Arrive(w) \/ Fail(w) \/ Deadlock(w)
          PROVE  entry' = entry
      <3>1. CASE Arrive(w)
        <4>1. ASSUME NEW q \in Paths, NEW result \in Results, MarkCount(w, q, result)
              PROVE  entry' = entry
          <5>1. UNCHANGED <<job, entry, lock>>
            BY <4>1, Zenon DEF MarkCount
          <5> QED
            BY <5>1
        <4>2. ASSUME NEW paths \in (SUBSET Paths) \ {{}}, AddRead(w, paths)
              PROVE  entry' = entry
          <5>1. UNCHANGED <<job, entry, lock>>
            BY <4>2, Zenon DEF AddRead
          <5> QED
            BY <5>1
        <4>3. ASSUME RetryRead(w)
              PROVE  entry' = entry
          <5>1. UNCHANGED <<job, entry, lock>>
            BY <4>3, Zenon DEF RetryRead
          <5> QED
            BY <5>1
        <4>4. ASSUME CompleteLock(w)
              PROVE  entry' = entry
          <5>1. UNCHANGED <<job, entry>>
            BY <4>4, Zenon DEF CompleteLock
          <5> QED
            BY <5>1
        <4> QED
          BY <3>1, <4>1, <4>2, <4>3, <4>4 DEF Arrive
      <3>2. CASE \/ AddOpen(w) \/ AddInsert(w) \/ RetryCommit(w) \/ CompleteCommit(w)
                 \/ Fail(w) \/ Deadlock(w)
        BY <3>2 DEF AddOpen, AddInsert, RetryCommit, CompleteCommit, Fail, Deadlock, Refuse
      <3> QED
        BY <2>3, <3>1, <3>2
    <2>4. ASSUME NEW q \in Paths, InitiateEntry(q)
          PROVE  FALSE
      BY <2>4, <2>t DEF InitiateEntry
    <2> QED
      BY <2>1, <2>2, <2>3, <2>4 DEF Next, Step, CompleteManifest, Cancel
  <1> HIDE DEF Serial
  <1>2. Spec => [][Serial]_vars
    BY <1>1, TypeCorrect, KeysInvariant, PTL DEF Spec
  <1> QED
    BY <1>2, PTL DEF ReportsAreSerial, Serial
=============================================================================
