------------------------- MODULE FileLifecycleProofs -------------------------
(* Proofs about LifecyclePolicy and FileLifecycle for any files, requests,    *)
(* workers, batch sizes, policies and clocks.                                 *)
EXTENDS FileLifecycle, TLAPS

-----------------------------------------------------------------------------
(* Policies. *)

(* A request that extend may build: its date is not read for a TTL mode. *)
Askable(r) ==
  /\ r.mode \in Modes \union {None}
  /\ r.action \in Actions \union {None}
  /\ r.ttl \in Int \union {None}
  /\ r.mode \in TtlModes \/ r.expires \in Int \union {None}

(* The defaults complete every request that the API can build. *)
LEMMA MergedTyped ==
  ASSUME NEW d \in DefaultPolicies, NEW r, Askable(r)
  PROVE  LET q == Merged(d, r) IN
         /\ q.mode \in Modes /\ q.action \in Actions /\ q.ttl \in Int
         /\ q.mode \in TtlModes \/ q.expires \in Int \union {None}
  <1> DEFINE q == IF AllowOverride THEN r ELSE NoRequest
  <1>1. /\ q.mode \in Modes \union {None} /\ q.action \in Actions \union {None}
        /\ q.ttl \in Int \union {None}
        /\ q.mode \in TtlModes \/ q.expires \in Int \union {None}
    BY PolicyAssumption DEF Askable, NoRequest
  <1>2. d.mode \in Modes /\ d.action \in Actions /\ d.ttl \in Int
    BY DEF DefaultPolicies
  <1>3. None \notin TtlModes
    BY PolicyAssumption DEF Modes
  <1>4. Merged(d, r) = [mode    |-> IF q.mode = None THEN d.mode ELSE q.mode,
                        action  |-> IF q.action = None THEN d.action ELSE q.action,
                        ttl     |-> IF q.ttl \in {None, 0} THEN d.ttl ELSE q.ttl,
                        expires |-> q.expires]
    BY DEF Merged
  <1> HIDE DEF q
  <1> QED
    BY <1>1, <1>2, <1>3, <1>4

(* An accepted request gives a policy, with a date where its mode needs one. *)
LEMMA EffectiveTyped ==
  ASSUME NEW d \in DefaultPolicies, NEW r, NEW base \in Int, Askable(r), Acceptable(d, r, base)
  PROVE  Effective(d, r, base) \in Policy
  <1> DEFINE q == Merged(d, r)
  <1>1. /\ q.mode \in Modes /\ q.action \in Actions /\ q.ttl \in Int
        /\ q.mode \in TtlModes \/ q.expires \in Int \union {None}
    BY MergedTyped
  <1>2. q.mode = "expires_at" => q.expires # None
    BY DEF Acceptable
  <1>3. "expires_at" \notin TtlModes
    BY DEF TtlModes
  <1>4. Effective(d, r, base) =
          [mode |-> q.mode, action |-> q.action,
           ttl |-> CASE q.mode \in TtlModes -> q.ttl
                     [] q.mode = "expires_at" -> q.expires - base [] OTHER -> None,
           expires |-> CASE q.mode \in TtlModes -> base + q.ttl
                         [] q.mode = "expires_at" -> q.expires [] OTHER -> None]
    BY DEF Effective
  <1> HIDE DEF q
  <1>5. CASE q.mode \in TtlModes
    BY <1>1, <1>3, <1>4, <1>5 DEF Policy
  <1>6. CASE q.mode = "expires_at"
    BY <1>1, <1>2, <1>3, <1>4, <1>6 DEF Policy
  <1>7. CASE q.mode \notin TtlModes /\ q.mode # "expires_at"
    BY <1>1, <1>4, <1>7 DEF Policy
  <1> QED
    BY <1>5, <1>6, <1>7

(* Whatever a client asks for, an accepted policy keeps the file at least the *)
(* server's minimum from its base, a TTL at most the maximum, and for ever    *)
(* only where the server permits it (docs 14.4).                              *)
THEOREM RetentionBounds ==
  ASSUME NEW d \in DefaultPolicies, NEW r \in PolicyRequest, NEW base \in Int, Acceptable(d, r, base)
  PROVE  LET e == Effective(d, r, base) IN
         /\ e.mode = "permanent" => PermanentAllowed
         /\ e.mode # "permanent" => e.expires >= base + MinTtl
         /\ e.mode \in TtlModes => e.expires <= base + MaxTtl
  <1> DEFINE q == Merged(d, r)
             e == Effective(d, r, base)
  <1>1. Askable(r)
    BY DEF Askable, PolicyRequest
  <1>2. /\ q.mode \in Modes /\ q.ttl \in Int
        /\ q.mode \in TtlModes \/ q.expires \in Int \union {None}
    BY <1>1, MergedTyped
  <1>3. /\ q.mode = "permanent" => PermanentAllowed
        /\ q.mode \in TtlModes => MinTtl <= q.ttl /\ q.ttl <= MaxTtl
        /\ q.mode = "expires_at" => q.expires # None /\ q.expires - base >= MinTtl
    BY DEF Acceptable
  <1>4. /\ e.mode = q.mode
        /\ e.expires = CASE q.mode \in TtlModes -> base + q.ttl
                         [] q.mode = "expires_at" -> q.expires [] OTHER -> None
    BY DEF Effective
  <1>5. /\ MinTtl \in Int /\ MaxTtl \in Int
        /\ q.mode \in TtlModes \/ q.mode = "permanent" \/ q.mode = "expires_at"
        /\ "permanent" \notin TtlModes /\ "expires_at" \notin TtlModes
    BY <1>2, PolicyAssumption DEF Modes, TtlModes
  <1> HIDE DEF q, e
  <1>6. /\ e.mode = "permanent" => PermanentAllowed
        /\ e.mode # "permanent" => e.expires >= base + MinTtl
        /\ e.mode \in TtlModes => e.expires <= base + MaxTtl
    <2>1. CASE q.mode \in TtlModes
      BY <1>2, <1>3, <1>4, <1>5, <2>1
    <2>2. CASE q.mode = "expires_at"
      BY <1>2, <1>3, <1>4, <1>5, <2>2
    <2>3. CASE q.mode = "permanent"
      BY <1>3, <1>4, <1>5, <2>3
    <2> QED
      BY <1>5, <2>1, <2>2, <2>3
  <1> QED
    BY <1>6 DEF e

-----------------------------------------------------------------------------
(* Typing. *)

(* Requests and workers that are busy with a file name one. *)
Busy ==
  /\ \A w \in Handlers : req[w].at # "idle" => req[w].f \in Files
  /\ \A x \in Workers : job[x].at = "erase" => job[x].f \in Files

Typing == TypeOK /\ Busy

(* The initial records are well-typed. *)
LEMMA IdleTyped == Idle \in Request /\ NoJob \in Job /\ NoRow \in Row
  BY PolicyAssumption
     DEF Idle, Request, NoPolicy, Policy, NoJob, Job, NoOutcome, NothingSeen, Seen, Times, Modes,
         Actions, Outcomes, NoRow, Row, Lives

(* Applying a policy to a row gives a row. *)
LEMMA WithPolicyTyped ==
  ASSUME NEW r \in Row, NEW p \in Policy
  PROVE  WithPolicy(r, p) \in Row
  BY PolicyAssumption DEF WithPolicy, Row, Policy, Times

(* A request that fails keeps the types: its object becomes a stray one. *)
LEMMA RefuseTyped ==
  ASSUME Typing, NEW w \in Handlers, Refuse(w)
  PROVE  Typing'
  <1>1. req' \in [Handlers -> Request]
    BY IdleTyped DEF Typing, TypeOK, Refuse
  <1>2. /\ lock' \in [Files -> Handlers \union Workers \union {None}]
        /\ object' \in [Files -> Handlers \union {None, "row", "stray"}]
    BY DEF Typing, TypeOK, Refuse, Released, Abandoned
  <1>3. Busy'
    BY DEF Typing, TypeOK, Busy, Refuse, Idle
  <1> QED
    BY <1>1, <1>2, <1>3 DEF Typing, TypeOK, Refuse

(* The policies clients and operations ask for. *)
LEMMA RequestsAskable == \A r \in Requests : Askable(r)
  BY LifecycleAssumption DEF PolicyRequest, Askable

(* Uploads keep the types. *)
LEMMA UploadTyped ==
  ASSUME Typing, NEW w \in Handlers,
         \/ \E f \in Files, r \in Requests : UploadStart(w, f, r)
         \/ UploadPut(w) \/ UploadMismatch(w) \/ UploadInsert(w)
  PROVE  Typing'
  <1>1. ASSUME NEW f \in Files, NEW r \in Requests, UploadStart(w, f, r)
        PROVE  Typing'
    <2>1. now \in Int
      BY DEF Typing, TypeOK
    <2>3. PICK d \in Defaults, session \in BOOLEAN :
            /\ Acceptable(d, r, now)
            /\ req' = [req EXCEPT ![w] = [at |-> "put", f |-> f, policy |-> Effective(d, r, now),
                                          base |-> now, session |-> session]]
      BY <1>1 DEF UploadStart
    <2>2. Effective(d, r, now) \in Policy
      BY <2>1, <2>3, RequestsAskable, EffectiveTyped, LifecycleAssumption
    <2>4. [at |-> "put", f |-> f, policy |-> Effective(d, r, now),
           base |-> now, session |-> session] \in Request
      BY <2>1, <2>2 DEF Request
    <2>5. req' \in [Handlers -> Request] /\ \A v \in Handlers : v # w => req'[v] = req[v]
      BY <2>3, <2>4 DEF Typing, TypeOK
    <2> QED
      BY <1>1, <2>3, <2>5 DEF Typing, TypeOK, Busy, UploadStart
  <1>2. ASSUME UploadPut(w)
        PROVE  Typing'
    <2>1. CASE Refuse(w)
      BY <2>1, RefuseTyped
    <2>2. CASE ~Refuse(w)
      BY <1>2, <2>2 DEF UploadPut, Typing, TypeOK, Busy, Request
    <2> QED
      BY <2>1, <2>2
  <1>4. ASSUME UploadMismatch(w)
        PROVE  Typing'
    <2>1. req' \in [Handlers -> Request] /\ Busy'
      BY <1>4, IdleTyped DEF UploadMismatch, Typing, TypeOK, Busy, Idle
    <2>2. object' \in [Files -> Handlers \union {None, "row", "stray"}]
      BY <1>4 DEF UploadMismatch, Typing, TypeOK
    <2> QED
      BY <1>4, <2>1, <2>2 DEF UploadMismatch, Typing, TypeOK
  <1>3. ASSUME UploadInsert(w)
        PROVE  Typing'
    <2>1. CASE Refuse(w)
      BY <2>1, RefuseTyped
    <2>2. CASE ~Refuse(w)
      <3> DEFINE created == [NoRow EXCEPT !.status = "active",
                               !.completed = IF req[w].session THEN now ELSE req[w].base]
      <3>1. req[w] \in Request /\ now \in Int /\ req[w].f \in Files
        BY <1>3 DEF Typing, TypeOK, Busy, UploadInsert
      <3>2. created \in Row
        BY <3>1, IdleTyped DEF Row, Request
      <3>3. WithPolicy(created, req[w].policy) \in Row
        BY <3>1, <3>2, WithPolicyTyped DEF Request
      <3>4. row' = [row EXCEPT ![req[w].f] = WithPolicy(created, req[w].policy)]
        BY <1>3, <2>2 DEF UploadInsert
      <3>5. row' \in [Files -> Row]
        BY <3>3, <3>4 DEF Typing, TypeOK
      <3>6. /\ req' = [req EXCEPT ![w] = Idle]
            /\ UNCHANGED <<now, lock, outbox, job>>
            /\ object' = [object EXCEPT ![req[w].f] = IF @ = w THEN "row" ELSE @]
        BY <1>3, <2>2 DEF UploadInsert
      <3>7. req' \in [Handlers -> Request] /\ Busy'
        BY <3>6, IdleTyped DEF Typing, TypeOK, Busy, Idle
      <3> QED
        BY <3>5, <3>6, <3>7 DEF Typing, TypeOK
    <2> QED
      BY <2>1, <2>2
  <1> QED
    BY <1>1, <1>2, <1>3, <1>4

(* Deletions keep the types. *)
LEMMA DeleteTyped ==
  ASSUME Typing, NEW w \in Handlers,
         \/ \E f \in Files : DeleteLock(w, f)
         \/ DeleteErase(w) \/ DeleteCommit(w)
  PROVE  Typing'
  <1>1. ASSUME NEW f \in Files, DeleteLock(w, f)
        PROVE  Typing'
    <2>1. [Idle EXCEPT !.at = "erase", !.f = f] \in Request
      BY IdleTyped DEF Request
    <2> QED
      BY <1>1, <2>1 DEF Typing, TypeOK, Busy, DeleteLock, Idle
  <1>2. ASSUME DeleteErase(w)
        PROVE  Typing'
    <2>1. CASE Refuse(w)
      BY <2>1, RefuseTyped
    <2>2. CASE ~Refuse(w)
      BY <1>2, <2>2 DEF DeleteErase, Typing, TypeOK, Busy, Request
    <2> QED
      BY <2>1, <2>2
  <1>3. ASSUME DeleteCommit(w)
        PROVE  Typing'
    <2>1. req[w].f \in Files /\ row[req[w].f] \in Row
      BY <1>3 DEF DeleteCommit, Typing, TypeOK, Busy
    <2>2. [row[req[w].f] EXCEPT !.status = "deleted", !.life = "deleted"] \in Row
      BY <2>1 DEF Row, Lives
    <2>3. row' \in [Files -> Row]
      BY <1>3, <2>1, <2>2 DEF DeleteCommit, Typing, TypeOK
    <2>4. /\ req' \in [Handlers -> Request] /\ Busy'
          /\ lock' \in [Files -> Handlers \union Workers \union {None}]
      BY <1>3, IdleTyped DEF DeleteCommit, Released, Typing, TypeOK, Busy, Idle
    <2> QED
      BY <1>3, <2>3, <2>4 DEF DeleteCommit, Typing, TypeOK
  <1> QED
    BY <1>1, <1>2, <1>3

(* Writing a row over one row keeps the types. *)
LEMMA WriteTyped ==
  ASSUME Typing, NEW f \in Files, NEW r \in Row, Write(f, r)
  PROVE  Typing'
  BY DEF Typing, TypeOK, Busy, Write

(* Lifecycle operations write rows. *)
LEMMA EditTyped ==
  ASSUME Typing, Edit
  PROVE  Typing'
  <1>1. PICK f \in Files :
          \/ \E r \in Requests : UpdateLifecycle(f, r)
          \/ \E seconds \in Extensions : Extend(f, seconds)
          \/ MakePermanent(f)
          \/ \E hold \in BOOLEAN : SetHold(f, hold)
    BY DEF Edit
  <1>2. row[f] \in Row /\ row[f].completed \in Int
    BY DEF Typing, TypeOK, Row
  <1>3. ASSUME NEW r \in Requests, UpdateLifecycle(f, r)
        PROVE  Typing'
    <2>1. Effective(Bootstrap, r, row[f].completed) \in Policy
      BY <1>2, <1>3, RequestsAskable, EffectiveTyped, LifecycleAssumption DEF UpdateLifecycle
    <2> QED
      BY <1>2, <1>3, <2>1, WithPolicyTyped, WriteTyped DEF UpdateLifecycle
  <1>4. ASSUME NEW seconds \in Extensions, Extend(f, seconds)
        PROVE  Typing'
    <2> DEFINE r == [mode |-> row[f].mode, action |-> row[f].action, ttl |-> row[f].ttl,
                     expires |-> row[f].expires + seconds]
    <2>1. /\ row[f].mode \in TtlModes
          /\ Acceptable(Bootstrap, r, row[f].completed)
          /\ Write(f, WithPolicy(row[f], Effective(Bootstrap, r, row[f].completed)))
      BY <1>4 DEF Extend
    <2>2. Askable(r)
      BY <1>2, <2>1 DEF Askable, Row, Times
    <2>3. Effective(Bootstrap, r, row[f].completed) \in Policy
      BY <1>2, <2>1, <2>2, EffectiveTyped, LifecycleAssumption
    <2> QED
      BY <1>2, <2>1, <2>3, WithPolicyTyped, WriteTyped
  <1>5. CASE MakePermanent(f)
    <2>1. NoPolicy \in Policy
      BY DEF NoPolicy, Policy, Modes, Actions
    <2> QED
      BY <1>2, <1>5, <2>1, WithPolicyTyped, WriteTyped DEF MakePermanent
  <1>6. ASSUME NEW hold \in BOOLEAN, SetHold(f, hold)
        PROVE  Typing'
    <2>1. [row[f] EXCEPT !.hold = hold] \in Row
      BY <1>2 DEF Row
    <2> QED
      BY <1>6, <2>1, WriteTyped DEF SetHold
  <1> QED
    BY <1>1, <1>3, <1>4, <1>5, <1>6

(* Workers keep the types of rows, events and their batches. *)
LEMMA WorkTyped ==
  ASSUME Typing, NEW x \in Workers, Work(x) \/ WorkerFail(x)
  PROVE  Typing'
  <1>j. job \in [Workers -> Job] /\ job[x] \in Job
    BY DEF Typing, TypeOK
  <1>1. ASSUME NEW j \in Job, job' = [job EXCEPT ![x] = j],
               j.at = "erase" => j.f \in Files,
               UNCHANGED <<now, row, outbox, req>>,
               lock' \in [Files -> Handlers \union Workers \union {None}],
               object' \in [Files -> Handlers \union {None, "row", "stray"}]
        PROVE  Typing'
    BY <1>1 DEF Typing, TypeOK, Busy
  <1>2. CASE WorkerSelect(x)
    <2>1. PICK batch \in SUBSET Files :
            job' = [job EXCEPT ![x] = [NoJob EXCEPT !.at = "scan", !.todo = batch,
                                                    !.snap = Snapshot(batch)]]
      BY <1>2 DEF WorkerSelect
    <2>2. Snapshot(batch) \in [Files -> Seen]
      BY DEF Snapshot, Seen, NothingSeen, Typing, TypeOK, Row, Times, Actions
    <2>3. [NoJob EXCEPT !.at = "scan", !.todo = batch, !.snap = Snapshot(batch)] \in Job
      BY <2>2, IdleTyped DEF Job
    <2>4. [NoJob EXCEPT !.at = "scan", !.todo = batch, !.snap = Snapshot(batch)].at # "erase"
      BY DEF NoJob
    <2>5. UNCHANGED <<now, row, lock, object, outbox, req>>
      BY <1>2 DEF WorkerSelect
    <2> QED
      BY <1>1, <2>1, <2>3, <2>4, <2>5 DEF Typing, TypeOK
  <1>3. ASSUME NEW f \in Files, WorkerSkip(x, f)
        PROVE  Typing'
    <2> DEFINE j == [job[x] EXCEPT !.todo = @ \ {f}]
    <2>1. j \in Job
      BY <1>j DEF Job
    <2>2. job' = [job EXCEPT ![x] = j] /\ j.at # "erase"
      BY <1>3, <1>j DEF WorkerSkip, Turn, Job
    <2> QED
      BY <1>1, <1>3, <2>1, <2>2 DEF WorkerSkip, Typing, TypeOK
  <1>4. ASSUME NEW f \in Files, WorkerNotify(x, f)
        PROVE  Typing'
    <2> DEFINE j == [job[x] EXCEPT !.todo = @ \ {f}, !.out[f] = "expired"]
    <2>1. j \in Job
      BY <1>j DEF Job, Outcomes
    <2>2. job' = [job EXCEPT ![x] = j] /\ j.at # "erase"
      BY <1>4, <1>j DEF WorkerNotify, Turn, Job
    <2> QED
      BY <1>1, <1>4, <2>1, <2>2 DEF WorkerNotify, Typing, TypeOK
  <1>5. ASSUME NEW f \in Files, WorkerClaim(x, f)
        PROVE  Typing'
    <2> DEFINE j == [job[x] EXCEPT !.at = "erase", !.f = f]
    <2>1. j \in Job /\ j.f \in Files
      BY <1>j DEF Job
    <2>2. lock' \in [Files -> Handlers \union Workers \union {None}]
      BY <1>5 DEF WorkerClaim, Flushed, Typing, TypeOK
    <2>3. job' = [job EXCEPT ![x] = j]
      BY <1>5, <1>j DEF WorkerClaim
    <2> QED
      BY <1>1, <1>5, <2>1, <2>2, <2>3 DEF WorkerClaim, Typing, TypeOK
  <1>6. CASE WorkerErase(x)
    <2>1. job[x].f \in Files
      BY <1>6 DEF WorkerErase, Typing, Busy
    <2>2. PICK out \in {"deleted", "deleting"} :
            job' = [job EXCEPT ![x].at = "scan", ![x].todo = @ \ {job[x].f},
                               ![x].out[job[x].f] = out]
      BY <1>6 DEF WorkerErase
    <2> DEFINE j == [job[x] EXCEPT !.at = "scan", !.todo = @ \ {job[x].f},
                                   !.out[job[x].f] = out]
    <2>3. j \in Job /\ j.at # "erase"
      BY <1>j, <2>1 DEF Job, Outcomes
    <2>4. job' = [job EXCEPT ![x] = j]
      BY <1>j, <2>1, <2>2 DEF Job
    <2>5. object' \in [Files -> Handlers \union {None, "row", "stray"}]
      BY <1>6 DEF WorkerErase, Typing, TypeOK
    <2> QED
      BY <1>1, <1>6, <2>3, <2>4, <2>5 DEF WorkerErase, Typing, TypeOK
  <1>7. CASE WorkerCommit(x)
    <2>1. ASSUME NEW f \in Files
          PROVE  Outcome(row[f], job[x].out[f]) \in Row
      <3>1. row[f] \in Row /\ job[x].out[f] \in Outcomes \union {None}
        BY <1>j DEF Typing, TypeOK, Job
      <3> QED
        BY <3>1 DEF Outcome, Outcomes, Row, Lives
    <2>2. \A f \in Files : Events(job[x].out[f]) \subseteq {"lifecycle.delete", "lifecycle.notify"}
      BY DEF Events
    <2>3. row' \in [Files -> Row]
      BY <1>7, <2>1 DEF WorkerCommit
    <2>4. outbox' \in [Files -> SUBSET {"lifecycle.delete", "lifecycle.notify"}]
      BY <1>7, <2>2 DEF WorkerCommit, Typing, TypeOK
    <2>5. /\ job' \in [Workers -> Job] /\ Busy'
          /\ lock' \in [Files -> Handlers \union Workers \union {None}]
      BY <1>7, <1>j, IdleTyped DEF WorkerCommit, Released, Typing, TypeOK, Busy, NoJob
    <2> QED
      BY <1>7, <2>3, <2>4, <2>5 DEF WorkerCommit, Typing, TypeOK
  <1>8. CASE WorkerFail(x)
    BY <1>1, <1>8, IdleTyped DEF WorkerFail, Released, NoJob, Typing, TypeOK
  <1> QED
    BY <1>2, <1>3, <1>4, <1>5, <1>6, <1>7, <1>8 DEF Work

(* Every variable keeps its type: rows stay rows, policies computed by every  *)
(* operation are policies, and whoever works on a file names one.             *)
LEMMA Typed == Spec => []Typing
  <1>1. Init => Typing
    BY IdleTyped, LifecycleAssumption DEF Init, Typing, TypeOK, Busy, Idle, NoJob
  <1>2. Typing /\ [Next]_vars => Typing'
    <2> SUFFICES ASSUME Typing, [Next]_vars PROVE Typing'
      OBVIOUS
    <2>1. CASE Tick \/ UNCHANGED vars
      BY <2>1, LifecycleAssumption DEF Tick, vars, Typing, TypeOK, Busy
    <2>2. ASSUME NEW w \in Handlers, Step(w) \/ Arrive(w) \/ Fail(w)
          PROVE  Typing'
      BY <2>2, RefuseTyped, UploadTyped, DeleteTyped DEF Step, Arrive, Fail
    <2> QED
      BY <2>1, <2>2, EditTyped, WorkTyped DEF Next
  <1> QED
    BY <1>1, <1>2, PTL DEF Spec

(* TypeOK for every set of files, requests and workers and every policy. *)
THEOREM TypeCorrect == Spec => []TypeOK
  BY Typed, PTL DEF Typing

-----------------------------------------------------------------------------
(* The schedule. *)

(* ScheduleFollowsPolicy, of keys without a row too: NoRow has no schedule. *)
Scheduled(r) == r.next = IF r.action = "none" THEN None ELSE r.expires
AllScheduled == \A f \in Files : Scheduled(row[f])

(* A policy that is applied schedules its own action. *)
LEMMA WithPolicyScheduled ==
  ASSUME NEW r \in Row, NEW p \in Policy
  PROVE  Scheduled(WithPolicy(r, p))
  BY DEF WithPolicy, Scheduled, Row, Policy

(* The steps that leave the rows alone. *)
RowsKept(w) ==
  \/ \E f \in Files : DeleteLock(w, f) \/ \E r \in Requests : UploadStart(w, f, r)
  \/ UploadPut(w) \/ UploadMismatch(w) \/ DeleteErase(w) \/ Fail(w)

(* Requests write rows only when they insert or delete one, *)
LEMMA RowsKeptByRequest ==
  ASSUME NEW w \in Handlers, RowsKept(w)
  PROVE  row' = row
  BY DEF RowsKept, DeleteLock, UploadStart, UploadPut, UploadMismatch, DeleteErase, Fail, Refuse

(* and workers only when they commit. *)
LEMMA RowsKeptByWorker ==
  ASSUME NEW x \in Workers, Work(x) \/ WorkerFail(x), ~WorkerCommit(x)
  PROVE  row' = row
  BY DEF Work, WorkerSelect, WorkerSkip, WorkerNotify, WorkerClaim, WorkerErase, WorkerFail

(* What a step does to the rows, for the proofs below. *)
LEMMA RowCases ==
  ASSUME [Next]_vars
  PROVE  \/ row' = row
         \/ \E w \in Handlers : UploadInsert(w) \/ DeleteCommit(w)
         \/ Edit
         \/ \E x \in Workers : WorkerCommit(x)
  <1>1. ASSUME NEW w \in Handlers, Step(w) \/ Arrive(w) \/ Fail(w)
        PROVE  row' = row \/ UploadInsert(w) \/ DeleteCommit(w)
    BY <1>1, RowsKeptByRequest DEF Step, Arrive, RowsKept
  <1>2. CASE Tick \/ UNCHANGED vars
    BY <1>2 DEF Tick, vars
  <1> QED
    BY <1>1, <1>2, RowsKeptByWorker DEF Next

(* An insertion takes a key that never had a row. *)
LEMMA InsertRow ==
  ASSUME Typing, NEW w \in Handlers, UploadInsert(w), row' # row
  PROVE  \E r \in Row :
           /\ req[w].f \in Files /\ row[req[w].f].status = "none"
           /\ r.status = "active" /\ r.life = "active" /\ Scheduled(r)
           /\ row' = [row EXCEPT ![req[w].f] = r]
           /\ UNCHANGED <<lock, outbox, job>>
           /\ object' = [object EXCEPT ![req[w].f] = IF @ = w THEN "row" ELSE @]
           /\ req' = [req EXCEPT ![w] = Idle]
  <1> DEFINE created == [NoRow EXCEPT !.status = "active",
                           !.completed = IF req[w].session THEN now ELSE req[w].base]
             r == WithPolicy(created, req[w].policy)
  <1>1. req[w] \in Request /\ now \in Int /\ req[w].f \in Files
    BY DEF Typing, TypeOK, Busy, UploadInsert
  <1>2. /\ row[req[w].f].status = "none"
        /\ row' = [row EXCEPT ![req[w].f] = r]
        /\ UNCHANGED <<lock, outbox, job>>
        /\ object' = [object EXCEPT ![req[w].f] = IF @ = w THEN "row" ELSE @]
        /\ req' = [req EXCEPT ![w] = Idle]
    BY DEF UploadInsert, Exists, Refuse
  <1>3. /\ created \in Row /\ req[w].policy \in Policy
        /\ created.status = "active" /\ created.life = "active"
    BY <1>1, IdleTyped DEF Row, Request, NoRow
  <1>4. r \in Row /\ Scheduled(r)
    BY <1>3, WithPolicyTyped, WithPolicyScheduled
  <1>5. r.status = "active" /\ r.life = "active"
    BY <1>3 DEF WithPolicy, Row
  <1> HIDE DEF r
  <1> QED
    BY <1>1, <1>2, <1>4, <1>5

(* An edit rewrites one row under its lock and keeps status and life. *)
LEMMA EditRow ==
  ASSUME Typing, Edit
  PROVE  \E f \in Files, r \in Row :
           /\ Exists(f) /\ lock[f] = None
           /\ r.status = row[f].status /\ r.life = row[f].life
           /\ Scheduled(row[f]) => Scheduled(r)
           /\ row' = [row EXCEPT ![f] = r]
           /\ UNCHANGED <<now, lock, object, outbox, req, job>>
  <1>1. PICK f \in Files :
          \/ \E r \in Requests : UpdateLifecycle(f, r)
          \/ \E seconds \in Extensions : Extend(f, seconds)
          \/ MakePermanent(f)
          \/ \E hold \in BOOLEAN : SetHold(f, hold)
    BY DEF Edit
  <1>2. row[f] \in Row /\ row[f].completed \in Int
    BY DEF Typing, TypeOK, Row
  <1>3. ASSUME NEW p \in Policy, Write(f, WithPolicy(row[f], p))
        PROVE  \E r \in Row :
           /\ Exists(f) /\ lock[f] = None
           /\ r.status = row[f].status /\ r.life = row[f].life
           /\ Scheduled(row[f]) => Scheduled(r)
           /\ row' = [row EXCEPT ![f] = r]
           /\ UNCHANGED <<now, lock, object, outbox, req, job>>
    <2> DEFINE r == WithPolicy(row[f], p)
    <2>1. r \in Row /\ Scheduled(r)
      BY <1>2, WithPolicyTyped, WithPolicyScheduled
    <2>2. r.status = row[f].status /\ r.life = row[f].life
      BY <1>2 DEF WithPolicy, Row
    <2>3. /\ Exists(f) /\ lock[f] = None /\ row' = [row EXCEPT ![f] = r]
          /\ UNCHANGED <<now, lock, object, outbox, req, job>>
      BY <1>3 DEF Write, Free
    <2> HIDE DEF r
    <2> QED
      BY <2>1, <2>2, <2>3
  <1>4. ASSUME NEW r \in Requests, UpdateLifecycle(f, r)
        PROVE  \E p \in Policy : Write(f, WithPolicy(row[f], p))
    <2>1. Effective(Bootstrap, r, row[f].completed) \in Policy
      BY <1>2, <1>4, RequestsAskable, EffectiveTyped, LifecycleAssumption DEF UpdateLifecycle
    <2> QED
      BY <1>4, <2>1 DEF UpdateLifecycle
  <1>5. ASSUME NEW seconds \in Extensions, Extend(f, seconds)
        PROVE  \E p \in Policy : Write(f, WithPolicy(row[f], p))
    <2> DEFINE r == [mode |-> row[f].mode, action |-> row[f].action, ttl |-> row[f].ttl,
                     expires |-> row[f].expires + seconds]
    <2>1. /\ row[f].mode \in TtlModes
          /\ Acceptable(Bootstrap, r, row[f].completed)
          /\ Write(f, WithPolicy(row[f], Effective(Bootstrap, r, row[f].completed)))
      BY <1>5 DEF Extend
    <2>2. Askable(r)
      BY <1>2, <2>1 DEF Askable, Row, Times
    <2>3. Effective(Bootstrap, r, row[f].completed) \in Policy
      BY <1>2, <2>1, <2>2, EffectiveTyped, LifecycleAssumption
    <2> QED
      BY <2>1, <2>3
  <1>6. ASSUME MakePermanent(f)
        PROVE  \E p \in Policy : Write(f, WithPolicy(row[f], p))
    <2>1. NoPolicy \in Policy
      BY DEF NoPolicy, Policy, Modes, Actions
    <2> QED
      BY <1>6, <2>1 DEF MakePermanent
  <1>7. ASSUME NEW hold \in BOOLEAN, SetHold(f, hold)
        PROVE  \E r \in Row :
           /\ Exists(f) /\ lock[f] = None
           /\ r.status = row[f].status /\ r.life = row[f].life
           /\ Scheduled(row[f]) => Scheduled(r)
           /\ row' = [row EXCEPT ![f] = r]
           /\ UNCHANGED <<now, lock, object, outbox, req, job>>
    <2> DEFINE r == [row[f] EXCEPT !.hold = hold]
    <2>1. /\ r \in Row /\ r.status = row[f].status /\ r.life = row[f].life
          /\ Scheduled(row[f]) => Scheduled(r)
      BY <1>2 DEF Row, Scheduled
    <2>2. /\ Exists(f) /\ lock[f] = None /\ row' = [row EXCEPT ![f] = r]
          /\ UNCHANGED <<now, lock, object, outbox, req, job>>
      BY <1>7 DEF SetHold, Write, Free
    <2> HIDE DEF r
    <2> QED
      BY <2>1, <2>2
  <1> QED
    BY <1>1, <1>3, <1>4, <1>5, <1>6, <1>7

(* Every step leaves every row scheduled by its policy. *)
LEMMA ScheduleStep ==
  ASSUME Typing, AllScheduled, [Next]_vars
  PROVE  AllScheduled'
  <1>r. row \in [Files -> Row]
    BY DEF Typing, TypeOK
  <1>1. CASE row' = row
    BY <1>1 DEF AllScheduled
  <1>2. ASSUME NEW w \in Handlers, UploadInsert(w), row' # row
        PROVE  AllScheduled'
    BY <1>2, <1>r, InsertRow DEF AllScheduled
  <1>3. ASSUME NEW w \in Handlers, DeleteCommit(w)
        PROVE  AllScheduled'
    BY <1>3, <1>r DEF DeleteCommit, AllScheduled, Scheduled, Row
  <1>4. CASE Edit
    BY <1>4, <1>r, EditRow DEF AllScheduled
  <1>5. ASSUME NEW x \in Workers, WorkerCommit(x)
        PROVE  AllScheduled'
    <2>1. \A out : \A r \in Row : Scheduled(r) => Scheduled(Outcome(r, out))
      BY DEF Scheduled, Outcome, Row
    <2> QED
      BY <1>5, <1>r, <2>1 DEF WorkerCommit, AllScheduled
  <1> QED
    BY <1>1, <1>2, <1>3, <1>4, <1>5, RowCases

(* Whichever of the six operations wrote a row last, in any order and with    *)
(* any policy, its next action is its policy's.                               *)
THEOREM ScheduleSafe == Spec => []ScheduleFollowsPolicy
  <1>1. Init => AllScheduled
    BY DEF Init, AllScheduled, Scheduled, NoRow
  <1>2. Typing /\ AllScheduled /\ [Next]_vars => AllScheduled'
    BY ScheduleStep
  <1>3. AllScheduled => ScheduleFollowsPolicy
    BY DEF AllScheduled, Scheduled, ScheduleFollowsPolicy
  <1> QED
    BY <1>1, <1>2, <1>3, Typed, PTL DEF Spec

-----------------------------------------------------------------------------
(* Deletions. *)

(* No step of anybody else changes what a deletion has checked. *)
LEMMA DeletionStep ==
  ASSUME Typing, DeletionChecksHold, [Next]_vars
  PROVE  DeletionChecksHold'
  <1>t. /\ row \in [Files -> Row] /\ req \in [Handlers -> Request]
        /\ lock \in [Files -> Handlers \union Workers \union {None}]
        /\ job \in [Workers -> Job]
    BY DEF Typing, TypeOK
  <1>a. None \notin Handlers /\ Handlers \intersect Workers = {}
    BY LifecycleAssumption
  <1> SUFFICES ASSUME NEW w \in Handlers, req'[w].at \in {"erase", "erased"}
               PROVE  /\ lock'[req'[w].f] = w
                      /\ row'[req'[w].f].status = "active" /\ ~row'[req'[w].f].hold
    BY DEF DeletionChecksHold
  <1> DEFINE f == req[w].f
             Holds == /\ lock'[req'[w].f] = w
                      /\ row'[req'[w].f].status = "active" /\ ~row'[req'[w].f].hold
             Kept == /\ req[w].at \in {"erase", "erased"} => f \in Files
                     /\ req[w].at \in {"erase", "erased"} =>
                          lock[f] = w /\ row[f].status = "active" /\ ~row[f].hold
  <1>k. Kept
    BY DEF Typing, Busy, DeletionChecksHold
  <1>1. CASE /\ req'[w].at = req[w].at \/ req[w].at = "erase"
             /\ req'[w].f = req[w].f
             /\ f \in Files /\ lock[f] = w => lock'[f] = w
             /\ f \in Files /\ lock[f] = w /\ row[f].status = "active" => row'[f] = row[f]
    BY <1>1, <1>k
  <1>2. ASSUME NEW v \in Handlers, Step(v) \/ Arrive(v) \/ Fail(v), v # w
        PROVE  Holds
    <2>1. req'[w] = req[w]
      BY <1>2, <1>t DEF Step, Arrive, Fail, UploadStart, UploadPut, UploadMismatch, UploadInsert, DeleteLock,
                        DeleteErase, DeleteCommit, Refuse
    <2>2. f \in Files /\ lock[f] = w => lock'[f] = w
      BY <1>2, <1>t, <1>a DEF Step, Arrive, Fail, UploadStart, UploadPut, UploadMismatch, UploadInsert, DeleteLock,
                        DeleteErase, DeleteCommit, Refuse, Released, Free
    <2>3. ASSUME f \in Files, lock[f] = w, row[f].status = "active"
          PROVE  row'[f] = row[f]
      <3>1. CASE row' = row
        BY <3>1
      <3>2. CASE UploadInsert(v) /\ row' # row
        BY <3>2, <2>3, <1>t, InsertRow
      <3>3. CASE DeleteCommit(v)
        <4>1. lock[req[v].f] = v
          BY <3>3 DEF DeleteCommit, DeletionChecksHold
        <4> QED
          BY <4>1, <3>3, <2>3, <1>2, <1>t DEF DeleteCommit
      <3> QED
        BY <1>2, <3>1, <3>2, <3>3, RowsKeptByRequest DEF Step, Arrive, RowsKept
    <2> QED
      BY <1>1, <2>1, <2>2, <2>3
  <1>3. CASE Step(w) \/ Arrive(w) \/ Fail(w)
    <2>1. ASSUME NEW g \in Files, DeleteLock(w, g)
          PROVE  Holds
      BY <2>1, <1>t DEF DeleteLock, Idle
    <2>2. CASE DeleteErase(w)
      <3>1. CASE Refuse(w)
        BY <3>1, <1>t DEF Refuse, Idle
      <3>2. CASE ~Refuse(w)
        BY <2>2, <3>2, <1>1, <1>t DEF DeleteErase, Request
      <3> QED
        BY <3>1, <3>2
    <2>3. CASE UploadPut(w) \/ UploadMismatch(w) \/ UploadInsert(w) \/ DeleteCommit(w) \/ Fail(w)
      <3>1. req'[w].at \in {"idle", "insert"}
        BY <2>3, <1>t DEF UploadPut, UploadMismatch, UploadInsert, DeleteCommit, Fail, Refuse, Idle, Request
      <3> QED
        BY <3>1
    <2>4. ASSUME NEW g \in Files, NEW r \in Requests, UploadStart(w, g, r)
          PROVE  Holds
      BY <2>4, <1>t DEF UploadStart
    <2> QED
      BY <1>3, <2>1, <2>2, <2>3, <2>4 DEF Step, Arrive
  <1>4. CASE Edit
    BY <1>4, <1>1, <1>t, <1>a, EditRow
  <1>5. ASSUME NEW x \in Workers, Work(x) \/ WorkerFail(x)
        PROVE  Holds
    <2>1. req' = req /\ x # w
      BY <1>5, <1>a DEF Work, WorkerSelect, WorkerSkip, WorkerNotify, WorkerClaim, WorkerErase,
                        WorkerCommit, WorkerFail
    <2>2. ASSUME f \in Files, lock[f] = w
          PROVE  lock'[f] = w
      BY <1>5, <2>1, <2>2, <1>t, <1>a
         DEF Work, WorkerSelect, WorkerSkip, WorkerNotify, WorkerClaim, WorkerErase,
             WorkerCommit, WorkerFail, Released, Flushed, MayLock
    <2>3. ASSUME f \in Files, lock[f] = w
          PROVE  row'[f] = row[f]
      <3>1. CASE ~WorkerCommit(x)
        BY <3>1, <1>5, RowsKeptByWorker
      <3>2. CASE WorkerCommit(x)
        <4>1. job[x].out[f] = None
          BY <3>2, <2>1, <2>3, <1>a DEF WorkerCommit, MayLock, Dirty
        <4> QED
          BY <3>2, <4>1, <2>3 DEF WorkerCommit, Outcome
      <3> QED
        BY <3>1, <3>2
    <2> QED
      BY <1>1, <2>1, <2>2, <2>3
  <1>6. CASE Tick \/ UNCHANGED vars
    BY <1>6, <1>1 DEF Tick, vars
  <1> QED
    BY <1>2, <1>3, <1>4, <1>5, <1>6 DEF Next

(* A deletion decides under the row lock and nothing it decided by can change *)
(* before it commits: no hold, no other deletion, no worker.                  *)
THEOREM DeletionSafe == Spec => []DeletionChecksHold
  <1>1. Init => DeletionChecksHold
    BY DEF Init, DeletionChecksHold, Idle
  <1>2. Typing /\ DeletionChecksHold /\ [Next]_vars => DeletionChecksHold'
    BY DeletionStep
  <1> QED
    BY <1>1, <1>2, Typed, PTL DEF Spec

-----------------------------------------------------------------------------
(* Objects of deleted rows. *)

(* Whose batch a file is in, or was written by. *)
InBatch(j, f) ==
  f \in j.todo \/ j.out[f] # None \/ (j.at = "erase" /\ j.f = f)

(* What a request or a worker that is about to write "deleted" knows. *)
Erasure ==
  /\ \A w \in Handlers : req[w].at = "erased" => object[req[w].f] # "row"
  /\ \A x \in Workers, f \in Files :
       /\ job[x].out[f] = "deleted" => object[f] # "row"
       /\ InBatch(job[x], f) => Exists(f)

(* A key that has a row has one for ever: rows are only marked deleted. *)
LEMMA RowsStay ==
  ASSUME Typing, [Next]_vars, NEW f \in Files, Exists(f)
  PROVE  Exists(f)'
  <1>t. row \in [Files -> Row]
    BY DEF Typing, TypeOK
  <1>1. CASE row' = row
    BY <1>1 DEF Exists
  <1>2. ASSUME NEW w \in Handlers, UploadInsert(w), row' # row
        PROVE  Exists(f)'
    BY <1>2, <1>t, InsertRow DEF Exists
  <1>3. ASSUME NEW w \in Handlers, DeleteCommit(w)
        PROVE  Exists(f)'
    BY <1>3, <1>t DEF DeleteCommit, Exists, Row
  <1>4. CASE Edit
    BY <1>4, <1>t, EditRow DEF Exists
  <1>5. ASSUME NEW x \in Workers, WorkerCommit(x)
        PROVE  Exists(f)'
    <2>1. \A out : \A r \in Row : r.status # "none" => Outcome(r, out).status # "none"
      BY DEF Outcome, Row
    <2> QED
      BY <1>5, <1>t, <2>1 DEF WorkerCommit, Exists
  <1> QED
    BY <1>1, <1>2, <1>3, <1>4, <1>5, RowCases

(* An object becomes the one a row describes only by the insertion of a row.  *)
LEMMA ObjectsGone ==
  ASSUME Typing, [Next]_vars, NEW f \in Files, Exists(f), object[f] # "row"
  PROVE  object'[f] # "row"
  <1>t. /\ object \in [Files -> Handlers \union {None, "row", "stray"}]
        /\ None # "row" /\ "row" \notin Handlers /\ "stray" # "row"
    BY LifecycleAssumption DEF Typing, TypeOK
  <1>1. ASSUME NEW w \in Handlers, Refuse(w)
        PROVE  object'[f] # "row"
    BY <1>1, <1>t DEF Refuse, Abandoned
  <1>2. ASSUME NEW w \in Handlers, UploadInsert(w)
        PROVE  object'[f] # "row"
    <2>1. CASE row' = row /\ ~Refuse(w)
      <3>1. /\ req[w].f \in Files /\ ~Exists(req[w].f)
            /\ object' = [object EXCEPT ![req[w].f] = IF @ = w THEN "row" ELSE @]
        BY <1>2, <2>1 DEF UploadInsert, Typing, Busy
      <3> QED
        BY <3>1, <1>t
    <2>2. CASE row' # row
      BY <1>2, <2>2, <1>t, InsertRow DEF Exists
    <2> QED
      BY <1>1, <2>1, <2>2
  <1>3. ASSUME NEW w \in Handlers, Step(w) \/ Arrive(w) \/ Fail(w)
        PROVE  object'[f] # "row"
    BY <1>1, <1>2, <1>3, <1>t DEF Step, Arrive, Fail, UploadStart, UploadPut, UploadMismatch, DeleteLock,
                                  DeleteErase, DeleteCommit
  <1>4. CASE Edit
    BY <1>4, EditRow
  <1>5. ASSUME NEW x \in Workers, Work(x) \/ WorkerFail(x)
        PROVE  object'[f] # "row"
    BY <1>5, <1>t DEF Work, WorkerSelect, WorkerSkip, WorkerNotify, WorkerClaim, WorkerErase,
                      WorkerCommit, WorkerFail
  <1>6. CASE Tick \/ UNCHANGED vars
    BY <1>6 DEF Tick, vars
  <1> QED
    BY <1>3, <1>4, <1>5, <1>6 DEF Next

(* A job changes in steps of its worker only. *)
LEMMA JobKept ==
  ASSUME Typing, [Next]_vars, NEW x \in Workers, ~(Work(x) \/ WorkerFail(x))
  PROVE  job'[x] = job[x]
  <1>t. job \in [Workers -> Job]
    BY DEF Typing, TypeOK
  <1>1. ASSUME NEW w \in Handlers, Step(w) \/ Arrive(w) \/ Fail(w)
        PROVE  job' = job
    BY <1>1 DEF Step, Arrive, Fail, UploadStart, UploadPut, UploadMismatch, UploadInsert, DeleteLock,
                DeleteErase, DeleteCommit, Refuse
  <1>2. CASE Edit
    BY <1>2, EditRow
  <1>3. ASSUME NEW y \in Workers, Work(y) \/ WorkerFail(y), y # x
        PROVE  job'[x] = job[x]
    BY <1>3, <1>t DEF Work, WorkerSelect, WorkerSkip, WorkerNotify, WorkerClaim, WorkerErase,
                      WorkerCommit, WorkerFail
  <1>4. CASE Tick \/ UNCHANGED vars
    BY <1>4 DEF Tick, vars
  <1> QED
    BY <1>1, <1>2, <1>3, <1>4 DEF Next

(* A step of worker x keeps what Erasure says of its batch. *)
LEMMA BatchStep ==
  ASSUME Typing, Erasure, NEW x \in Workers, Work(x) \/ WorkerFail(x), NEW f \in Files
  PROVE  /\ job'[x].out[f] = "deleted" => object'[f] # "row"
         /\ InBatch(job'[x], f) => Exists(f)
  <1>t. /\ job \in [Workers -> Job] /\ job[x] \in Job
        /\ object \in [Files -> Handlers \union {None, "row", "stray"}]
        /\ None \notin {"row", "deleted", "deleting", "expired"}
    BY LifecycleAssumption DEF Typing, TypeOK
  <1>e. /\ job[x].out[f] = "deleted" => object[f] # "row"
        /\ InBatch(job[x], f) => Exists(f)
    BY DEF Erasure
  <1>1. CASE WorkerSelect(x)
    <2>1. PICK batch \in SUBSET {g \in Files : Due(g)} :
            job' = [job EXCEPT ![x] = [NoJob EXCEPT !.at = "scan", !.todo = batch,
                                                    !.snap = Snapshot(batch)]]
      BY <1>1 DEF WorkerSelect
    <2>2. job'[x].todo = batch /\ job'[x].at = "scan" /\ job'[x].out = NoOutcome
      BY <2>1, <1>t DEF NoJob
    <2> QED
      BY <2>2, <1>t DEF InBatch, Due, Exists, NoOutcome
  <1>2. ASSUME NEW g \in Files, WorkerSkip(x, g)
        PROVE  /\ job'[x].out[f] = "deleted" => object'[f] # "row"
               /\ InBatch(job'[x], f) => Exists(f)
    <2>1. job'[x] = [job[x] EXCEPT !.todo = @ \ {g}]
      BY <1>2, <1>t DEF WorkerSkip
    <2> QED
      BY <2>1, <1>2, <1>t, <1>e DEF InBatch, Job, WorkerSkip
  <1>3. ASSUME NEW g \in Files, WorkerNotify(x, g)
        PROVE  /\ job'[x].out[f] = "deleted" => object'[f] # "row"
               /\ InBatch(job'[x], f) => Exists(f)
    <2>1. job'[x] = [job[x] EXCEPT !.todo = @ \ {g}, !.out[g] = "expired"]
      BY <1>3, <1>t DEF WorkerNotify
    <2>2. g \in job[x].todo
      BY <1>3 DEF WorkerNotify, Turn
    <2> QED
      BY <2>1, <2>2, <1>3, <1>t, <1>e DEF InBatch, Job, WorkerNotify
  <1>4. ASSUME NEW g \in Files, WorkerClaim(x, g)
        PROVE  /\ job'[x].out[f] = "deleted" => object'[f] # "row"
               /\ InBatch(job'[x], f) => Exists(f)
    <2>1. job'[x] = [job[x] EXCEPT !.at = "erase", !.f = g]
      BY <1>4, <1>t DEF WorkerClaim
    <2>2. g \in job[x].todo
      BY <1>4 DEF WorkerClaim, Turn
    <2> QED
      BY <2>1, <2>2, <1>4, <1>t, <1>e DEF InBatch, Job, WorkerClaim
  <1>5. CASE WorkerErase(x)
    <2> DEFINE g == job[x].f
    <2>1. g \in Files /\ job[x].at = "erase"
      BY <1>5 DEF WorkerErase, Typing, Busy
    <2>2. PICK out \in {"deleted", "deleting"} :
            /\ job' = [job EXCEPT ![x].at = "scan", ![x].todo = @ \ {g}, ![x].out[g] = out]
            /\ out = "deleted" => object' = [object EXCEPT ![g] = None]
            /\ out # "deleted" => object' = object
      BY <1>5 DEF WorkerErase
    <2>3. job'[x] = [job[x] EXCEPT !.at = "scan", !.todo = @ \ {g}, !.out[g] = out]
      BY <2>2, <1>t
    <2> QED
      BY <2>1, <2>2, <2>3, <1>t, <1>e DEF InBatch, Job
  <1>6. CASE WorkerCommit(x) \/ WorkerFail(x)
    <2>1. job'[x] = NoJob
      BY <1>6, <1>t DEF WorkerCommit, WorkerFail
    <2> QED
      BY <2>1, <1>t DEF NoJob, NoOutcome, InBatch
  <1> QED
    BY <1>1, <1>2, <1>3, <1>4, <1>5, <1>6 DEF Work

(* Every step keeps what those who will write "deleted" know. *)
LEMMA ErasureStep ==
  ASSUME Typing, DeletionChecksHold, Erasure, [Next]_vars
  PROVE  Erasure'
  <1>1. ASSUME NEW x \in Workers, NEW f \in Files
        PROVE  /\ job'[x].out[f] = "deleted" => object'[f] # "row"
               /\ InBatch(job'[x], f) => Exists(f)'
    <2>1. CASE Work(x) \/ WorkerFail(x)
      BY <2>1, BatchStep, RowsStay
    <2>2. CASE ~(Work(x) \/ WorkerFail(x))
      <3>1. job'[x] = job[x]
        BY <2>2, JobKept
      <3>2. job[x].out[f] = "deleted" => InBatch(job[x], f)
        BY LifecycleAssumption DEF InBatch
      <3> QED
        BY <3>1, <3>2, ObjectsGone, RowsStay DEF Erasure
    <2> QED
      BY <2>1, <2>2
  <1>2. ASSUME NEW w \in Handlers, req'[w].at = "erased"
        PROVE  object'[req'[w].f] # "row"
    <2>t. /\ req \in [Handlers -> Request] /\ "row" # None
          /\ object \in [Files -> Handlers \union {None, "row", "stray"}]
      BY LifecycleAssumption DEF Typing, TypeOK
    <2>1. CASE req'[w] = req[w]
      <3>1. /\ req[w].f \in Files /\ row[req[w].f].status = "active"
            /\ object[req[w].f] # "row"
        BY <2>1, <1>2 DEF Typing, Busy, DeletionChecksHold, Erasure
      <3> QED
        BY <2>1, <3>1, ObjectsGone DEF Exists
    <2>2. CASE DeleteErase(w)
      <3>1. CASE Refuse(w)
        BY <3>1, <1>2, <2>t DEF Refuse, Idle
      <3>2. CASE ~Refuse(w)
        <4>1. req[w].f \in Files
          BY <2>2 DEF DeleteErase, Typing, Busy
        <4>2. /\ object' = [object EXCEPT ![req[w].f] = None]
              /\ req' = [req EXCEPT ![w].at = "erased"]
          BY <2>2, <3>2 DEF DeleteErase
        <4> QED
          BY <4>1, <4>2, <2>t DEF Request
      <3> QED
        BY <3>1, <3>2
    <2>3. CASE (Step(w) \/ Arrive(w) \/ Fail(w)) /\ ~DeleteErase(w)
      <3>1. ASSUME NEW f \in Files, NEW r \in Requests, UploadStart(w, f, r)
            PROVE  req'[w].at = "put"
        BY <3>1, <2>t DEF UploadStart
      <3>2. ASSUME NEW f \in Files, DeleteLock(w, f)
            PROVE  req'[w].at = "erase"
        BY <3>2, <2>t DEF DeleteLock, Idle
      <3>3. CASE UploadPut(w)
        <4>1. CASE Refuse(w)
          BY <4>1, <1>2, <2>t DEF Refuse, Idle
        <4>2. CASE req' = [req EXCEPT ![w].at = "insert"]
          BY <4>2, <1>2, <2>t DEF Request
        <4> QED
          BY <3>3, <4>1, <4>2 DEF UploadPut
      <3>4. CASE UploadMismatch(w) \/ UploadInsert(w) \/ DeleteCommit(w) \/ Fail(w)
        <4>1. req' = [req EXCEPT ![w] = Idle]
          BY <3>4 DEF UploadMismatch, UploadInsert, DeleteCommit, Fail, Refuse
        <4> QED
          BY <4>1, <1>2, <2>t DEF Idle
      <3> QED
        BY <2>3, <3>1, <3>2, <3>3, <3>4, <1>2 DEF Step, Arrive
    <2>4. ASSUME NEW v \in Handlers, Step(v) \/ Arrive(v) \/ Fail(v), v # w
          PROVE  req'[w] = req[w]
      BY <2>4, <2>t DEF Step, Arrive, Fail, UploadStart, UploadPut, UploadMismatch, UploadInsert, DeleteLock,
                        DeleteErase, DeleteCommit, Refuse
    <2>5. CASE Edit \/ Tick \/ UNCHANGED vars
      BY <2>1, <2>5, EditRow DEF Tick, vars
    <2>6. ASSUME NEW x \in Workers, Work(x) \/ WorkerFail(x)
          PROVE  req' = req
      BY <2>6 DEF Work, WorkerSelect, WorkerSkip, WorkerNotify, WorkerClaim, WorkerErase,
                  WorkerCommit, WorkerFail
    <2> QED
      BY <2>1, <2>2, <2>3, <2>4, <2>5, <2>6 DEF Next
  <1> QED
    BY <1>1, <1>2 DEF Erasure

(* No step but the commit of a deletion or of a batch writes "deleted".       *)
LEMMA ErasedStep ==
  ASSUME Typing, DeletionChecksHold, Erasure, DeletedIsErased, [Next]_vars
  PROVE  DeletedIsErased'
  <1> SUFFICES ASSUME NEW f \in Files, row'[f].status = "deleted"
               PROVE  object'[f] # "row"
    BY DEF DeletedIsErased
  <1>t. /\ row \in [Files -> Row] /\ job \in [Workers -> Job]
        /\ "row" # None /\ None \notin {"deleted", "deleting", "expired"}
    BY LifecycleAssumption DEF Typing, TypeOK
  <1>0. CASE row[f].status = "deleted"
    BY <1>0, ObjectsGone DEF DeletedIsErased, Exists
  <1>1. CASE row'[f] = row[f]
    BY <1>0, <1>1
  <1>2. ASSUME NEW w \in Handlers, UploadInsert(w), row' # row
        PROVE  object'[f] # "row"
    BY <1>2, <1>1, <1>t, InsertRow
  <1>3. ASSUME NEW w \in Handlers, DeleteCommit(w)
        PROVE  object'[f] # "row"
    <2>1. CASE f = req[w].f
      BY <2>1, <1>3 DEF DeleteCommit, Erasure
    <2>2. CASE f # req[w].f
      BY <2>2, <1>1, <1>3, <1>t DEF DeleteCommit
    <2> QED
      BY <2>1, <2>2
  <1>4. CASE Edit
    BY <1>0, <1>4, <1>t, EditRow
  <1>5. ASSUME NEW x \in Workers, WorkerCommit(x)
        PROVE  object'[f] # "row"
    <2>1. CASE job[x].out[f] = "deleted"
      BY <2>1, <1>5 DEF WorkerCommit, Erasure
    <2>2. CASE job[x].out[f] # "deleted"
      <3>1. row[f].status = "deleted"
        BY <2>2, <1>5, <1>t DEF WorkerCommit, Outcome, Row
      <3> QED
        BY <3>1, <1>0
    <2> QED
      BY <2>1, <2>2
  <1> QED
    BY <1>1, <1>2, <1>3, <1>4, <1>5, RowCases

(* A row that says "deleted" has no object, whatever failed or crashed on the *)
(* way and however many workers had the file in their batch.                  *)
THEOREM ErasedSafe == Spec => []DeletedIsErased
  <1>1. Init => Erasure /\ DeletedIsErased
    BY LifecycleAssumption
       DEF Init, Erasure, InBatch, DeletedIsErased, Idle, NoJob, NoOutcome, NoRow
  <1>2. /\ Typing /\ DeletionChecksHold /\ Erasure /\ DeletedIsErased /\ [Next]_vars
        => Erasure' /\ DeletedIsErased'
    BY ErasureStep, ErasedStep
  <1> QED
    BY <1>1, <1>2, Typed, DeletionSafe, PTL DEF Spec

-----------------------------------------------------------------------------
(* Events. *)

(* Only the commit of a batch queues events. *)
LEMMA OutboxKept ==
  ASSUME Typing, [Next]_vars
  PROVE  outbox' = outbox \/ \E x \in Workers : WorkerCommit(x)
  <1>1. ASSUME NEW w \in Handlers, Step(w) \/ Arrive(w) \/ Fail(w)
        PROVE  outbox' = outbox
    BY <1>1 DEF Step, Arrive, Fail, UploadStart, UploadPut, UploadMismatch, UploadInsert, DeleteLock,
                DeleteErase, DeleteCommit, Refuse
  <1>2. CASE Edit
    BY <1>2, EditRow
  <1>3. ASSUME NEW x \in Workers, Work(x) \/ WorkerFail(x), ~WorkerCommit(x)
        PROVE  outbox' = outbox
    BY <1>3 DEF Work, WorkerSelect, WorkerSkip, WorkerNotify, WorkerClaim, WorkerErase,
                WorkerFail
  <1>4. CASE Tick \/ UNCHANGED vars
    BY <1>4 DEF Tick, vars
  <1> QED
    BY <1>1, <1>2, <1>3, <1>4 DEF Next

(* Every step keeps events and rows in agreement. *)
LEMMA OutboxStep ==
  ASSUME Typing, OutboxTellsTheTruth, [Next]_vars
  PROVE  OutboxTellsTheTruth'
  <1>t. /\ row \in [Files -> Row] /\ job \in [Workers -> Job]
        /\ None \notin {"deleted", "deleting", "expired"}
    BY LifecycleAssumption DEF Typing, TypeOK
  <1> SUFFICES ASSUME NEW f \in Files
               PROVE  /\ "lifecycle.delete" \in outbox'[f] => row'[f].status = "deleted"
                      /\ row'[f].life = "expired" => "lifecycle.notify" \in outbox'[f]
    BY DEF OutboxTellsTheTruth
  <1> DEFINE Holds == /\ "lifecycle.delete" \in outbox'[f] => row'[f].status = "deleted"
                      /\ row'[f].life = "expired" => "lifecycle.notify" \in outbox'[f]
  <1>i. /\ "lifecycle.delete" \in outbox[f] => row[f].status = "deleted"
        /\ row[f].life = "expired" => "lifecycle.notify" \in outbox[f]
    BY DEF OutboxTellsTheTruth
  <1>1. CASE outbox' = outbox /\ row' = row
    BY <1>1, <1>i
  <1>2. ASSUME NEW w \in Handlers, UploadInsert(w), row' # row
        PROVE  Holds
    BY <1>2, <1>i, <1>t, InsertRow
  <1>3. ASSUME NEW w \in Handlers, DeleteCommit(w)
        PROVE  Holds
    BY <1>3, <1>i, <1>t DEF DeleteCommit, Row
  <1>4. CASE Edit
    BY <1>4, <1>i, <1>t, EditRow
  <1>5. ASSUME NEW x \in Workers, WorkerCommit(x)
        PROVE  Holds
    <2>1. /\ row'[f] = Outcome(row[f], job[x].out[f])
          /\ outbox'[f] = outbox[f] \union Events(job[x].out[f])
          /\ job[x].out[f] \in Outcomes \union {None} /\ row[f] \in Row
      BY <1>5, <1>t DEF WorkerCommit, Job
    <2>2. CASE job[x].out[f] = None
      BY <2>1, <2>2, <1>i, <1>t DEF Outcome, Events
    <2>3. CASE job[x].out[f] = "deleted"
      BY <2>1, <2>3, <1>i, <1>t DEF Outcome, Events, Row
    <2>4. CASE job[x].out[f] = "deleting"
      BY <2>1, <2>4, <1>i, <1>t DEF Outcome, Events, Row
    <2>5. CASE job[x].out[f] = "expired"
      BY <2>1, <2>5, <1>i, <1>t DEF Outcome, Events, Row
    <2> QED
      BY <2>1, <2>2, <2>3, <2>4, <2>5 DEF Outcomes
  <1> QED
    BY <1>1, <1>2, <1>3, <1>4, <1>5, RowCases, OutboxKept

(* A queued deletion event is true and an expired file was announced, however *)
(* many workers commit outcomes computed from stale snapshots.                *)
THEOREM OutboxSafe == Spec => []OutboxTellsTheTruth
  <1>1. Init => OutboxTellsTheTruth
    BY DEF Init, OutboxTellsTheTruth, NoRow
  <1>2. Typing /\ OutboxTellsTheTruth /\ [Next]_vars => OutboxTellsTheTruth'
    BY OutboxStep
  <1> QED
    BY <1>1, <1>2, Typed, PTL DEF Spec

-----------------------------------------------------------------------------
(* Legal holds. *)

(* A worker erases only files that were not held when it selected them. *)
Claimed == \A x \in Workers : job[x].at = "erase" => ~job[x].snap[job[x].f].hold

(* What a worker saw of a file does not change while it works on it. *)
LEMMA ClaimedStep ==
  ASSUME Typing, Claimed, [Next]_vars
  PROVE  Claimed'
  <1> SUFFICES ASSUME NEW x \in Workers, job'[x].at = "erase"
               PROVE  ~job'[x].snap[job'[x].f].hold
    BY DEF Claimed
  <1>t. job \in [Workers -> Job] /\ job[x] \in Job
    BY DEF Typing, TypeOK
  <1>1. CASE ~(Work(x) \/ WorkerFail(x))
    BY <1>1, JobKept DEF Claimed
  <1>2. ASSUME NEW f \in Files, WorkerClaim(x, f)
        PROVE  ~job'[x].snap[job'[x].f].hold
    <2>1. job'[x] = [job[x] EXCEPT !.at = "erase", !.f = f]
      BY <1>2, <1>t DEF WorkerClaim
    <2> QED
      BY <2>1, <1>2, <1>t DEF WorkerClaim, Job
  <1>3. ASSUME NEW f \in Files, WorkerSkip(x, f) \/ WorkerNotify(x, f)
        PROVE  FALSE
    <2>1. job[x].at = "scan"
      BY <1>3 DEF WorkerSkip, WorkerNotify, Turn
    <2>2. job'[x].at = "scan"
      BY <2>1, <1>3, <1>t DEF WorkerSkip, WorkerNotify, Job
    <2> QED
      BY <2>2
  <1>4. CASE WorkerSelect(x) \/ WorkerErase(x) \/ WorkerCommit(x) \/ WorkerFail(x)
    <2>1. CASE WorkerSelect(x)
      <3>1. PICK batch \in SUBSET Files :
              job' = [job EXCEPT ![x] = [NoJob EXCEPT !.at = "scan", !.todo = batch,
                                                      !.snap = Snapshot(batch)]]
        BY <2>1 DEF WorkerSelect
      <3>2. job'[x].at = "scan"
        BY <3>1, <1>t DEF NoJob
      <3> QED
        BY <3>2
    <2>2. CASE WorkerErase(x)
      <3>1. PICK out \in {"deleted", "deleting"} :
              job' = [job EXCEPT ![x].at = "scan", ![x].todo = @ \ {job[x].f},
                                 ![x].out[job[x].f] = out]
        BY <2>2 DEF WorkerErase
      <3>2. job'[x].at = "scan"
        BY <3>1, <1>t DEF Job
      <3> QED
        BY <3>2
    <2>3. CASE WorkerCommit(x) \/ WorkerFail(x)
      BY <2>3, <1>t DEF WorkerCommit, WorkerFail, NoJob
    <2> QED
      BY <1>4, <2>1, <2>2, <2>3
  <1> QED
    BY <1>1, <1>2, <1>3, <1>4 DEF Work

(* The steps that take an object that a row describes out of storage.          *)
LEMMA LosingStep ==
  ASSUME Typing, [Next]_vars, NEW f \in Files, object[f] = "row", object'[f] # "row"
  PROVE  \/ \E w \in Handlers : req[w].at = "erase" /\ req[w].f = f
         \/ \E w \in Handlers : req[w].at = "put" /\ req[w].f = f /\ req'[w].at # "put"
         \/ \E x \in Workers : job[x].at = "erase" /\ job[x].f = f /\ job'[x].at # "erase"
  <1>t. /\ object \in [Files -> Handlers \union {None, "row", "stray"}]
        /\ req \in [Handlers -> Request] /\ job \in [Workers -> Job]
        /\ "row" \notin Handlers
    BY LifecycleAssumption DEF Typing, TypeOK
  <1>1. ASSUME NEW w \in Handlers, Refuse(w)
        PROVE  FALSE
    BY <1>1, <1>t DEF Refuse, Abandoned
  <1>2. ASSUME NEW w \in Handlers, Step(w) \/ Arrive(w) \/ Fail(w)
        PROVE  \/ req[w].at = "erase" /\ req[w].f = f
               \/ req[w].at = "put" /\ req[w].f = f /\ req'[w].at # "put"
    <2>1. CASE DeleteErase(w) /\ ~Refuse(w)
      BY <2>1, <1>t DEF DeleteErase
    <2>2. CASE UploadPut(w) /\ ~Refuse(w)
      <3>1. /\ object' = [object EXCEPT ![req[w].f] = w] /\ req[w].at = "put"
            /\ req' = [req EXCEPT ![w].at = "insert"]
        BY <2>2 DEF UploadPut
      <3>2. req'[w].at = "insert"
        BY <3>1, <1>t DEF Request
      <3> QED
        BY <3>1, <3>2, <1>t
    <2>3. CASE UploadMismatch(w)
      <3>1. /\ req[w].at = "put" /\ req'[w].at = "idle"
            /\ \A g \in Files : g # req[w].f => object'[g] = object[g]
        BY <2>3, <1>t DEF UploadMismatch, Idle
      <3> QED
        BY <3>1
    <2>4. CASE ~DeleteErase(w) /\ ~UploadPut(w) /\ ~UploadMismatch(w)
      BY <2>4, <1>2, <1>1, <1>t DEF Step, Arrive, Fail, UploadStart, UploadInsert,
                                    DeleteLock, DeleteCommit
    <2> QED
      BY <2>1, <2>2, <2>3, <2>4, <1>1
  <1>3. CASE Edit
    BY <1>3, <1>t, EditRow
  <1>4. ASSUME NEW x \in Workers, Work(x) \/ WorkerFail(x)
        PROVE  job[x].at = "erase" /\ job[x].f = f /\ job'[x].at # "erase"
    <2>1. CASE WorkerErase(x)
      <3>1. PICK out \in {"deleted", "deleting"} :
              job' = [job EXCEPT ![x].at = "scan", ![x].todo = @ \ {job[x].f},
                                 ![x].out[job[x].f] = out]
        BY <2>1 DEF WorkerErase
      <3>2. job'[x].at = "scan"
        BY <3>1, <1>t DEF Job
      <3> QED
        BY <2>1, <3>2, <1>t DEF WorkerErase
    <2>2. CASE ~WorkerErase(x)
      BY <2>2, <1>4, <1>t DEF Work, WorkerSelect, WorkerSkip, WorkerNotify, WorkerClaim,
                              WorkerCommit, WorkerFail
    <2> QED
      BY <2>1, <2>2
  <1>5. CASE Tick \/ UNCHANGED vars
    BY <1>5, <1>t DEF Tick, vars
  <1> QED
    BY <1>2, <1>3, <1>4, <1>5 DEF Next

(* Deletions checked the hold under the row lock; workers and rival uploads    *)
(* came before the hold and before the object.                                *)
THEOREM HoldSafe == Spec => HeldObjectSurvives
  <1>1. Init => Claimed
    BY DEF Init, Claimed, NoJob
  <1>2. Typing /\ Claimed /\ [Next]_vars => Claimed'
    BY ClaimedStep
  <1> DEFINE Guarded ==
        \A f \in Files :
          row[f].hold /\ object[f] = "row" /\ object'[f] # "row" =>
            \/ \E x \in Workers :
                 /\ job[x].at = "erase" /\ job[x].f = f /\ ~job[x].snap[f].hold
                 /\ job'[x].at # "erase"
            \/ \E w \in Handlers : req[w].at = "put" /\ req[w].f = f /\ req'[w].at # "put"
  <1>3. Typing /\ DeletionChecksHold /\ Claimed /\ [Next]_vars => [Guarded]_vars
    <2> SUFFICES ASSUME Typing, DeletionChecksHold, Claimed, [Next]_vars
                 PROVE  Guarded
      OBVIOUS
    <2> QED
      BY LosingStep DEF DeletionChecksHold, Claimed
  <1> HIDE DEF Guarded
  <1>4. Spec => [][Guarded]_vars
    BY <1>1, <1>2, <1>3, Typed, DeletionSafe, PTL DEF Spec
  <1> QED
    BY <1>4, PTL DEF HeldObjectSurvives, Guarded

-----------------------------------------------------------------------------
(* Retention. *)

(* What the adjudication grants at a base: for ever only where the server      *)
(* permits it, otherwise at least the minimum from the base, and a TTL at most *)
(* the maximum.                                                                *)
Granted(p, base) ==
  /\ p.mode = "permanent" => PermanentAllowed /\ p.expires = None
  /\ p.mode # "permanent" => /\ p.ttl \in Int /\ p.ttl >= MinTtl
                             /\ p.expires = base + p.ttl
  /\ p.mode \in TtlModes => p.ttl <= MaxTtl

(* A policy of a TTL mode has a TTL. *)
Settled(p) == p.mode \in TtlModes => p.ttl \in Int

(* Accepted requests are granted, under every default policy. *)
LEMMA AcceptedGranted ==
  ASSUME NEW d \in DefaultPolicies, NEW r, NEW base \in Int, Askable(r), Acceptable(d, r, base)
  PROVE  Granted(Effective(d, r, base), base) /\ Settled(Effective(d, r, base))
  <1> DEFINE q == Merged(d, r)
             e == Effective(d, r, base)
  <1>1. /\ q.mode \in Modes /\ q.ttl \in Int
        /\ q.mode \in TtlModes \/ q.expires \in Int \union {None}
    BY MergedTyped
  <1>2. /\ q.mode = "permanent" => PermanentAllowed
        /\ q.mode \in TtlModes => MinTtl <= q.ttl /\ q.ttl <= MaxTtl
        /\ q.mode = "expires_at" => q.expires # None /\ q.expires - base >= MinTtl
    BY DEF Acceptable
  <1>3. /\ e.mode = q.mode /\ e.action = q.action
        /\ e.ttl = CASE q.mode \in TtlModes -> q.ttl
                     [] q.mode = "expires_at" -> q.expires - base [] OTHER -> None
        /\ e.expires = CASE q.mode \in TtlModes -> base + q.ttl
                         [] q.mode = "expires_at" -> q.expires [] OTHER -> None
    BY DEF Effective
  <1>4. /\ MinTtl \in Int /\ MaxTtl \in Int
        /\ q.mode \in TtlModes \/ q.mode = "permanent" \/ q.mode = "expires_at"
        /\ "permanent" \notin TtlModes /\ "expires_at" \notin TtlModes
    BY <1>1, PolicyAssumption DEF Modes, TtlModes
  <1>5. Settled(e)
    <2>1. CASE q.mode \notin TtlModes
      BY <1>3, <2>1 DEF Settled
    <2>2. CASE q.mode \in TtlModes
      <3>1. e.ttl = q.ttl
        BY <1>3, <1>4, <2>2
      <3> QED
        BY <1>1, <3>1 DEF Settled
    <2> QED
      BY <2>1, <2>2
  <1> HIDE DEF q, e
  <1>6. Granted(e, base)
    <2>1. CASE q.mode \in TtlModes
      BY <1>1, <1>2, <1>3, <1>4, <2>1 DEF Granted
    <2>2. CASE q.mode = "expires_at"
      BY <1>1, <1>2, <1>3, <1>4, <2>2 DEF Granted
    <2>3. CASE q.mode = "permanent"
      BY <1>2, <1>3, <1>4, <2>3 DEF Granted
    <2> QED
      BY <1>4, <2>1, <2>2, <2>3
  <1> QED
    BY <1>5, <1>6 DEF e

(* A row within the limits of docs 14.4: it stays for ever only where the      *)
(* server permits it and is then never scheduled; otherwise its TTL is within  *)
(* the server's bounds, and the deadline is one TTL after a moment no later    *)
(* than its completion.                                                        *)
WithinLimits(r) ==
  /\ r.mode = "permanent" => PermanentAllowed /\ r.next = None
  /\ r.mode # "permanent" => r.ttl >= MinTtl /\ r.expires - r.ttl \in 0 .. r.completed
  /\ r.mode \in TtlModes  => r.ttl <= MaxTtl

(* Whatever clients ask for, in whatever order uploads, updates, extensions and *)
(* make_permanent write a row's policy, every row stays within the limits       *)
(* (compute_effective_lifecycle, lifecycle_service._apply).                     *)
RowsWithinLimits == \A f \in Files : Exists(f) => WithinLimits(row[f])

(* The same of a row to be: its policy was granted at a base not in the future. *)
Lasting(r) == WithinLimits(r) /\ Settled(r) /\ r.completed \in 0 .. now

Entitled ==
  /\ \A f \in Files : Exists(f) => Lasting(row[f])
  /\ \A w \in Handlers : req[w].at \in {"put", "insert"} =>
       /\ req[w].base \in 0 .. now
       /\ Granted(req[w].policy, req[w].base) /\ Settled(req[w].policy)

(* Applying a granted policy keeps a row within the limits. *)
LEMMA WithPolicyLasting ==
  ASSUME NEW r \in Row, NEW p \in Policy, NEW base \in 0 .. r.completed,
         Granted(p, base), Settled(p), r.completed \in 0 .. now
  PROVE  Lasting(WithPolicy(r, p))
  <1> DEFINE s == WithPolicy(r, p)
  <1>1. /\ s.mode = p.mode /\ s.action = p.action /\ s.ttl = p.ttl /\ s.expires = p.expires
        /\ s.next = IF p.action = "none" THEN None ELSE p.expires
        /\ s.completed = r.completed
    BY DEF WithPolicy, Row
  <1> HIDE DEF s
  <1>2. WithinLimits(s)
    <2>1. CASE p.mode = "permanent"
      BY <1>1, <2>1 DEF Granted, WithinLimits, TtlModes
    <2>2. CASE p.mode # "permanent"
      <3>1. p.ttl \in Int /\ p.ttl >= MinTtl /\ p.expires = base + p.ttl
        BY <2>2 DEF Granted
      <3>2. p.expires - p.ttl = base
        BY <3>1
      <3> QED
        BY <1>1, <2>2, <3>1, <3>2 DEF Granted, WithinLimits
    <2> QED
      BY <2>1, <2>2
  <1>3. Settled(s)
    BY <1>1 DEF Settled
  <1> QED
    BY <1>1, <1>2, <1>3 DEF Lasting, s


(* The clock only goes forward. *)
LEMMA ClockStep ==
  ASSUME Typing, [Next]_vars
  PROVE  now \in Nat /\ now' \in Nat /\ now <= now'
  <1>t. now \in Nat
    BY DEF Typing, TypeOK
  <1>1. ASSUME NEW w \in Handlers, Step(w) \/ Arrive(w) \/ Fail(w)
        PROVE  now' = now
    BY <1>1 DEF Step, Arrive, Fail, UploadStart, UploadPut, UploadMismatch, UploadInsert, DeleteLock,
                DeleteErase, DeleteCommit, Refuse
  <1>2. CASE Edit
    BY <1>2, <1>t, EditRow
  <1>3. ASSUME NEW x \in Workers, Work(x) \/ WorkerFail(x)
        PROVE  now' = now
    BY <1>3 DEF Work, WorkerSelect, WorkerSkip, WorkerNotify, WorkerClaim, WorkerErase,
                WorkerCommit, WorkerFail
  <1>4. CASE Tick
    BY <1>4, <1>t DEF Tick
  <1>5. CASE UNCHANGED vars
    BY <1>5, <1>t DEF vars
  <1> QED
    BY <1>t, <1>1, <1>2, <1>3, <1>4, <1>5 DEF Next

(* A row that lasts goes on to last as time passes. *)
LEMMA LastingLater ==
  ASSUME Typing, [Next]_vars, NEW r \in Row, Lasting(r)
  PROVE  WithinLimits(r) /\ Settled(r) /\ r.completed \in 0 .. now'
  BY ClockStep DEF Lasting, Row

(* What an extension makes of a row: where clients may override the default    *)
(* policy, one more time its own mode, action and TTL, counted from the         *)
(* completion; otherwise the default policy of the configuration, which need    *)
(* not be the one the row was given by the upload.  A TTL of 0 counts as unset. *)
RenewedTtl(r) == IF r.ttl = 0 THEN Bootstrap.ttl ELSE r.ttl
Renewal(r) ==
  IF AllowOverride
    THEN [mode |-> r.mode, action |-> r.action, ttl |-> RenewedTtl(r),
          expires |-> r.completed + RenewedTtl(r)]
    ELSE Effective(Bootstrap, NoRequest, r.completed)

(* The adjudication of what extend asks for: the seconds asked for are lost.    *)
LEMMA ExtendAgain ==
  ASSUME Typing, NEW f \in Files, NEW seconds \in Extensions, Lasting(row[f]), Extend(f, seconds)
  PROVE  /\ Renewal(row[f]) \in Policy
         /\ Granted(Renewal(row[f]), row[f].completed) /\ Settled(Renewal(row[f]))
         /\ Write(f, WithPolicy(row[f], Renewal(row[f])))
  <1> DEFINE r == [mode |-> row[f].mode, action |-> row[f].action, ttl |-> row[f].ttl,
                   expires |-> row[f].expires + seconds]
             q == Merged(Bootstrap, r)
             e == Effective(Bootstrap, r, row[f].completed)
  <1>1. row[f] \in Row /\ row[f].completed \in Int
    BY DEF Typing, TypeOK, Row
  <1>2. /\ row[f].mode \in TtlModes
        /\ Acceptable(Bootstrap, r, row[f].completed)
        /\ Write(f, WithPolicy(row[f], e))
    BY DEF Extend
  <1>3. Askable(r) /\ Bootstrap \in DefaultPolicies
    BY <1>1, <1>2, LifecycleAssumption DEF Askable, Row, Times
  <1>4. e \in Policy /\ Granted(e, row[f].completed) /\ Settled(e)
    BY <1>1, <1>2, <1>3, EffectiveTyped, AcceptedGranted
  <1>5. CASE AllowOverride
    <2>1. q.mode = row[f].mode /\ q.action = row[f].action /\ q.ttl = RenewedTtl(row[f])
      <3>1. /\ row[f].mode \in Modes /\ row[f].action \in Actions /\ row[f].ttl \in Int
        BY <1>1, <1>2 DEF Row, Lasting, Settled
      <3>2. row[f].mode # None /\ row[f].action # None /\ row[f].ttl # None
        BY <3>1, PolicyAssumption
      <3> QED
        BY <1>5, <3>2 DEF Merged, RenewedTtl
    <2>2. e = [mode |-> q.mode, action |-> q.action,
               ttl |-> CASE q.mode \in TtlModes -> q.ttl
                         [] q.mode = "expires_at" -> q.expires - row[f].completed [] OTHER -> None,
               expires |-> CASE q.mode \in TtlModes -> row[f].completed + q.ttl
                             [] q.mode = "expires_at" -> q.expires [] OTHER -> None]
      BY DEF Effective
    <2>3. "expires_at" \notin TtlModes
      BY DEF TtlModes
    <2>4. e = Renewal(row[f])
      <3> HIDE DEF q
      <3> QED
        BY <1>2, <1>5, <2>1, <2>2, <2>3 DEF Renewal
    <2> QED
      BY <1>2, <1>4, <2>4
  <1>6. CASE ~AllowOverride
    <2>1. e = Renewal(row[f])
      BY <1>6 DEF Effective, Merged, Renewal
    <2> QED
      BY <1>2, <1>4, <2>1
  <1> QED
    BY <1>5, <1>6


(* A new row is granted its policy at the time its upload or session began. *)
LEMMA InsertLasting ==
  ASSUME Typing, Entitled, NEW w \in Handlers, UploadInsert(w), row' # row
  PROVE  \E r \in Row : /\ req[w].f \in Files /\ row' = [row EXCEPT ![req[w].f] = r]
                        /\ Lasting(r)
  <1> DEFINE created == [NoRow EXCEPT !.status = "active",
                           !.completed = IF req[w].session THEN now ELSE req[w].base]
  <1>1. req[w] \in Request /\ now \in Nat /\ req[w].f \in Files
    BY DEF Typing, TypeOK, Busy, UploadInsert
  <1>2. row' = [row EXCEPT ![req[w].f] = WithPolicy(created, req[w].policy)]
    BY DEF UploadInsert, Refuse
  <1>3. /\ req[w].base \in 0 .. now
        /\ Granted(req[w].policy, req[w].base) /\ Settled(req[w].policy)
    BY DEF UploadInsert, Entitled
  <1>c. (IF req[w].session THEN now ELSE req[w].base) \in {now, req[w].base}
    OBVIOUS
  <1>4. created \in Row /\ created.completed \in {now, req[w].base}
    <2>1. NoRow \in Row /\ {now, req[w].base} \subseteq Int
      BY <1>1, <1>3, IdleTyped
    <2>2. \A c \in Int, r \in Row :
            LET s == [r EXCEPT !.status = "active", !.completed = c]
            IN  s \in Row /\ s.completed = c
      BY DEF Row
    <2> QED
      BY <1>c, <2>1, <2>2
  <1>5. req[w].policy \in Policy
    BY <1>1 DEF Request
  <1> HIDE DEF created
  <1>6. created.completed \in 0 .. now /\ req[w].base \in 0 .. created.completed
    BY <1>1, <1>3, <1>4
  <1>7. WithPolicy(created, req[w].policy) \in Row
    BY <1>4, <1>5, WithPolicyTyped
  <1>8. Lasting(WithPolicy(created, req[w].policy))
    BY <1>3, <1>4, <1>5, <1>6, WithPolicyLasting
  <1> QED
    BY <1>1, <1>2, <1>7, <1>8

(* An edit leaves its row within the limits. *)
LEMMA EditLasting ==
  ASSUME Typing, Entitled, Edit
  PROVE  \E f \in Files, r \in Row :
           /\ Exists(f) /\ row' = [row EXCEPT ![f] = r] /\ Lasting(r)
           /\ UNCHANGED <<now, req>>
  <1>1. PICK f \in Files :
          \/ \E r \in Requests : UpdateLifecycle(f, r)
          \/ \E seconds \in Extensions : Extend(f, seconds)
          \/ MakePermanent(f)
          \/ \E hold \in BOOLEAN : SetHold(f, hold)
    BY DEF Edit
  <1>2. row[f] \in Row /\ row[f].completed \in Int /\ now \in Nat
    BY DEF Typing, TypeOK, Row
  <1>3. Exists(f)
    BY <1>1 DEF UpdateLifecycle, Extend, MakePermanent, SetHold, Write
  <1>4. Lasting(row[f]) /\ row[f].completed \in 0 .. now
    BY <1>3 DEF Entitled, Lasting
  <1>5. ASSUME NEW p \in Policy, NEW base \in 0 .. row[f].completed, Granted(p, base), Settled(p),
               Write(f, WithPolicy(row[f], p))
        PROVE  /\ row' = [row EXCEPT ![f] = WithPolicy(row[f], p)]
               /\ WithPolicy(row[f], p) \in Row /\ Lasting(WithPolicy(row[f], p))
               /\ UNCHANGED <<now, req>>
    BY <1>2, <1>4, <1>5, WithPolicyTyped, WithPolicyLasting DEF Write
  <1>6. ASSUME NEW r \in Requests, UpdateLifecycle(f, r)
        PROVE  \E s \in Row : /\ row' = [row EXCEPT ![f] = s] /\ Lasting(s)
                              /\ UNCHANGED <<now, req>>
    <2> DEFINE p == Effective(Bootstrap, r, row[f].completed)
    <2>1. Acceptable(Bootstrap, r, row[f].completed) /\ Write(f, WithPolicy(row[f], p)) /\ Askable(r)
      BY <1>6, RequestsAskable DEF UpdateLifecycle
    <2>2. p \in Policy /\ Granted(p, row[f].completed) /\ Settled(p)
      BY <1>2, <2>1, EffectiveTyped, AcceptedGranted, LifecycleAssumption
    <2>3. row[f].completed \in 0 .. row[f].completed
      BY <1>4
    <2> HIDE DEF p
    <2> QED
      BY <1>5, <2>1, <2>2, <2>3
  <1>7. ASSUME NEW seconds \in Extensions, Extend(f, seconds)
        PROVE  \E s \in Row : /\ row' = [row EXCEPT ![f] = s] /\ Lasting(s)
                              /\ UNCHANGED <<now, req>>
    <2> DEFINE p == Renewal(row[f])
    <2>1. p \in Policy /\ Granted(p, row[f].completed) /\ Settled(p)
          /\ Write(f, WithPolicy(row[f], p))
      BY <1>4, <1>7, ExtendAgain
    <2>2. row[f].completed \in 0 .. row[f].completed
      BY <1>4
    <2> HIDE DEF p
    <2> QED
      BY <1>5, <2>1, <2>2
  <1>8. ASSUME MakePermanent(f)
        PROVE  \E s \in Row : /\ row' = [row EXCEPT ![f] = s] /\ Lasting(s)
                              /\ UNCHANGED <<now, req>>
    <2>1. NoPolicy \in Policy
      BY DEF NoPolicy, Policy, Modes, Actions
    <2>2. PermanentAllowed /\ Write(f, WithPolicy(row[f], NoPolicy))
      BY <1>8 DEF MakePermanent
    <2>3. Granted(NoPolicy, 0) /\ Settled(NoPolicy)
      BY <2>2 DEF Granted, Settled, NoPolicy, TtlModes
    <2>4. 0 \in 0 .. row[f].completed
      BY <1>4, <1>2
    <2> QED
      BY <1>5, <2>1, <2>2, <2>3, <2>4
  <1>9. ASSUME NEW hold \in BOOLEAN, SetHold(f, hold)
        PROVE  \E s \in Row : /\ row' = [row EXCEPT ![f] = s] /\ Lasting(s)
                              /\ UNCHANGED <<now, req>>
    <2> DEFINE s == [row[f] EXCEPT !.hold = hold]
    <2>1. /\ s \in Row /\ s.mode = row[f].mode /\ s.action = row[f].action
          /\ s.ttl = row[f].ttl /\ s.expires = row[f].expires /\ s.next = row[f].next
          /\ s.completed = row[f].completed
      BY <1>2 DEF Row
    <2>2. row' = [row EXCEPT ![f] = s] /\ UNCHANGED <<now, req>>
      BY <1>9 DEF SetHold, Write
    <2> HIDE DEF s
    <2>3. Settled(s)
      BY <1>4, <2>1 DEF Lasting, Settled
    <2>4. Lasting(s)
      BY <1>4, <2>1, <2>3 DEF Lasting, WithinLimits
    <2> QED
      BY <2>1, <2>2, <2>4
  <1> QED
    BY <1>1, <1>3, <1>6, <1>7, <1>8, <1>9

(* Every step keeps every row within the limits. *)
LEMMA RowsEntitled ==
  ASSUME Typing, DeletionChecksHold, Erasure, Entitled, [Next]_vars, NEW f \in Files, row'[f].status # "none"
  PROVE  WithinLimits(row'[f]) /\ Settled(row'[f]) /\ row'[f].completed \in 0 .. now'
  <1>t. row \in [Files -> Row]
    BY DEF Typing, TypeOK
  <1> DEFINE Lasts(r) == WithinLimits(r) /\ Settled(r) /\ r.completed \in 0 .. now'
  <1>k. \A r \in Row : Lasting(r) => Lasts(r)
    BY LastingLater
  <1> HIDE DEF Lasts
  <1>s. \A r, s : /\ s.mode = r.mode /\ s.action = r.action /\ s.ttl = r.ttl
                  /\ s.expires = r.expires /\ s.next = r.next /\ s.completed = r.completed
                  /\ Lasts(r)
                  => Lasts(s)
    BY DEF Lasts, WithinLimits, Settled
  <1>0. CASE row'[f] = row[f]
    BY <1>0, <1>t, <1>k DEF Entitled, Exists, Lasts
  <1>2. ASSUME NEW w \in Handlers, UploadInsert(w), row' # row
        PROVE  Lasts(row'[f])
    BY <1>0, <1>2, <1>t, <1>k, InsertLasting DEF Lasts
  <1>3. ASSUME NEW w \in Handlers, DeleteCommit(w)
        PROVE  Lasts(row'[f])
    <2>1. CASE f # req[w].f
      BY <1>0, <1>3, <1>t, <2>1 DEF DeleteCommit, Lasts
    <2>2. CASE f = req[w].f
      <3>1. row[f] \in Row /\ row[f].status = "active"
        BY <1>3, <1>t, <2>2 DEF DeleteCommit, DeletionChecksHold
      <3>2. row'[f] = [row[f] EXCEPT !.status = "deleted", !.life = "deleted"]
        BY <1>3, <1>t, <2>2 DEF DeleteCommit
      <3>3. Lasts(row[f])
        BY <3>1, <1>k DEF Entitled, Exists
      <3> QED
        BY <3>1, <3>2, <3>3, <1>s DEF Row
    <2> QED
      BY <2>1, <2>2
  <1>4. CASE Edit
    BY <1>0, <1>4, <1>t, <1>k, EditLasting DEF Lasts
  <1>5. ASSUME NEW x \in Workers, WorkerCommit(x)
        PROVE  Lasts(row'[f])
    <2> DEFINE out == job[x].out[f]
    <2>1. row'[f] = Outcome(row[f], out) /\ row[f] \in Row
      BY <1>5, <1>t DEF WorkerCommit
    <2>2. CASE out = None
      BY <1>0, <2>1, <2>2 DEF Outcome, Lasts
    <2>3. CASE out # None
      <3>1. InBatch(job[x], f)
        BY <2>3 DEF InBatch
      <3>2. Exists(f)
        BY <3>1 DEF Erasure
      <3>3. Lasts(row[f])
        BY <2>1, <3>2, <1>k DEF Entitled
      <3> HIDE DEF out
      <3>4. row'[f] = [row[f] EXCEPT !.life = out,
                                    !.status = IF out = "deleted" THEN "deleted" ELSE @]
        BY <2>1, <2>3 DEF Outcome
      <3>5. /\ row'[f].mode = row[f].mode /\ row'[f].action = row[f].action
            /\ row'[f].ttl = row[f].ttl /\ row'[f].expires = row[f].expires
            /\ row'[f].next = row[f].next /\ row'[f].completed = row[f].completed
        BY <2>1, <3>4 DEF Row
      <3> QED
        BY <3>3, <3>5, <1>s
    <2> QED
      BY <2>2, <2>3
  <1> QED
    BY <1>0, <1>2, <1>3, <1>4, <1>5, RowCases DEF Lasts

(* The policy a pending upload was granted stays as it is until its insert. *)
LEMMA UploadsEntitled ==
  ASSUME Typing, Entitled, [Next]_vars,
         NEW w \in Handlers, req'[w].at \in {"put", "insert"}
  PROVE  /\ req'[w].base \in 0 .. now'
         /\ Granted(req'[w].policy, req'[w].base) /\ Settled(req'[w].policy)
  <1>t. req \in [Handlers -> Request] /\ req[w] \in Request /\ now \in Nat
    BY DEF Typing, TypeOK
  <1> DEFINE Good == /\ req'[w].base \in 0 .. now'
                     /\ Granted(req'[w].policy, req'[w].base) /\ Settled(req'[w].policy)
  <1>1. CASE /\ req[w].at \in {"put", "insert"}
             /\ req'[w].base = req[w].base /\ req'[w].policy = req[w].policy
    BY <1>1, <1>t, ClockStep DEF Entitled
  <1>2. CASE req'[w] = req[w]
    BY <1>1, <1>2
  <1>3. ASSUME NEW v \in Handlers, Step(v) \/ Arrive(v) \/ Fail(v), v # w
        PROVE  req'[w] = req[w]
    BY <1>3, <1>t DEF Step, Arrive, Fail, UploadStart, UploadPut, UploadMismatch, UploadInsert, DeleteLock,
                      DeleteErase, DeleteCommit, Refuse
  <1>4. ASSUME NEW f \in Files, NEW r \in Requests, UploadStart(w, f, r)
        PROVE  Good
    <2>1. now' = now /\ Askable(r)
      BY <1>4, RequestsAskable DEF UploadStart
    <2>2. PICK d \in Defaults, session \in BOOLEAN :
            /\ Acceptable(d, r, now)
            /\ req' = [req EXCEPT ![w] = [at |-> "put", f |-> f, policy |-> Effective(d, r, now),
                                          base |-> now, session |-> session]]
      BY <1>4 DEF UploadStart
    <2>3. req'[w].policy = Effective(d, r, now) /\ req'[w].base = now
      BY <2>2, <1>t
    <2> QED
      BY <1>t, <2>1, <2>2, <2>3, AcceptedGranted, LifecycleAssumption
  <1>5. CASE UploadPut(w) /\ ~Refuse(w)
    <2>1. req'[w] = [req[w] EXCEPT !.at = "insert"] /\ req[w].at = "put"
      BY <1>5, <1>t DEF UploadPut
    <2>2. req'[w].base = req[w].base /\ req'[w].policy = req[w].policy
      BY <1>t, <2>1 DEF Request
    <2> QED
      BY <1>1, <2>1, <2>2
  <1>6. CASE UploadMismatch(w) \/ UploadInsert(w) \/ DeleteCommit(w) \/ Fail(w) \/ Refuse(w)
    <2>1. req' = [req EXCEPT ![w] = Idle]
      BY <1>6 DEF UploadMismatch, UploadInsert, DeleteCommit, Fail, Refuse
    <2> QED
      BY <1>t, <2>1 DEF Idle
  <1>7. CASE DeleteErase(w) /\ ~Refuse(w)
    <2>1. req' = [req EXCEPT ![w].at = "erased"]
      BY <1>7 DEF DeleteErase
    <2> QED
      BY <1>t, <2>1 DEF Request
  <1>8. ASSUME NEW f \in Files, DeleteLock(w, f)
        PROVE  Good
    BY <1>8, <1>t DEF DeleteLock, Idle
  <1>9. CASE Edit \/ Tick \/ UNCHANGED vars
    BY <1>2, <1>9, EditRow DEF Tick, vars
  <1>10. ASSUME NEW x \in Workers, Work(x) \/ WorkerFail(x)
         PROVE  req' = req
    BY <1>10 DEF Work, WorkerSelect, WorkerSkip, WorkerNotify, WorkerClaim, WorkerErase,
                 WorkerCommit, WorkerFail
  <1> QED
    BY <1>2, <1>3, <1>4, <1>5, <1>6, <1>7, <1>8, <1>9, <1>10 DEF Next, Step, Arrive


(* Every step keeps rows and pending uploads entitled. *)
LEMMA EntitledStep ==
  ASSUME Typing, DeletionChecksHold, Erasure, Entitled, [Next]_vars
  PROVE  Entitled'
  <1>1. \A f \in Files : row'[f].status # "none" =>
          WithinLimits(row'[f]) /\ Settled(row'[f]) /\ row'[f].completed \in 0 .. now'
    BY RowsEntitled
  <1>2. \A w \in Handlers : req'[w].at \in {"put", "insert"} =>
          /\ req'[w].base \in 0 .. now'
          /\ Granted(req'[w].policy, req'[w].base) /\ Settled(req'[w].policy)
    BY UploadsEntitled
  <1> QED
    BY <1>1, <1>2 DEF Entitled, Exists, Lasting, WithinLimits

(* Erasure and the deletions' checks together, for the proofs below. *)
LEMMA ErasureHolds == Spec => []Erasure
  <1>1. Init => Erasure
    BY LifecycleAssumption DEF Init, Erasure, InBatch, Idle, NoJob, NoOutcome
  <1>2. Typing /\ DeletionChecksHold /\ Erasure /\ [Next]_vars => Erasure'
    BY ErasureStep
  <1> QED
    BY <1>1, <1>2, Typed, DeletionSafe, PTL DEF Spec

(* The rows' policies were granted, and so are those of pending uploads. *)
LEMMA EntitledHolds == Spec => []Entitled
  <1>1. Init => Entitled
    BY DEF Init, Entitled, Exists, NoRow, Idle
  <1>2. Typing /\ DeletionChecksHold /\ Erasure /\ Entitled /\ [Next]_vars => Entitled'
    BY EntitledStep
  <1> QED
    BY <1>1, <1>2, Typed, DeletionSafe, ErasureHolds, PTL DEF Spec

(* No order of uploads, sessions that outlive a change of the clock, updates,  *)
(* extensions and deletions takes a row out of the server's limits: the policy *)
(* of a multipart file is granted long before its row is written.              *)
THEOREM RetentionSafe == Spec => []RowsWithinLimits
  <1>1. Entitled => RowsWithinLimits
    BY DEF Entitled, Lasting, RowsWithinLimits
  <1> QED
    BY <1>1, EntitledHolds, PTL

(* An extension rewrites the row as if it had asked for nothing: the deadline   *)
(* goes back to one TTL after the completion, whatever the seconds asked for,   *)
(* and where clients may not override the default policy the row gets that of   *)
(* the configuration, whatever policy the upload gave it                       *)
(* (LifecycleService.extend, which computes the later expires_at and gives it   *)
(* to an adjudication that does not read it for the modes extend accepts).      *)
ExtensionIsARenewal ==
  [][\A f \in Files, seconds \in Extensions : Extend(f, seconds) =>
       row' = [row EXCEPT ![f] = WithPolicy(@, Renewal(@))]]_vars

(* Two clients that extend one file by different amounts get the same deadline. *)
THEOREM ExtensionLoses == Spec => ExtensionIsARenewal
  <1> DEFINE Renewed ==
        \A f \in Files, seconds \in Extensions : Extend(f, seconds) =>
          row' = [row EXCEPT ![f] = WithPolicy(@, Renewal(@))]
  <1>1. Typing /\ Entitled /\ [Next]_vars => [Renewed]_vars
    <2> SUFFICES ASSUME Typing, Entitled,
                        NEW f \in Files, NEW seconds \in Extensions, Extend(f, seconds)
                 PROVE  row' = [row EXCEPT ![f] = WithPolicy(@, Renewal(@))]
      OBVIOUS
    <2>1. Lasting(row[f])
      BY DEF Extend, Write, Entitled
    <2> QED
      BY <2>1, ExtendAgain DEF Write
  <1> HIDE DEF Renewed
  <1>2. Spec => [][Renewed]_vars
    BY <1>1, Typed, EntitledHolds, PTL DEF Spec
  <1> QED
    BY <1>2, PTL DEF ExtensionIsARenewal, Renewed

-----------------------------------------------------------------------------
(* Automatic deletion. *)

(* What a worker still has to do was due when it was selected, and what it     *)
(* erases was to be deleted and not held.                                      *)
Selected ==
  \A x \in Workers, f \in Files :
    /\ f \in job[x].todo \/ (job[x].at = "erase" /\ job[x].f = f) =>
         job[x].snap[f].next \in Int /\ job[x].snap[f].next <= now
    /\ job[x].at = "erase" /\ job[x].f = f =>
         ~job[x].snap[f].hold /\ job[x].snap[f].action = "delete"

(* A batch keeps what its SELECT read until it is done with a file. *)
LEMMA SelectedStep ==
  ASSUME Typing, Selected, [Next]_vars
  PROVE  Selected'
  <1> SUFFICES ASSUME NEW x \in Workers, NEW f \in Files
               PROVE  /\ f \in job'[x].todo \/ (job'[x].at = "erase" /\ job'[x].f = f) =>
                           job'[x].snap[f].next \in Int /\ job'[x].snap[f].next <= now'
                      /\ job'[x].at = "erase" /\ job'[x].f = f =>
                           ~job'[x].snap[f].hold /\ job'[x].snap[f].action = "delete"
    BY DEF Selected
  <1> DEFINE Goal == /\ f \in job'[x].todo \/ (job'[x].at = "erase" /\ job'[x].f = f) =>
                          job'[x].snap[f].next \in Int /\ job'[x].snap[f].next <= now'
                     /\ job'[x].at = "erase" /\ job'[x].f = f =>
                          ~job'[x].snap[f].hold /\ job'[x].snap[f].action = "delete"
  <1>t. /\ job \in [Workers -> Job] /\ job[x] \in Job
        /\ row \in [Files -> Row] /\ None \notin Int
    BY PolicyAssumption DEF Typing, TypeOK
  <1>n. now \in Nat /\ now' \in Nat /\ now <= now'
    BY ClockStep
  <1>i. /\ f \in job[x].todo \/ (job[x].at = "erase" /\ job[x].f = f) =>
             job[x].snap[f].next \in Int /\ job[x].snap[f].next <= now
        /\ job[x].at = "erase" /\ job[x].f = f =>
             ~job[x].snap[f].hold /\ job[x].snap[f].action = "delete"
    BY DEF Selected
  <1>1. CASE ~(Work(x) \/ WorkerFail(x))
    BY <1>1, <1>i, <1>n, JobKept
  <1>2. CASE WorkerSelect(x)
    <2>1. PICK batch \in SUBSET {g \in Files : Due(g)} :
            job' = [job EXCEPT ![x] = [NoJob EXCEPT !.at = "scan", !.todo = batch,
                                                    !.snap = Snapshot(batch)]]
      BY <1>2 DEF WorkerSelect
    <2>2. job'[x].todo = batch /\ job'[x].at = "scan" /\ job'[x].snap = Snapshot(batch)
      BY <2>1, <1>t DEF NoJob
    <2>3. ASSUME f \in batch
          PROVE  row[f].next \in Int /\ row[f].next <= now /\ Snapshot(batch)[f].next = row[f].next
      BY <2>3, <1>t DEF Due, Row, Times, Snapshot
    <2> QED
      BY <2>2, <2>3, <1>n
  <1>3. ASSUME NEW g \in Files, WorkerSkip(x, g) \/ WorkerNotify(x, g)
        PROVE  Goal
    <2>1. /\ job'[x].at = "scan" /\ job'[x].todo = job[x].todo \ {g}
          /\ job'[x].snap = job[x].snap
      <3>1. CASE WorkerSkip(x, g)
        BY <3>1, <1>t DEF WorkerSkip, Turn, Job
      <3>2. CASE WorkerNotify(x, g)
        BY <3>2, <1>t DEF WorkerNotify, Turn, Job
      <3> QED
        BY <1>3, <3>1, <3>2
    <2> QED
      BY <2>1, <1>i, <1>n
  <1>4. ASSUME NEW g \in Files, WorkerClaim(x, g)
        PROVE  Goal
    <2>1. /\ job'[x].at = "erase" /\ job'[x].f = g /\ job'[x].todo = job[x].todo
          /\ job'[x].snap = job[x].snap
      BY <1>4, <1>t DEF WorkerClaim, Job
    <2>2. g \in job[x].todo /\ ~job[x].snap[g].hold /\ job[x].snap[g].action = "delete"
      BY <1>4 DEF WorkerClaim, Turn
    <2> QED
      BY <2>1, <2>2, <1>i, <1>n
  <1>5. CASE WorkerErase(x)
    <2>1. PICK out \in {"deleted", "deleting"} :
            job' = [job EXCEPT ![x].at = "scan", ![x].todo = @ \ {job[x].f},
                               ![x].out[job[x].f] = out]
      BY <1>5 DEF WorkerErase
    <2>2. /\ job'[x].at = "scan" /\ job'[x].todo = job[x].todo \ {job[x].f}
          /\ job'[x].snap = job[x].snap
      BY <2>1, <1>t DEF Job
    <2> QED
      BY <2>2, <1>i, <1>n
  <1>6. CASE WorkerCommit(x) \/ WorkerFail(x)
    BY <1>6, <1>t DEF WorkerCommit, WorkerFail, NoJob
  <1> QED
    BY <1>1, <1>2, <1>3, <1>4, <1>5, <1>6 DEF Work

(* Only a client's deletion, a worker that saw the file due, to be deleted and  *)
(* not held, and a rival upload that found the key free before the file was     *)
(* recorded take an object that a row describes out of storage: clocks, batches *)
(* of several files and stale snapshots never erase a file early                *)
(* (worker/lifecycle.py process_batch, FileService.delete, put_object).         *)
ErasedWhenDue ==
  [][\A f \in Files : object[f] = "row" /\ object'[f] # "row" =>
       \/ \E w \in Handlers : req[w].at = "erase" /\ req[w].f = f
       \/ \E w \in Handlers : req[w].at = "put" /\ req[w].f = f /\ req'[w].at # "put"
       \/ \E x \in Workers :
            /\ job[x].at = "erase" /\ job[x].f = f
            /\ ~job[x].snap[f].hold /\ job[x].snap[f].action = "delete"
            /\ job[x].snap[f].next <= now]_vars

(* No worker erases a file before its time.                                    *)
THEOREM ErasureIsDue == Spec => ErasedWhenDue
  <1>1. Init => Selected
    BY DEF Init, Selected, NoJob
  <1>2. Typing /\ Selected /\ [Next]_vars => Selected'
    BY SelectedStep
  <1> DEFINE Timely ==
        \A f \in Files : object[f] = "row" /\ object'[f] # "row" =>
          \/ \E w \in Handlers : req[w].at = "erase" /\ req[w].f = f
          \/ \E w \in Handlers : req[w].at = "put" /\ req[w].f = f /\ req'[w].at # "put"
          \/ \E x \in Workers :
               /\ job[x].at = "erase" /\ job[x].f = f
               /\ ~job[x].snap[f].hold /\ job[x].snap[f].action = "delete"
               /\ job[x].snap[f].next <= now
  <1>3. Typing /\ Selected /\ [Next]_vars => [Timely]_vars
    <2> SUFFICES ASSUME Typing, Selected, [Next]_vars
                 PROVE  Timely
      OBVIOUS
    <2> QED
      BY LosingStep DEF Selected
  <1> HIDE DEF Timely
  <1>4. Spec => [][Timely]_vars
    BY <1>1, <1>2, <1>3, Typed, PTL DEF Spec
  <1> QED
    BY <1>4, PTL DEF ErasedWhenDue, Timely
=============================================================================
