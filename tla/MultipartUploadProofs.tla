------------------------ MODULE MultipartUploadProofs ------------------------
(* Proofs about MultipartUpload for any sets of sessions, requests, parts and *)
(* contents.                                                                  *)
EXTENDS MultipartUpload, TLAPS

-----------------------------------------------------------------------------
(* Typing. *)

(* A request that has ended is well-typed. *)
LEMMA IdleTyped == Idle \in Request
  BY ConstantsAssumption DEF Bytes, Idle, Request, Steps, NoParts

(* Losing its part files to rmtree keeps a request well-typed. *)
LEMMA UnlinkedTyped ==
  ASSUME NEW r \in Request, NEW s, NEW P
  PROVE  Unlinked(r, s, P) \in Request
  BY DEF Unlinked, Request

(* Ending a transaction keeps locks and requests well-typed. *)
LEMMA EndTyped ==
  ASSUME TypeOK, NEW w \in Handlers, End(w)
  PROVE  /\ lock' \in [Sessions -> Handlers \union {None}]
         /\ req' \in [Handlers -> Request]
  BY IdleTyped DEF TypeOK, End, Released

(* An error answer keeps every type: it rolls back and ends. *)
LEMMA RefuseTyped ==
  ASSUME TypeOK, NEW w \in Handlers, Refuse(w)
  PROVE  TypeOK'
  BY EndTyped DEF TypeOK, Refuse, db, storage

(* Going on to the next await keeps a request well-typed. *)
LEMMA StepTyped ==
  ASSUME NEW r \in Request, NEW step \in Steps
  PROVE  /\ [r EXCEPT !.at = step] \in Request
         /\ \A b \in BOOLEAN : [r EXCEPT !.at = step, !.linked = b] \in Request
         /\ \A l \in [Parts -> Bytes] :
              [r EXCEPT !.at = step, !.listed = l] \in Request
  BY DEF Request

(* The same of GoTo, for the function of all requests. *)
LEMMA GoToTyped ==
  ASSUME TypeOK, NEW w \in Handlers, NEW step \in Steps, GoTo(w, step)
  PROVE  req' \in [Handlers -> Request]
  <1>1. req' = [req EXCEPT ![w] = [req[w] EXCEPT !.at = step]]
    BY DEF GoTo
  <1> QED
    BY <1>1, StepTyped DEF TypeOK

(* What a request knows of its session, part and bytes. *)
PartSteps == {"mark", "put", "write"}
RequestShape ==
  \A w \in Handlers :
    LET r == req[w] IN
    /\ r.at # "idle" => r.s \in Sessions
    /\ r.at \in {"mark", "put", "write", "upsert", "commit"} => r.p \in Parts /\ r.c \in Contents

(* Every step of every handler, fault and sweep keeps the types. *)
LEMMA TypeStep ==
  ASSUME TypeOK, RequestShape, [Next]_vars
  PROVE  TypeOK'
  <1> USE ConstantsAssumption, IdleTyped
  <1>1. ASSUME NEW w \in Handlers, NEW s \in Sessions, CreateCheck(w, s)
        PROVE  TypeOK'
    BY <1>1 DEF TypeOK, CreateCheck, Begin, At, db, Idle, Request, Steps, NoParts
  <1>2. ASSUME NEW w \in Handlers, CreateInsert(w)
        PROVE  TypeOK'
    BY <1>2, EndTyped DEF TypeOK, RequestShape, CreateInsert, At, storage, Statuses
  <1>3. ASSUME NEW w \in Handlers, NEW s \in Sessions, NEW p \in Parts, NEW c \in Contents,
               PartRead(w, s, p, c)
        PROVE  TypeOK'
    BY <1>3 DEF TypeOK, PartRead, Begin, At, db, storage, Idle, Request, Steps, NoParts
  <1>4. ASSUME NEW w \in Handlers, PartMark(w)
        PROVE  TypeOK'
    BY <1>4, GoToTyped DEF TypeOK, RequestShape, PartMark, Acquire, At, db, storage, Steps
  <1>5. ASSUME NEW w \in Handlers, PartOpen(w)
        PROVE  TypeOK'
    BY <1>5, StepTyped DEF Bytes, TypeOK, RequestShape, PartOpen, Begin, At, db, Steps
  <1>6. ASSUME NEW w \in Handlers, PartWritten(w)
        PROVE  TypeOK'
    <2>1. /\ req[w] \in Request
          /\ req[w].s \in Sessions /\ req[w].p \in Parts /\ req[w].c \in Contents
      BY <1>6 DEF TypeOK, RequestShape, PartWritten, At
    <2>2. [req[w] EXCEPT !.at = "upsert", !.linked = FALSE] \in Request
      BY <2>1, StepTyped DEF Steps
    <2>3. req' \in [Handlers -> Request]
      BY <1>6, <2>2 DEF TypeOK, PartWritten, Begin
    <2>3a. Leaves(w) \subseteq Bytes
      BY <2>1 DEF Leaves, Bytes
    <2>4. PICK b \in Leaves(w) :
            stored' = IF req[w].linked THEN [stored EXCEPT ![req[w].s][req[w].p] = b]
                                       ELSE stored
      BY <1>6 DEF PartWritten, Leaves
    <2>5. stored' \in [Sessions -> [Parts -> Bytes]]
      BY <2>1, <2>3a, <2>4 DEF TypeOK
    <2> QED
      BY <1>6, <2>3, <2>5 DEF TypeOK, PartWritten, db
  <1>7. ASSUME NEW w \in Handlers, PartWriteFails(w)
        PROVE  TypeOK'
    BY <1>7, UnlinkedTyped DEF Bytes, TypeOK, RequestShape, PartWriteFails, At, db, Released
  <1>8. ASSUME NEW w \in Handlers, PartPut(w)
        PROVE  TypeOK'
    <2>1. CASE Refuse(w)
      BY <2>1, RefuseTyped
    <2>2. CASE ~Refuse(w)
      <3>1. /\ stored' = [stored EXCEPT ![req[w].s][req[w].p] = req[w].c]
            /\ GoTo(w, "upsert") /\ "upsert" \in Steps
            /\ UNCHANGED <<db, lock, live, object, swept>>
        BY <1>8, <2>2 DEF PartPut, Steps
      <3>2. req[w].s \in Sessions /\ req[w].p \in Parts /\ req[w].c \in Contents
        BY <1>8 DEF RequestShape, PartPut, At
      <3>3. req' \in [Handlers -> Request]
        BY <3>1, GoToTyped
      <3> QED
        BY <3>1, <3>2, <3>3 DEF Bytes, TypeOK, db
    <2> QED
      BY <2>1, <2>2
  <1>9. ASSUME NEW w \in Handlers, PartCommit(w)
        PROVE  TypeOK'
    BY <1>9, EndTyped DEF TypeOK, RequestShape, PartCommit, At, storage, Statuses
  <1>10. ASSUME NEW s \in Sessions, NEW p \in Parts, NEW c \in Contents, DirectPut(s, p, c)
        PROVE  TypeOK'
    BY <1>10 DEF Bytes, TypeOK, DirectPut, db
  <1>11. ASSUME NEW w \in Handlers, NEW s \in Sessions, NEW p \in Parts, NEW c \in Contents,
               CommitPartRead(w, s, p, c)
        PROVE  TypeOK'
    BY <1>11 DEF TypeOK, CommitPartRead, Begin, At, db, storage, Idle, Request, Steps, NoParts
  <1>12. ASSUME NEW w \in Handlers, NEW s \in Sessions, CompleteLock(w, s)
        PROVE  TypeOK'
    BY <1>12 DEF TypeOK, CompleteLock, Acquire, Begin, At, db, storage, Idle, Request, Steps, NoParts
  <1>13. ASSUME NEW w \in Handlers, CompleteList(w)
        PROVE  TypeOK'
    <2>1. CASE Refuse(w)
      BY <2>1, RefuseTyped
    <2>2. CASE ~Refuse(w)
      <3> DEFINE l == IF Backend = "local" /\ StoredParts(req[w].s) = {}
                        THEN partRow[req[w].s] ELSE stored[req[w].s]
      <3>1. req[w] \in Request /\ req[w].s \in Sessions
        BY <1>13 DEF TypeOK, RequestShape, CompleteList, At
      <3>2. l \in [Parts -> Bytes]
        BY <3>1 DEF Bytes, TypeOK
      <3>3. [req[w] EXCEPT !.at = "assemble", !.listed = l] \in Request
        BY <3>1, <3>2, StepTyped DEF Steps
      <3> QED
        BY <1>13, <2>2, <3>3 DEF TypeOK, CompleteList, Begin, db, storage
    <2> QED
      BY <2>1, <2>2
  <1>14. ASSUME NEW w \in Handlers, CompleteStore(w)
        PROVE  TypeOK'
    <2> DEFINE r == req[w]
               listed == {p \in Parts : r.listed[p] # None}
               assembled == [from |-> r.s, data |-> [p \in Parts |->
                               IF p \in listed THEN stored[r.s][p] ELSE None]]
    <2>1. r \in Request /\ r.s \in Sessions
      BY <1>14 DEF TypeOK, RequestShape, CompleteStore, At
    <2>2. [r EXCEPT !.at = "record"] \in Request
      BY <2>1, StepTyped DEF Steps
    <2>3. assembled \in Object
      BY <2>1 DEF Bytes, TypeOK, Object
    <2>4. \A v \in Handlers : Unlinked(req[v], r.s, Parts) \in Request
      BY UnlinkedTyped DEF TypeOK
    <2>5. PICK whole \in BOOLEAN :
            /\ object' = IF whole THEN assembled ELSE object
            /\ stored' = IF whole \/ Backend = "local"
                           THEN [stored EXCEPT ![r.s] = NoParts] ELSE stored
            /\ live' = [live EXCEPT ![r.s] = @ /\ ~whole]
            /\ lock' = IF whole THEN lock ELSE Released(w)
            /\ req' = [v \in Handlers |->
                         IF v = w THEN IF whole THEN [r EXCEPT !.at = "record"] ELSE Idle
                         ELSE IF Backend = "local" THEN Unlinked(req[v], r.s, Parts)
                         ELSE req[v]]
      BY <1>14 DEF CompleteStore
    <2>6. req' \in [Handlers -> Request]
      BY <2>2, <2>4, <2>5 DEF TypeOK
    <2>7. object' \in Object
      BY <2>3, <2>5 DEF TypeOK
    <2>8. stored' \in [Sessions -> [Parts -> Bytes]]
      BY <2>1, <2>5 DEF Bytes, TypeOK, NoParts
    <2>9. /\ live' \in [Sessions -> BOOLEAN]
          /\ lock' \in [Sessions -> Handlers \union {None}]
      BY <2>1, <2>5 DEF TypeOK, Released
    <2> QED
      BY <1>14, <2>6, <2>7, <2>8, <2>9 DEF TypeOK, CompleteStore, db
  <1>15. ASSUME NEW w \in Handlers, CompleteRecord(w)
        PROVE  TypeOK'
    <2>1. CASE Refuse(w)
      BY <2>1, RefuseTyped
    <2>2. CASE ~Refuse(w)
      <3>1. /\ file' = req[w].s /\ End(w)
            /\ status' = [status EXCEPT ![req[w].s] = "completed"]
            /\ fileId' = [fileId EXCEPT ![req[w].s] = req[w].s]
            /\ UNCHANGED <<lapsed, partRow, storage, swept>>
        BY <1>15, <2>2 DEF CompleteRecord
      <3>2. req[w].s \in Sessions
        BY <1>15 DEF RequestShape, CompleteRecord, At
      <3> QED
        BY <3>1, <3>2, EndTyped DEF TypeOK, storage, Statuses
    <2> QED
      BY <2>1, <2>2
  <1>16. ASSUME NEW w \in Handlers, NEW s \in Sessions, AbortLock(w, s)
        PROVE  TypeOK'
    BY <1>16 DEF TypeOK, AbortLock, Acquire, Begin, At, db, storage, Idle, Request, Steps, NoParts
  <1>17. ASSUME NEW w \in Handlers, AbortStore(w)
        PROVE  TypeOK'
    <2>1. req[w] \in Request /\ req[w].s \in Sessions
      BY <1>17 DEF TypeOK, RequestShape, AbortStore, At
    <2>2. [req[w] EXCEPT !.at = "aborted"] \in Request
      BY <2>1, StepTyped DEF Steps
    <2>3. \A v \in Handlers : Unlinked(req[v], req[w].s, Parts) \in Request
      BY UnlinkedTyped DEF TypeOK
    <2>4. CASE GoTo(w, "aborted") /\ UNCHANGED <<stored, live>>
      <3>1. req' \in [Handlers -> Request]
        BY <2>4, GoToTyped DEF Steps
      <3> QED
        BY <1>17, <2>4, <3>1 DEF TypeOK, AbortStore, db
    <2>5. CASE /\ stored' = [stored EXCEPT ![req[w].s] = NoParts]
               /\ live' = [live EXCEPT ![req[w].s] = FALSE]
               /\ req' = [v \in Handlers |->
                            IF v = w THEN [req[w] EXCEPT !.at = "aborted"]
                            ELSE Unlinked(req[v], req[w].s, Parts)]
      <3>1. req' \in [Handlers -> Request]
        BY <2>2, <2>3, <2>5
      <3> QED
        BY <1>17, <2>1, <2>5, <3>1 DEF Bytes, TypeOK, AbortStore, db, NoParts
    <2> QED
      BY <1>17, <2>4, <2>5 DEF AbortStore
  <1>18. ASSUME NEW w \in Handlers, AbortCommit(w)
        PROVE  TypeOK'
    BY <1>18, EndTyped DEF TypeOK, RequestShape, AbortCommit, At, storage, Statuses
  <1>19. ASSUME NEW s \in Sessions, Refresh(s) \/ Lapse(s)
        PROVE  TypeOK'
    BY <1>19 DEF TypeOK, Refresh, Lapse, storage
  <1>20. CASE SweepSelect \/ SweepUpdate \/ SweepFail
    BY <1>20 DEF TypeOK, SweepSelect, SweepUpdate, SweepFail, db, storage, Statuses
  <1>21. ASSUME NEW w \in Handlers, Fail(w) \/ Deadlock(w)
        PROVE  TypeOK'
    BY <1>21, RefuseTyped DEF Fail, Deadlock
  <1>22. CASE UNCHANGED vars
    BY <1>22 DEF TypeOK, vars, db, storage
  <1>23. ASSUME NEW w \in Handlers, PartUpsert(w)
        PROVE  TypeOK'
    BY <1>23, GoToTyped DEF TypeOK, PartUpsert, db, storage, Steps
  <1> QED
    BY <1>1, <1>2, <1>3, <1>4, <1>5, <1>6, <1>7, <1>8, <1>9, <1>10, <1>11, <1>12, <1>13,
       <1>14, <1>15, <1>16, <1>17, <1>18, <1>19, <1>20, <1>21, <1>22, <1>23
       DEF Next, Step, Arrive, Environment

(* Unlinking a part file moves no request and changes none of its choices. *)
LEMMA UnlinkedShape ==
  ASSUME NEW r \in Request, NEW s, NEW P
  PROVE  LET u == Unlinked(r, s, P) IN
         u.at = r.at /\ u.s = r.s /\ u.p = r.p /\ u.c = r.c /\ u.listed = r.listed
  BY DEF Unlinked, Request

(* What a step does to the requests: at most one of them goes on, and the     *)
(* others lose nothing but the name of the file they write.                   *)
Moves(w) ==
  \A v \in Handlers \ {w} :
    /\ req'[v].at = req[v].at /\ req'[v].s = req[v].s
    /\ req'[v].p = req[v].p /\ req'[v].c = req[v].c /\ req'[v].listed = req[v].listed

(* The request of w begins, goes on with its session, part and bytes, or ends. *)
Begins(w, s, step) == At(w, "idle") /\ req'[w].at = step /\ req'[w].s = s
Continues(w, from, to) ==
  /\ At(w, from) /\ req'[w].at = to
  /\ req'[w].s = req[w].s /\ req'[w].p = req[w].p /\ req'[w].c = req[w].c
Ends(w) == ~At(w, "idle") /\ req'[w].at = "idle"

(* The end of a transaction moves its own request only. *)
LEMMA EndMoves ==
  ASSUME TypeOK, NEW w \in Handlers, ~At(w, "idle"), End(w)
  PROVE  Moves(w) /\ Ends(w)
  BY DEF TypeOK, Request, End, Moves, Ends, Idle

(* So does a create that goes on to its insertion. *)
LEMMA CreateMoves ==
  ASSUME TypeOK, NEW w \in Handlers, NEW s \in Sessions, CreateCheck(w, s)
  PROVE  Moves(w) /\ Begins(w, s, "insert")
  BY DEF TypeOK, Request, CreateCheck, Begin, Moves, Begins, At, Idle

(* complete and abort begin by locking their session. *)
LEMMA LockMoves ==
  ASSUME TypeOK, NEW w \in Handlers, NEW s \in Sessions
  PROVE  /\ CompleteLock(w, s) => Moves(w) /\ Begins(w, s, "list")
         /\ AbortLock(w, s) => Moves(w) /\ Begins(w, s, "discard")
  <1>1. CompleteLock(w, s) => Moves(w) /\ Begins(w, s, "list")
    BY DEF TypeOK, Request, CompleteLock, Begin, Moves, Begins, At, Idle
  <1>2. AbortLock(w, s) => Moves(w) /\ Begins(w, s, "discard")
    BY DEF TypeOK, Request, AbortLock, Begin, Moves, Begins, At, Idle
  <1> QED
    BY <1>1, <1>2

(* The part requests begin by reading their session. *)
LEMMA PartMoves ==
  ASSUME TypeOK, NEW w \in Handlers, NEW s \in Sessions, NEW p \in Parts, NEW c \in Contents
  PROVE  /\ PartRead(w, s, p, c) =>
              /\ Moves(w) /\ (Begins(w, s, "mark") \/ Begins(w, s, "put"))
              /\ req'[w].p = p /\ req'[w].c = c
         /\ CommitPartRead(w, s, p, c) =>
              Moves(w) /\ Begins(w, s, "upsert") /\ req'[w].p = p /\ req'[w].c = c
  <1>1. PartRead(w, s, p, c) =>
              /\ Moves(w) /\ (Begins(w, s, "mark") \/ Begins(w, s, "put"))
              /\ req'[w].p = p /\ req'[w].c = c
    <2> SUFFICES ASSUME PartRead(w, s, p, c)
                 PROVE  /\ Moves(w) /\ (Begins(w, s, "mark") \/ Begins(w, s, "put"))
                        /\ req'[w].p = p /\ req'[w].c = c
      OBVIOUS
    <2> DEFINE step == IF status[s] = "initiated" THEN "mark" ELSE "put"
    <2>1. req' = [req EXCEPT ![w] = [Idle EXCEPT !.at = step, !.s = s, !.p = p, !.c = c]]
      BY DEF PartRead, Begin
    <2> QED
      BY <2>1 DEF TypeOK, PartRead, Moves, Begins, At, Idle
  <1>2. CommitPartRead(w, s, p, c) =>
              Moves(w) /\ Begins(w, s, "upsert") /\ req'[w].p = p /\ req'[w].c = c
    BY DEF TypeOK, CommitPartRead, Begin, Moves, Begins, At, Idle
  <1> QED
    BY <1>1, <1>2

(* A proxied part goes from marking the session to its commit. *)
LEMMA WriteMoves ==
  ASSUME TypeOK, NEW w \in Handlers
  PROVE  /\ PartMark(w) => Moves(w) /\ Continues(w, "mark", "put")
         /\ PartOpen(w) => Moves(w) /\ Continues(w, "put", "write")
         /\ PartWritten(w) => Moves(w) /\ Continues(w, "write", "upsert")
         /\ PartPut(w) => Moves(w) /\ (Continues(w, "put", "upsert") \/ Ends(w))
         /\ PartUpsert(w) => Moves(w) /\ Continues(w, "upsert", "commit")
  <1>1. PartMark(w) => Moves(w) /\ Continues(w, "mark", "put")
    BY DEF TypeOK, Request, PartMark, GoTo, Moves, Continues, At
  <1>2. PartOpen(w) => Moves(w) /\ Continues(w, "put", "write")
    BY DEF TypeOK, Request, PartOpen, Begin, Moves, Continues, At
  <1>3. PartWritten(w) => Moves(w) /\ Continues(w, "write", "upsert")
    BY DEF TypeOK, Request, PartWritten, Begin, Moves, Continues, At
  <1>4. PartPut(w) => Moves(w) /\ (Continues(w, "put", "upsert") \/ Ends(w))
    BY EndMoves DEF TypeOK, Request, PartPut, Refuse, GoTo, Moves, Continues, At
  <1>5. PartUpsert(w) => Moves(w) /\ Continues(w, "upsert", "commit")
    BY DEF TypeOK, Request, PartUpsert, GoTo, Moves, Continues, At
  <1> QED
    BY <1>1, <1>2, <1>3, <1>4, <1>5

(* complete and abort go through their storage calls in order. *)
LEMMA StoreMoves ==
  ASSUME TypeOK, NEW w \in Handlers
  PROVE  /\ CompleteList(w) => Moves(w) /\ (Continues(w, "list", "assemble") \/ Ends(w))
         /\ CompleteStore(w) => Moves(w) /\ (Continues(w, "assemble", "record") \/ Ends(w))
         /\ AbortStore(w) => Moves(w) /\ Continues(w, "discard", "aborted")
         /\ PartWriteFails(w) => Moves(w) /\ Ends(w)
  <1>0. /\ req \in [Handlers -> Request]
        /\ \A v \in Handlers, s \in Sessions \union {None}, P \in {Parts, {req[w].p}} :
             LET u == Unlinked(req[v], s, P) IN
             /\ u.at = req[v].at /\ u.s = req[v].s /\ u.p = req[v].p
             /\ u.c = req[v].c /\ u.listed = req[v].listed
        /\ req[w].s \in Sessions \union {None}
    <2>1. req \in [Handlers -> Request] /\ req[w].s \in Sessions \union {None}
      BY DEF TypeOK, Request
    <2> QED
      BY <2>1, UnlinkedShape
  <1>1. CompleteList(w) => Moves(w) /\ (Continues(w, "list", "assemble") \/ Ends(w))
    <2> SUFFICES ASSUME CompleteList(w), ~Refuse(w)
                 PROVE  Moves(w) /\ Continues(w, "list", "assemble")
      BY EndMoves DEF CompleteList, Refuse, At
    <2> DEFINE l == IF Backend = "local" /\ StoredParts(req[w].s) = {}
                      THEN partRow[req[w].s] ELSE stored[req[w].s]
    <2>1. req' = [req EXCEPT ![w] = [req[w] EXCEPT !.at = "assemble", !.listed = l]]
      BY DEF CompleteList, Begin
    <2> HIDE DEF l
    <2> QED
      BY <1>0, <2>1 DEF CompleteList, Moves, Continues, At, Request
  <1>2. CompleteStore(w) => Moves(w) /\ (Continues(w, "assemble", "record") \/ Ends(w))
    <2> SUFFICES ASSUME CompleteStore(w)
                 PROVE  Moves(w) /\ (Continues(w, "assemble", "record") \/ Ends(w))
      OBVIOUS
    <2>1. PICK whole \in BOOLEAN :
            req' = [v \in Handlers |->
                         IF v = w THEN IF whole THEN [req[w] EXCEPT !.at = "record"] ELSE Idle
                         ELSE IF Backend = "local" THEN Unlinked(req[v], req[w].s, Parts)
                         ELSE req[v]]
      BY DEF CompleteStore
    <2>2. Moves(w)
      BY <1>0, <2>1 DEF Moves
    <2>3. Continues(w, "assemble", "record") \/ Ends(w)
      BY <1>0, <2>1 DEF CompleteStore, Continues, Ends, At, Idle, Request
    <2> QED
      BY <2>2, <2>3
  <1>3. AbortStore(w) => Moves(w) /\ Continues(w, "discard", "aborted")
    <2> SUFFICES ASSUME AbortStore(w)
                 PROVE  Moves(w) /\ Continues(w, "discard", "aborted")
      OBVIOUS
    <2>1. CASE GoTo(w, "aborted")
      BY <1>0, <2>1 DEF AbortStore, GoTo, Moves, Continues, At, Request
    <2>2. CASE req' = [v \in Handlers |->
                         IF v = w THEN [req[w] EXCEPT !.at = "aborted"]
                         ELSE Unlinked(req[v], req[w].s, Parts)]
      <3>1. Moves(w)
        BY <1>0, <2>2 DEF Moves
      <3>2. Continues(w, "discard", "aborted")
        BY <1>0, <2>2 DEF AbortStore, Continues, At, Request
      <3> QED
        BY <3>1, <3>2
    <2> QED
      BY <2>1, <2>2 DEF AbortStore
  <1>4. PartWriteFails(w) => Moves(w) /\ Ends(w)
    <2> SUFFICES ASSUME PartWriteFails(w)
                 PROVE  Moves(w) /\ Ends(w)
      OBVIOUS
    <2>1. req' = [v \in Handlers |-> IF v = w THEN Idle
                                     ELSE Unlinked(req[v], req[w].s, {req[w].p})]
      BY DEF PartWriteFails
    <2>2. Moves(w)
      BY <1>0, <2>1 DEF Moves
    <2>3. Ends(w)
      BY <2>1 DEF PartWriteFails, Ends, At, Idle
    <2> QED
      BY <2>2, <2>3
  <1> QED
    BY <1>1, <1>2, <1>3, <1>4

(* The last step of every handler ends its request. *)
LEMMA CommitMoves ==
  ASSUME TypeOK, NEW w \in Handlers,
         \/ CreateInsert(w) \/ PartCommit(w) \/ CompleteRecord(w) \/ AbortCommit(w)
         \/ Fail(w) \/ Deadlock(w)
  PROVE  Moves(w) /\ Ends(w)
  BY EndMoves DEF CreateInsert, PartCommit, CompleteRecord, AbortCommit, Fail, Deadlock,
                  WaitInCircle, Refuse, At

(* A request that ends or goes on keeps what it works on. *)
LEMMA ShapeMove ==
  ASSUME RequestShape, NEW w \in Handlers, Moves(w),
         \/ Ends(w)
         \/ \E from \in Steps, to \in Steps :
              /\ Continues(w, from, to) /\ from # "idle"
              /\ to \in {"mark", "put", "write", "upsert", "commit"} =>
                   from \in {"mark", "put", "write", "upsert", "commit"}
         \/ \E s \in Sessions, to \in Steps :
              /\ Begins(w, s, to)
              /\ to \in {"mark", "put", "write", "upsert", "commit"} =>
                   req'[w].p \in Parts /\ req'[w].c \in Contents
  PROVE  RequestShape'
  <1> SUFFICES ASSUME NEW v \in Handlers
               PROVE  /\ req'[v].at # "idle" => req'[v].s \in Sessions
                      /\ req'[v].at \in {"mark", "put", "write", "upsert", "commit"} =>
                           req'[v].p \in Parts /\ req'[v].c \in Contents
    BY DEF RequestShape
  <1>1. CASE v # w
    BY <1>1 DEF RequestShape, Moves
  <1>2. CASE v = w
    BY <1>2 DEF RequestShape, Ends, Continues, Begins, At
  <1> QED
    BY <1>1, <1>2

(* Whoever works on a session, a part or a list names it. *)
LEMMA ShapeStep ==
  ASSUME TypeOK, RequestShape, [Next]_vars
  PROVE  RequestShape'
  <1>1. ASSUME NEW w \in Handlers, Step(w)
        PROVE  RequestShape'
    <2>1. /\ Moves(w)
          /\ \/ Ends(w)
             \/ Continues(w, "mark", "put") \/ Continues(w, "put", "write")
             \/ Continues(w, "write", "upsert") \/ Continues(w, "put", "upsert")
             \/ Continues(w, "upsert", "commit")
             \/ Continues(w, "list", "assemble") \/ Continues(w, "assemble", "record")
             \/ Continues(w, "discard", "aborted")
      BY <1>1, WriteMoves, StoreMoves, CommitMoves DEF Step
    <2> QED
      BY <2>1, ShapeMove DEF Steps
  <1>2. ASSUME NEW w \in Handlers, Arrive(w)
        PROVE  RequestShape'
    <2>1. PICK s \in Sessions :
            \/ CreateCheck(w, s) \/ CompleteLock(w, s) \/ AbortLock(w, s)
            \/ \E p \in Parts, c \in Contents :
                 PartRead(w, s, p, c) \/ CommitPartRead(w, s, p, c)
      BY <1>2 DEF Arrive
    <2>2. CASE CreateCheck(w, s) \/ CompleteLock(w, s) \/ AbortLock(w, s)
      <3>1. /\ Moves(w)
            /\ Begins(w, s, "insert") \/ Begins(w, s, "list") \/ Begins(w, s, "discard")
        BY <2>2, CreateMoves, LockMoves
      <3> QED
        BY <3>1, ShapeMove DEF Steps
    <2>3. ASSUME NEW p \in Parts, NEW c \in Contents,
                 PartRead(w, s, p, c) \/ CommitPartRead(w, s, p, c)
          PROVE  RequestShape'
      <3>1. /\ Moves(w) /\ req'[w].p = p /\ req'[w].c = c
            /\ Begins(w, s, "mark") \/ Begins(w, s, "put") \/ Begins(w, s, "upsert")
        BY <2>3, PartMoves
      <3> QED
        BY <3>1, ShapeMove DEF Steps
    <2> QED
      BY <2>1, <2>2, <2>3
  <1>3. ASSUME NEW w \in Handlers, Fail(w) \/ Deadlock(w) \/ PartWriteFails(w)
        PROVE  RequestShape'
    BY <1>3, StoreMoves, CommitMoves, ShapeMove
  <1>4. CASE UNCHANGED req
    BY <1>4 DEF RequestShape
  <1> QED
    BY <1>1, <1>2, <1>3, <1>4
       DEF Next, Environment, Refresh, Lapse, DirectPut, SweepSelect, SweepUpdate, SweepFail, vars

Typing == TypeOK /\ RequestShape

(* Typing is an inductive invariant: types alone are not, a step needs its names. *)
LEMMA Typed == Spec => []Typing
  <1>1. Init => Typing
    BY ConstantsAssumption, IdleTyped
       DEF Bytes, Init, Typing, TypeOK, RequestShape, Idle, NoParts, NoObject, Object, Statuses
  <1>2. Typing /\ [Next]_vars => Typing'
    BY TypeStep, ShapeStep DEF Typing
  <1> QED
    BY <1>1, <1>2, PTL DEF Spec

(* Every variable keeps its type whatever requests, sweeps, faults and crashes *)
(* do, in any order.                                                          *)
THEOREM TypeCorrect == Spec => []TypeOK
  BY Typed, PTL DEF Typing

-----------------------------------------------------------------------------
(* The row lock.  A request takes the lock of its own session when nobody has *)
(* it, keeps it while it works on the row, and gives it up when it ends.      *)

MayHold == Exclusive \union {"put", "write", "upsert", "commit"}

(* Acquiring a free lock keeps the lock discipline. *)
LEMMA LockTaken ==
  ASSUME Typing, LockDiscipline, NEW w \in Handlers, NEW s \in Sessions,
         Moves(w), Acquire(w, s), req'[w].s = s, req'[w].at \in MayHold,
         req[w].at \notin MayHold
  PROVE  LockDiscipline'
  <1> SUFFICES ASSUME NEW v \in Handlers
               PROVE  /\ req'[v].at \in Exclusive => req'[v].s \in Sessions /\ lock'[req'[v].s] = v
                      /\ \A t \in Sessions : lock'[t] = v => req'[v].s = t /\ req'[v].at \in MayHold
    BY DEF LockDiscipline, MayHold
  <1>1. lock' = [lock EXCEPT ![s] = w] /\ lock[s] = None /\ None \notin Handlers
    BY ConstantsAssumption DEF Acquire
  <1>2. lock \in [Sessions -> Handlers \union {None}]
    BY DEF Typing, TypeOK
  <1>3. CASE v = w
    BY <1>1, <1>2, <1>3 DEF LockDiscipline, MayHold
  <1>4. CASE v # w
    BY <1>1, <1>2, <1>4 DEF LockDiscipline, MayHold, Moves
  <1> QED
    BY <1>3, <1>4

(* So does a step that neither takes nor gives up a lock, *)
LEMMA LockKept ==
  ASSUME Typing, LockDiscipline, NEW w \in Handlers, Moves(w), lock' = lock,
         \/ req[w].at \in MayHold /\ req'[w].at \in MayHold
            /\ (req'[w].at \in Exclusive => req[w].at \in Exclusive) /\ req'[w].s = req[w].s
         \/ req[w].at \notin MayHold /\ req'[w].at \notin Exclusive
  PROVE  LockDiscipline'
  <1> SUFFICES ASSUME NEW v \in Handlers
               PROVE  /\ req'[v].at \in Exclusive => req'[v].s \in Sessions /\ lock'[req'[v].s] = v
                      /\ \A t \in Sessions : lock'[t] = v => req'[v].s = t /\ req'[v].at \in MayHold
    BY DEF LockDiscipline, MayHold
  <1> QED
    BY DEF LockDiscipline, MayHold, Moves

(* and the end of a request, which gives up all of its locks. *)
LEMMA LockReleased ==
  ASSUME Typing, LockDiscipline, NEW w \in Handlers, Moves(w), lock' = Released(w), Ends(w)
  PROVE  LockDiscipline'
  <1> SUFFICES ASSUME NEW v \in Handlers
               PROVE  /\ req'[v].at \in Exclusive => req'[v].s \in Sessions /\ lock'[req'[v].s] = v
                      /\ \A t \in Sessions : lock'[t] = v => req'[v].s = t /\ req'[v].at \in MayHold
    BY DEF LockDiscipline, MayHold
  <1>1. None \notin Handlers /\ lock' = [s \in Sessions |-> IF lock[s] = w THEN None ELSE lock[s]]
    BY ConstantsAssumption DEF Released
  <1>2. CASE v = w
    BY <1>1, <1>2 DEF Ends, Exclusive
  <1>3. CASE v # w
    BY <1>1, <1>3 DEF LockDiscipline, MayHold, Moves
  <1> QED
    BY <1>2, <1>3

(* No step breaks the lock discipline. *)
LEMMA LockStep ==
  ASSUME Typing, LockDiscipline, [Next]_vars
  PROVE  LockDiscipline'
  <1> USE DEF MayHold, Exclusive
  <1>t. TypeOK
    BY DEF Typing
  <1>1. ASSUME NEW w \in Handlers, NEW s \in Sessions, CompleteLock(w, s) \/ AbortLock(w, s)
        PROVE  LockDiscipline'
    <2>1. /\ Moves(w) /\ Acquire(w, s)
          /\ Begins(w, s, "list") \/ Begins(w, s, "discard")
      BY <1>1, <1>t, LockMoves DEF CompleteLock, AbortLock
    <2> QED
      BY <2>1, LockTaken DEF Begins, At
  <1>2. ASSUME NEW w \in Handlers, PartMark(w)
        PROVE  LockDiscipline'
    <2>1. Moves(w) /\ Acquire(w, req[w].s) /\ Continues(w, "mark", "put") /\ req[w].s \in Sessions
      BY <1>2, <1>t, WriteMoves DEF PartMark, Typing, RequestShape, At
    <2> QED
      BY <2>1, LockTaken DEF Continues, At
  <1>3. ASSUME NEW w \in Handlers, NEW s \in Sessions, CreateCheck(w, s)
        PROVE  LockDiscipline'
    <2>1. Moves(w) /\ Begins(w, s, "insert") /\ lock' = lock
      BY <1>3, <1>t, CreateMoves DEF CreateCheck
    <2> QED
      BY <2>1, LockKept DEF Begins, At
  <1>4. ASSUME NEW w \in Handlers, NEW s \in Sessions, NEW p \in Parts, NEW c \in Contents,
               PartRead(w, s, p, c) \/ CommitPartRead(w, s, p, c)
        PROVE  LockDiscipline'
    <2>1. /\ Moves(w) /\ lock' = lock
          /\ Begins(w, s, "mark") \/ Begins(w, s, "put") \/ Begins(w, s, "upsert")
      <3>1. CASE PartRead(w, s, p, c)
        <4>1. Moves(w) /\ (Begins(w, s, "mark") \/ Begins(w, s, "put"))
          BY <3>1, <1>t, PartMoves
        <4>2. lock' = lock
          BY <3>1 DEF PartRead
        <4> QED
          BY <4>1, <4>2
      <3>2. CASE CommitPartRead(w, s, p, c)
        BY <3>2, <1>t, PartMoves DEF CommitPartRead
      <3> QED
        BY <1>4, <3>1, <3>2
    <2>2. At(w, "idle") /\ req'[w].at \notin Exclusive
      BY <2>1 DEF Begins
    <2> QED
      BY <2>1, <2>2, LockKept DEF At
  <1>5. ASSUME NEW w \in Handlers, PartOpen(w) \/ PartWritten(w) \/ PartUpsert(w)
        PROVE  LockDiscipline'
    <2>1. /\ Moves(w) /\ lock' = lock
          /\ \/ Continues(w, "put", "write") \/ Continues(w, "write", "upsert")
             \/ Continues(w, "upsert", "commit")
      BY <1>5, <1>t, WriteMoves DEF PartOpen, PartWritten, PartUpsert
    <2> QED
      BY <2>1, LockKept DEF Continues, At
  <1>6. ASSUME NEW w \in Handlers, PartPut(w)
        PROVE  LockDiscipline'
    <2>1. CASE Refuse(w)
      BY <1>6, <2>1, <1>t, EndMoves, LockReleased DEF PartPut, Refuse, End, At
    <2>2. CASE ~Refuse(w)
      <3>1. lock' = lock /\ At(w, "put") /\ GoTo(w, "upsert")
        BY <1>6, <2>2 DEF PartPut
      <3>2. req'[w].at = "upsert" /\ req'[w].s = req[w].s /\ Moves(w)
        BY <3>1, <1>t DEF GoTo, Moves, TypeOK, Request
      <3> QED
        BY <3>1, <3>2, LockKept DEF At
    <2> QED
      BY <2>1, <2>2
  <1>7. ASSUME NEW w \in Handlers, CompleteList(w)
        PROVE  LockDiscipline'
    <2>1. CASE Refuse(w)
      BY <1>7, <2>1, <1>t, EndMoves, LockReleased DEF CompleteList, Refuse, End, At
    <2>2. CASE ~Refuse(w)
      <3>1. lock' = lock /\ At(w, "list") /\ req'[w].at = "assemble"
        <4> DEFINE l == IF Backend = "local" /\ StoredParts(req[w].s) = {}
                          THEN partRow[req[w].s] ELSE stored[req[w].s]
        <4>1. /\ req' = [req EXCEPT ![w] = [req[w] EXCEPT !.at = "assemble", !.listed = l]]
              /\ lock' = lock /\ At(w, "list")
          BY <1>7, <2>2 DEF CompleteList, Begin
        <4> HIDE DEF l
        <4> QED
          BY <4>1, <1>t DEF TypeOK, Request
      <3>2. Moves(w) /\ Continues(w, "list", "assemble")
        BY <1>7, <1>t, <3>1, StoreMoves DEF Ends
      <3> QED
        BY <3>1, <3>2, LockKept DEF Continues, At
    <2> QED
      BY <2>1, <2>2
  <1>8. ASSUME NEW w \in Handlers, CompleteStore(w)
        PROVE  LockDiscipline'
    <2>1. PICK whole \in BOOLEAN :
            /\ lock' = IF whole THEN lock ELSE Released(w)
            /\ req' = [v \in Handlers |->
                         IF v = w THEN IF whole THEN [req[w] EXCEPT !.at = "record"] ELSE Idle
                         ELSE IF Backend = "local" THEN Unlinked(req[v], req[w].s, Parts)
                         ELSE req[v]]
      BY <1>8 DEF CompleteStore
    <2>2. Moves(w) /\ (Continues(w, "assemble", "record") \/ Ends(w))
      BY <1>8, <1>t, StoreMoves
    <2>3. req'[w].at = IF whole THEN "record" ELSE "idle"
      BY <2>1, <1>t DEF TypeOK, Request, Idle
    <2> QED
      BY <2>1, <2>2, <2>3, LockKept, LockReleased DEF Continues, Ends, At
  <1>9. ASSUME NEW w \in Handlers, AbortStore(w)
        PROVE  LockDiscipline'
    <2>1. Moves(w) /\ lock' = lock /\ Continues(w, "discard", "aborted")
      BY <1>9, <1>t, StoreMoves DEF AbortStore
    <2> QED
      BY <2>1, LockKept DEF Continues, At
  <1>10. ASSUME NEW w \in Handlers,
                \/ CreateInsert(w) \/ PartCommit(w) \/ CompleteRecord(w) \/ AbortCommit(w)
                \/ Fail(w) \/ Deadlock(w) \/ PartWriteFails(w)
         PROVE  LockDiscipline'
    <2>1. Moves(w) /\ Ends(w) /\ lock' = Released(w)
      BY <1>10, <1>t, CommitMoves, StoreMoves
         DEF CreateInsert, PartCommit, CompleteRecord, AbortCommit, Fail, Deadlock, PartWriteFails, Refuse, End
    <2> QED
      BY <2>1, LockReleased
  <1>11. CASE UNCHANGED <<lock, req>>
    BY <1>11 DEF LockDiscipline
  <1> QED
    BY <1>1, <1>2, <1>3, <1>4, <1>5, <1>6, <1>7, <1>8, <1>9, <1>10, <1>11
       DEF Next, Step, Arrive, Environment, Refresh, Lapse, DirectPut, SweepSelect, SweepUpdate,
           SweepFail, vars

(* A row lock is never held twice, never survives the request that took it,   *)
(* and complete and abort never work on a row without it.                     *)
THEOREM LockSafe == Spec => []LockDiscipline
  <1>1. Init => LockDiscipline
    BY ConstantsAssumption DEF Init, LockDiscipline, Idle, Exclusive
  <1>2. Typing /\ LockDiscipline /\ [Next]_vars => LockDiscipline'
    BY LockStep
  <1> QED
    BY <1>1, <1>2, Typed, PTL DEF Spec

-----------------------------------------------------------------------------
(* The rows complete() writes. *)

(* No step makes the session rows and the file row disagree. *)
LEMMA FileStep ==
  ASSUME Typing, OneFilePerKey, [Next]_vars
  PROVE  OneFilePerKey'
  <1>t. /\ TypeOK /\ None \notin Sessions
    BY ConstantsAssumption DEF Typing
  <1>1. ASSUME NEW w \in Handlers, CompleteRecord(w)
        PROVE  OneFilePerKey'
    <2>1. CASE Refuse(w)
      BY <2>1 DEF Refuse, db, OneFilePerKey
    <2>2. CASE ~Refuse(w)
      <3>1. /\ file = None /\ file' = req[w].s
            /\ status' = [status EXCEPT ![req[w].s] = "completed"]
            /\ fileId' = [fileId EXCEPT ![req[w].s] = req[w].s]
        BY <1>1, <2>2 DEF CompleteRecord
      <3>2. req[w].s \in Sessions
        BY <1>1 DEF Typing, RequestShape, CompleteRecord, At
      <3> QED
        BY <3>1, <3>2, <1>t DEF OneFilePerKey, TypeOK
    <2> QED
      BY <2>1, <2>2
  <1>2. CASE /\ UNCHANGED <<file, fileId>>
             /\ \A s \in Sessions : status'[s] = "completed" => status[s] = "completed"
    BY <1>2 DEF OneFilePerKey
  <1>3. ASSUME NEW w \in Handlers, CreateInsert(w) \/ PartCommit(w) \/ AbortCommit(w)
        PROVE  OneFilePerKey'
    BY <1>2, <1>3, <1>t DEF CreateInsert, PartCommit, AbortCommit, TypeOK
  <1>4. CASE SweepUpdate
    BY <1>2, <1>4, <1>t DEF SweepUpdate, TypeOK
  <1>5. CASE UNCHANGED <<status, file, fileId>>
    BY <1>2, <1>5
  <1>6. ASSUME NEW w \in Handlers, Step(w) \/ Arrive(w) \/ Fail(w) \/ Deadlock(w) \/ PartWriteFails(w)
        PROVE  OneFilePerKey'
    <2>1. CASE \/ PartMark(w) \/ PartOpen(w) \/ PartWritten(w) \/ PartPut(w) \/ PartUpsert(w)
               \/ CompleteList(w) \/ CompleteStore(w) \/ AbortStore(w)
               \/ Fail(w) \/ Deadlock(w) \/ PartWriteFails(w)
      BY <2>1, <1>5 DEF PartMark, PartOpen, PartWritten, PartPut, PartUpsert, CompleteList, CompleteStore,
                        AbortStore, Fail, Deadlock, PartWriteFails, Refuse, db
    <2>2. CASE Arrive(w)
      BY <2>2, <1>5 DEF Arrive, CreateCheck, CompleteLock, AbortLock, PartRead, CommitPartRead, db
    <2> QED
      BY <1>1, <1>3, <1>6, <2>1, <2>2 DEF Step
  <1>7. CASE \/ \E s \in Sessions : Refresh(s) \/ Lapse(s)
             \/ \E s \in Sessions, p \in Parts, c \in Contents : DirectPut(s, p, c)
             \/ SweepSelect \/ SweepFail \/ UNCHANGED vars
    BY <1>5, <1>7 DEF Refresh, Lapse, DirectPut, SweepSelect, SweepFail, vars, db
  <1> QED
    BY <1>4, <1>6, <1>7 DEF Next, Environment

(* However many sessions and requests compete for a key, one of them at most  *)
(* owns its file, and the session and file rows agree on which.               *)
THEOREM FileSafe == Spec => []OneFilePerKey
  <1>1. Init => OneFilePerKey
    BY ConstantsAssumption DEF Init, OneFilePerKey
  <1>2. Typing /\ OneFilePerKey /\ [Next]_vars => OneFilePerKey'
    BY FileStep
  <1> QED
    BY <1>1, <1>2, Typed, PTL DEF Spec

-----------------------------------------------------------------------------
(* How far each request has come with its session. *)

(* The session a create is about to insert has no row and no other request. *)
Unborn ==
  \A w \in Handlers : At(w, "insert") =>
    /\ status[req[w].s] = "none"
    /\ \A v \in Handlers \ {w} : ~At(v, "idle") => req[v].s # req[w].s

(* Every other request found a row, and so did the sweep; rows are not deleted. *)
Born ==
  /\ \A w \in Handlers : req[w].at \notin {"idle", "insert"} => status[req[w].s] # "none"
  /\ \A s \in swept : status[s] # "none"

(* While complete and abort hold the row lock the session stays active. *)
Open == \A w \in Handlers : req[w].at \in Exclusive => status[req[w].s] \in Active

(* An upload that was completed in storage is gone, from there to the file row *)
(* and for ever after.                                                        *)
Consumed ==
  /\ \A w \in Handlers : At(w, "record") => ~live[req[w].s]
  /\ \A s \in Sessions : file = s => ~live[s] /\ status[s] # "none"

Progress == Unborn /\ Born /\ Open /\ Consumed

(* A request that begins on a session with a row finds Progress as it was, *)
LEMMA ProgressBegins ==
  ASSUME Typing, Progress, NEW w \in Handlers, NEW s \in Sessions, NEW step \in Steps,
         Moves(w), Begins(w, s, step), step \notin {"idle", "insert", "record"},
         status[s] \in Active, UNCHANGED <<status, live, file, swept>>
  PROVE  Progress'
  <1> USE DEF Progress, Moves, Begins, At
  <1>1. status[s] # "none"
    BY DEF Active
  <1>2. Unborn'
    BY <1>1 DEF Unborn
  <1>3. Born'
    BY <1>1 DEF Born
  <1>4. Open'
    BY DEF Open
  <1>5. Consumed'
    BY DEF Consumed
  <1> QED
    BY <1>2, <1>3, <1>4, <1>5

(* and so does one that goes on or ends and writes no row. *)
LEMMA ProgressMoves ==
  ASSUME Typing, Progress, NEW w \in Handlers, Moves(w),
         \/ Ends(w)
         \/ \E from, to \in Steps \ {"idle", "insert"} :
              /\ Continues(w, from, to)
              /\ to \in Exclusive => from \in Exclusive
              /\ to = "record" => ~live'[req[w].s],
         UNCHANGED <<status, file, swept>>,
         \A s \in Sessions : live'[s] => live[s]
  PROVE  Progress'
  <1> USE DEF Progress, Moves, Ends, Continues, At
  <1>0. \A v \in Handlers : req[v].at # "idle" => req[v].s \in Sessions
    BY DEF Typing, RequestShape
  <1>2. Unborn'
    BY DEF Unborn
  <1>3. Born'
    BY DEF Born
  <1>4. Open'
    BY DEF Open, Exclusive
  <1>5. Consumed'
    <2>1. ASSUME NEW v \in Handlers, req'[v].at = "record"
          PROVE  ~live'[req'[v].s]
      <3>1. CASE v = w
        BY <2>1, <3>1, <1>0 DEF Consumed
      <3>2. CASE v # w
        BY <2>1, <3>2, <1>0 DEF Consumed
      <3> QED
        BY <3>1, <3>2
    <2> QED
      BY <2>1 DEF Consumed
  <1> QED
    BY <1>2, <1>3, <1>4, <1>5

(* A request that ends by writing its session row: the row was there, or is    *)
(* inserted by its create; nobody else may hold its lock.                      *)
LEMMA ProgressWrites ==
  ASSUME Typing, LockDiscipline, Progress, NEW w \in Handlers, Moves(w), Ends(w),
         NEW new \in Statuses \ {"none"},
         status' = [status EXCEPT ![req[w].s] = new],
         \/ At(w, "insert") \/ lock[req[w].s] \in {None, w},
         file' = file \/ (At(w, "record") /\ file' = req[w].s),
         UNCHANGED <<live, swept>>
  PROVE  Progress'
  <1> USE DEF Progress, Moves, Ends, At
  <1>0. /\ \A v \in Handlers : req[v].at # "idle" => req[v].s \in Sessions
        /\ status \in [Sessions -> Statuses] /\ swept \subseteq Sessions
        /\ None \notin Handlers
    BY ConstantsAssumption DEF Typing, RequestShape, TypeOK
  <1>1. \A s \in Sessions : status'[s] = IF s = req[w].s THEN new ELSE status[s]
    BY <1>0
  <1>2. Unborn'
    BY <1>0, <1>1 DEF Unborn
  <1>3. Born'
    BY <1>0, <1>1 DEF Born
  <1>4. Open'
    <2> SUFFICES ASSUME NEW v \in Handlers, req'[v].at \in Exclusive
                 PROVE  status'[req'[v].s] \in Active
      BY DEF Open
    <2>1. v # w /\ req[v].at \in Exclusive /\ req'[v].s = req[v].s /\ lock[req[v].s] = v
      BY DEF LockDiscipline, Exclusive
    <2>2. req[v].s # req[w].s
      BY <2>1, <1>0 DEF Unborn, Exclusive
    <2> QED
      BY <2>1, <2>2, <1>0, <1>1 DEF Open, Exclusive
  <1>5. Consumed'
    BY <1>0, <1>1 DEF Consumed
  <1> QED
    BY <1>2, <1>3, <1>4, <1>5

(* No step loses a request's hold on its session. *)
LEMMA ProgressStep ==
  ASSUME Typing, LockDiscipline, Progress, [Next]_vars
  PROVE  Progress'
  <1>t. TypeOK
    BY DEF Typing
  <1>0. \A v \in Handlers : req[v].at # "idle" => req[v].s \in Sessions
    BY DEF Typing, RequestShape
  <1>1. ASSUME NEW w \in Handlers, NEW s \in Sessions, CreateCheck(w, s)
        PROVE  Progress'
    <2>1. /\ Moves(w) /\ At(w, "idle") /\ req'[w].at = "insert" /\ req'[w].s = s
          /\ status[s] = "none" /\ \A v \in Handlers : req[v].s # s
          /\ UNCHANGED <<status, file, swept>>
          /\ \A t \in Sessions \ {s} : live'[t] = live[t]
      <3>1. Moves(w) /\ Begins(w, s, "insert")
        BY <1>1, <1>t, CreateMoves
      <3>2. \A t \in Sessions \ {s} : live'[t] = live[t]
        BY <1>1, <1>t DEF CreateCheck, TypeOK
      <3> QED
        BY <1>1, <3>1, <3>2 DEF CreateCheck, Begins, db
    <2> USE DEF Moves, At
    <2>2. Unborn'
      BY <2>1 DEF Progress, Unborn
    <2>3. Born'
      BY <2>1 DEF Progress, Born
    <2>4. Open'
      BY <2>1 DEF Progress, Open, Exclusive
    <2>5. Consumed'
      BY <2>1, <1>0 DEF Progress, Consumed
    <2> QED
      BY <2>2, <2>3, <2>4, <2>5 DEF Progress
  <1>2. ASSUME NEW w \in Handlers, NEW s \in Sessions, CompleteLock(w, s) \/ AbortLock(w, s)
        PROVE  Progress'
    <2>1. /\ Moves(w) /\ (Begins(w, s, "list") \/ Begins(w, s, "discard"))
          /\ status[s] \in Active /\ UNCHANGED <<status, live, file, swept>>
      BY <1>2, <1>t, LockMoves DEF CompleteLock, AbortLock, db, storage
    <2> QED
      BY <1>2, <1>t, <2>1, LockMoves, ProgressBegins DEF Steps
  <1>3. ASSUME NEW w \in Handlers, NEW s \in Sessions, NEW p \in Parts, NEW c \in Contents,
               PartRead(w, s, p, c) \/ CommitPartRead(w, s, p, c)
        PROVE  Progress'
    <2>1. /\ Moves(w)
          /\ Begins(w, s, "mark") \/ Begins(w, s, "put") \/ Begins(w, s, "upsert")
      BY <1>3, <1>t, PartMoves
    <2>2. status[s] \in Active /\ UNCHANGED <<status, live, file, swept>>
      BY <1>3 DEF PartRead, CommitPartRead, db, storage
    <2> QED
      BY <2>1, <2>2, ProgressBegins DEF Steps
  <1>4. ASSUME NEW w \in Handlers, PartMark(w) \/ PartOpen(w) \/ PartWritten(w) \/ PartPut(w) \/ PartUpsert(w)
        PROVE  Progress'
    <2>1. /\ Moves(w)
          /\ \/ Ends(w) \/ Continues(w, "mark", "put") \/ Continues(w, "put", "write")
             \/ Continues(w, "write", "upsert") \/ Continues(w, "put", "upsert")
             \/ Continues(w, "upsert", "commit")
      BY <1>4, <1>t, WriteMoves
    <2>2. UNCHANGED <<status, live, file, swept>>
      BY <1>4 DEF PartMark, PartOpen, PartWritten, PartPut, PartUpsert, Refuse, db, storage
    <2> QED
      BY <2>1, <2>2, ProgressMoves DEF Steps, Exclusive
  <1>5. ASSUME NEW w \in Handlers, CompleteList(w) \/ AbortStore(w)
        PROVE  Progress'
    <2>1. /\ Moves(w)
          /\ Ends(w) \/ Continues(w, "list", "assemble") \/ Continues(w, "discard", "aborted")
      BY <1>5, <1>t, StoreMoves
    <2>2. UNCHANGED <<status, file, swept>>
      BY <1>5 DEF CompleteList, AbortStore, Refuse, db
    <2>3. \A s \in Sessions : live'[s] => live[s]
      BY <1>5, <1>t DEF CompleteList, AbortStore, Refuse, storage, TypeOK
    <2> QED
      BY <2>1, <2>2, <2>3, ProgressMoves DEF Steps, Exclusive
  <1>6. ASSUME NEW w \in Handlers, CompleteStore(w)
        PROVE  Progress'
    <2>1. PICK whole \in BOOLEAN :
            /\ live' = [live EXCEPT ![req[w].s] = @ /\ ~whole]
            /\ req' = [v \in Handlers |->
                         IF v = w THEN IF whole THEN [req[w] EXCEPT !.at = "record"] ELSE Idle
                         ELSE IF Backend = "local" THEN Unlinked(req[v], req[w].s, Parts)
                         ELSE req[v]]
      BY <1>6 DEF CompleteStore
    <2>2. Moves(w) /\ (Continues(w, "assemble", "record") \/ Ends(w))
      BY <1>6, <1>t, StoreMoves
    <2>3. req'[w].at = (IF whole THEN "record" ELSE "idle") /\ req[w].s \in Sessions
      BY <1>6, <2>1, <1>t, <1>0 DEF TypeOK, Request, Idle, CompleteStore, At
    <2>4. Ends(w) \/ (Continues(w, "assemble", "record") /\ ~live'[req[w].s])
      <3>1. CASE whole
        <4>1. live' = [live EXCEPT ![req[w].s] = FALSE]
          BY <2>1, <3>1, <2>3, <1>t DEF TypeOK
        <4> QED
          BY <2>2, <2>3, <3>1, <4>1, <1>t DEF TypeOK, Ends
      <3>2. CASE ~whole
        BY <2>2, <2>3, <3>2 DEF Ends, Continues
      <3> QED
        BY <3>1, <3>2
    <2>5. \A s \in Sessions : live'[s] => live[s]
      BY <2>1, <2>3, <1>t DEF TypeOK
    <2>6. UNCHANGED <<status, file, swept>>
      BY <1>6 DEF CompleteStore, db
    <2> QED
      BY <2>2, <2>4, <2>5, <2>6, ProgressMoves DEF Steps, Exclusive
  <1>7. ASSUME NEW w \in Handlers, (Refuse(w) /\ ~At(w, "idle")) \/ Fail(w) \/ Deadlock(w) \/ PartWriteFails(w)
        PROVE  Progress'
    <2>1. Moves(w) /\ Ends(w)
      BY <1>7, <1>t, CommitMoves, StoreMoves, EndMoves DEF Refuse
    <2>2. UNCHANGED <<status, live, file, swept>>
      BY <1>7 DEF Refuse, Fail, Deadlock, PartWriteFails, db, storage
    <2> QED
      BY <2>1, <2>2, ProgressMoves
  <1>8. ASSUME NEW w \in Handlers, CreateInsert(w) \/ PartCommit(w) \/ AbortCommit(w)
        PROVE  Progress'
    <2>1. Moves(w) /\ Ends(w) /\ UNCHANGED <<file, live, swept>>
      BY <1>8, <1>t, CommitMoves DEF CreateInsert, PartCommit, AbortCommit, storage
    <2>2. CASE UNCHANGED status
      BY <2>1, <2>2, ProgressMoves
    <2>3. CASE ~UNCHANGED status
      <3>1. PICK new \in {"initiated", "uploading", "aborted"} :
              status' = [status EXCEPT ![req[w].s] = new]
        BY <1>8, <2>3 DEF CreateInsert, PartCommit, AbortCommit
      <3>2. At(w, "insert") \/ lock[req[w].s] \in {None, w}
        BY <1>8 DEF CreateInsert, PartCommit, AbortCommit, LockDiscipline, Exclusive, At
      <3> QED
        BY <2>1, <3>1, <3>2, ProgressWrites DEF Statuses
    <2> QED
      BY <2>2, <2>3
  <1>9. ASSUME NEW w \in Handlers, CompleteRecord(w)
        PROVE  Progress'
    <2>1. CASE Refuse(w)
      BY <1>9, <2>1, <1>7 DEF CompleteRecord, At
    <2>2. CASE ~Refuse(w)
      <3>1. /\ At(w, "record") /\ file' = req[w].s
            /\ status' = [status EXCEPT ![req[w].s] = "completed"]
            /\ UNCHANGED <<live, swept>>
        BY <1>9, <2>2 DEF CompleteRecord, storage
      <3>2. Moves(w) /\ Ends(w) /\ lock[req[w].s] \in {None, w}
        BY <1>9, <3>1, <1>t, CommitMoves DEF LockDiscipline, Exclusive, At
      <3> QED
        BY <3>1, <3>2, ProgressWrites DEF Statuses
    <2> QED
      BY <2>1, <2>2
  <1>10. CASE SweepUpdate
    <2>1. /\ \A s \in Sessions : status'[s] = IF s \in swept THEN "expired" ELSE status[s]
          /\ UNCHANGED <<req, live, file>> /\ swept' = {} /\ \A s \in swept : lock[s] = None
          /\ None \notin Handlers
      BY <1>10, ConstantsAssumption DEF SweepUpdate, storage, Locked
    <2>2. Unborn'
      BY <2>1, <1>0 DEF Progress, Unborn, Born, At
    <2>3. Born'
      BY <2>1, <1>0 DEF Progress, Born
    <2>4. Open'
      BY <2>1, <1>0 DEF Progress, Open, LockDiscipline, Exclusive
    <2>5. Consumed'
      BY <2>1, <1>0 DEF Progress, Consumed, At
    <2> QED
      BY <2>2, <2>3, <2>4, <2>5 DEF Progress
  <1>11. CASE /\ UNCHANGED <<status, file, live, req>>
              /\ \A s \in swept' : s \in swept \/ status[s] # "none"
    BY <1>11 DEF Progress, Unborn, Born, Open, Consumed, At
  <1>12. CASE \/ \E s \in Sessions : Refresh(s) \/ Lapse(s)
              \/ \E s \in Sessions, p \in Parts, c \in Contents : DirectPut(s, p, c)
              \/ SweepFail \/ UNCHANGED vars
    BY <1>11, <1>12 DEF Refresh, Lapse, DirectPut, SweepFail, vars, db, storage
  <1>13. CASE SweepSelect
    BY <1>11, <1>13 DEF SweepSelect, db, storage, Active
  <1> QED
    BY <1>1, <1>2, <1>3, <1>4, <1>5, <1>6, <1>7, <1>8, <1>9, <1>10, <1>12, <1>13
       DEF Next, Step, Arrive, Environment

(* Progress is an inductive invariant, given types and the lock discipline. *)
LEMMA Progressing == Spec => [](Typing /\ LockDiscipline /\ Progress)
  <1>1. Init => Progress
    BY ConstantsAssumption
       DEF Init, Progress, Unborn, Born, Open, Consumed, Idle, Exclusive, At
  <1>2. Typing /\ LockDiscipline /\ Progress /\ [Next]_vars => Progress'
    BY ProgressStep
  <1> QED
    BY <1>1, <1>2, Typed, LockSafe, PTL DEF Spec

(* On S3 storage is completed at most once for a session: whatever overwrites    *)
(* its status later, the S3 upload behind a file row is gone.  (A local session  *)
(* has no upload of this kind: `live' says nothing of it.)                      *)
THEOREM CompletedSafe ==
  ASSUME Backend = "s3"
  PROVE  Spec => []CompletedOnce
  <1>1. Typing /\ LockDiscipline /\ Progress => CompletedOnce
    BY DEF Progress, Consumed, CompletedOnce
  <1> QED
    BY <1>1, Progressing, PTL

(* A completed session is reopened by the sweep's late UPDATE or by the stale   *)
(* "uploading" of a part request that waited for the row lock, never by a       *)
(* second create, complete or abort.                                          *)
THEOREM ReopeningSafe == Spec => ReopenedOnlyByStaleWriters
  <1> DEFINE Late(s) ==
        \/ s \in swept /\ status'[s] = "expired"
        \/ \E w \in Handlers : lock[s] = w /\ At(w, "commit") /\ status'[s] = "uploading"
  <1>1. ASSUME Typing, LockDiscipline, Progress, [Next]_vars, NEW s \in Sessions,
               status[s] = "completed", status'[s] # "completed"
        PROVE  Late(s)
    <2>0. /\ status \in [Sessions -> Statuses]
          /\ \A v \in Handlers : req[v].at # "idle" => req[v].s \in Sessions
      BY <1>1 DEF Typing, TypeOK, RequestShape
    <2>1. CASE SweepUpdate
      BY <1>1, <2>1 DEF SweepUpdate
    <2>2. ASSUME NEW w \in Handlers, CreateInsert(w) \/ AbortCommit(w) \/ CompleteRecord(w)
          PROVE  FALSE
      <3>1. CASE CreateInsert(w)
        BY <1>1, <2>0, <3>1 DEF CreateInsert, Progress, Unborn, At
      <3>2. CASE AbortCommit(w)
        BY <1>1, <2>0, <3>2 DEF AbortCommit, Progress, Open, Exclusive, Active, At
      <3>3. CASE CompleteRecord(w)
        BY <1>1, <2>0, <3>3 DEF CompleteRecord, Refuse, db, At
      <3> QED
        BY <2>2, <3>1, <3>2, <3>3
    <2>3. ASSUME NEW w \in Handlers, PartCommit(w)
          PROVE  Late(s)
      <3>1. lock[req[w].s] = w /\ status' = [status EXCEPT ![req[w].s] = "uploading"]
        BY <1>1, <2>3 DEF PartCommit
      <3>2. s = req[w].s /\ status'[s] = "uploading"
        BY <1>1, <2>0, <3>1
      <3> QED
        BY <2>3, <3>1, <3>2 DEF PartCommit
    <2>4. CASE UNCHANGED status
      BY <1>1, <2>4
    <2>5. ASSUME NEW w \in Handlers, Step(w) \/ Arrive(w) \/ Fail(w) \/ Deadlock(w) \/ PartWriteFails(w)
          PROVE  Late(s)
      <3>1. CASE \/ PartMark(w) \/ PartOpen(w) \/ PartWritten(w) \/ PartPut(w) \/ PartUpsert(w)
                 \/ CompleteList(w) \/ CompleteStore(w) \/ AbortStore(w)
                 \/ Fail(w) \/ Deadlock(w) \/ PartWriteFails(w)
        BY <3>1, <2>4 DEF PartMark, PartOpen, PartWritten, PartPut, PartUpsert, CompleteList, CompleteStore,
                          AbortStore, Fail, Deadlock, PartWriteFails, Refuse, db
      <3>2. CASE Arrive(w)
        BY <3>2, <2>4 DEF Arrive, CreateCheck, CompleteLock, AbortLock, PartRead, CommitPartRead, db
      <3> QED
        BY <2>2, <2>3, <2>5, <3>1, <3>2 DEF Step
    <2>6. CASE \/ \E t \in Sessions : Refresh(t) \/ Lapse(t)
               \/ \E t \in Sessions, p \in Parts, c \in Contents : DirectPut(t, p, c)
               \/ SweepSelect \/ SweepFail \/ UNCHANGED vars
      BY <2>4, <2>6 DEF Refresh, Lapse, DirectPut, SweepSelect, SweepFail, vars, db
    <2> QED
      BY <1>1, <2>1, <2>5, <2>6 DEF Next, Environment
  <1>2. Typing /\ LockDiscipline /\ Progress /\ [Next]_vars =>
          \A s \in Sessions : status[s] = "completed" /\ status'[s] # "completed" => Late(s)
    BY <1>1
  <1>3. UNCHANGED vars => UNCHANGED status
    BY DEF vars, db
  <1> QED
    BY <1>2, <1>3, Progressing, PTL DEF Spec, ReopenedOnlyByStaleWriters

-----------------------------------------------------------------------------
(* Part files being written. *)

(* Only a request that is writing a local part file has one under its name. *)
LinkedWrites == \A w \in Handlers : req[w].linked => At(w, "write") /\ Backend = "local"

(* A step that links no file and changes no part leaves files and writers matched. *)
LEMMA WritersKept ==
  ASSUME TornIsBeingWritten, LinkedWrites, stored' = stored,
         \A v \in Handlers : req'[v].linked = req[v].linked,
         \A v \in Handlers : req[v].linked =>
           req'[v].s = req[v].s /\ req'[v].p = req[v].p /\ req'[v].at = req[v].at
  PROVE  (TornIsBeingWritten /\ LinkedWrites)'
  <1>1. LinkedWrites'
    BY DEF LinkedWrites, At
  <1>2. ASSUME NEW s \in Sessions, NEW p \in Parts
        PROVE  /\ stored'[s][p] = Torn =>
                    \E v \in Handlers : req'[v].linked /\ req'[v].s = s /\ req'[v].p = p
               /\ (\E v \in Handlers : req'[v].linked /\ req'[v].s = s /\ req'[v].p = p) =>
                    stored'[s][p] # None
    BY DEF TornIsBeingWritten
  <1> QED
    BY <1>1, <1>2 DEF TornIsBeingWritten

(* A request that begins or ends without having a file open leaves them too. *)
LEMMA WritersElsewhere ==
  ASSUME Typing, TornIsBeingWritten, LinkedWrites, stored' = stored,
         NEW w \in Handlers, ~At(w, "write"),
         NEW r, ~r.linked, req' = [req EXCEPT ![w] = r]
  PROVE  (TornIsBeingWritten /\ LinkedWrites)'
  <1>1. /\ req \in [Handlers -> Request]
        /\ \A v \in Handlers : req[v].linked \in BOOLEAN
        /\ ~req[w].linked
    BY DEF Typing, TypeOK, Request, LinkedWrites
  <1>2. \A v \in Handlers : req'[v] = IF v = w THEN r ELSE req[v]
    BY <1>1
  <1>3. LinkedWrites'
    BY <1>2 DEF LinkedWrites, At
  <1>4. ASSUME NEW s \in Sessions, NEW p \in Parts
        PROVE  /\ stored'[s][p] = Torn =>
                    \E v \in Handlers : req'[v].linked /\ req'[v].s = s /\ req'[v].p = p
               /\ (\E v \in Handlers : req'[v].linked /\ req'[v].s = s /\ req'[v].p = p) =>
                    stored'[s][p] # None
    BY <1>1, <1>2 DEF TornIsBeingWritten
  <1> QED
    BY <1>3, <1>4 DEF TornIsBeingWritten

(* Whoever empties the parts P of session s unlinks their files. *)
LEMMA WritersUnlinked ==
  ASSUME Typing, TornIsBeingWritten, LinkedWrites,
         NEW w \in Handlers, NEW s \in Sessions, NEW P, NEW r, ~r.linked,
         req' = [v \in Handlers |-> IF v = w THEN r ELSE Unlinked(req[v], s, P)],
         \A p \in P : stored'[s][p] = None,
         \A t \in Sessions, p \in Parts : t # s \/ p \notin P => stored'[t][p] = stored[t][p],
         req[w].linked => req[w].s = s /\ req[w].p \in P
  PROVE  (TornIsBeingWritten /\ LinkedWrites)'
  <1>1. /\ req \in [Handlers -> Request] /\ Torn # None
        /\ \A v \in Handlers : req[v].linked \in BOOLEAN
    BY ConstantsAssumption DEF Typing, TypeOK, Request
  <1>2. \A v \in Handlers :
          /\ req'[v].linked => v # w /\ req[v].linked /\ ~(req[v].s = s /\ req[v].p \in P)
          /\ req[v].linked /\ ~(req[v].s = s /\ req[v].p \in P) => v # w /\ req'[v].linked
          /\ v # w => /\ req'[v].at = req[v].at /\ req'[v].s = req[v].s /\ req'[v].p = req[v].p
    BY <1>1, UnlinkedShape DEF Unlinked, Request
  <1>3. LinkedWrites'
    BY <1>2 DEF LinkedWrites, At
  <1>4. ASSUME NEW t \in Sessions, NEW p \in Parts
        PROVE  /\ stored'[t][p] = Torn =>
                    \E v \in Handlers : req'[v].linked /\ req'[v].s = t /\ req'[v].p = p
               /\ (\E v \in Handlers : req'[v].linked /\ req'[v].s = t /\ req'[v].p = p) =>
                    stored'[t][p] # None
    <2>1. CASE t = s /\ p \in P
      BY <1>1, <1>2, <2>1
    <2>2. CASE ~(t = s /\ p \in P)
      <3>1. stored'[t][p] = stored[t][p]
        BY <2>2
      <3>2. \A v \in Handlers : req'[v].linked /\ req'[v].s = t /\ req'[v].p = p
                                 <=> req[v].linked /\ req[v].s = t /\ req[v].p = p
        BY <1>2, <2>2
      <3> QED
        BY <3>1, <3>2 DEF TornIsBeingWritten
    <2> QED
      BY <2>1, <2>2
  <1> QED
    BY <1>3, <1>4 DEF TornIsBeingWritten

(* On S3 no part is ever seen half-written. *)
LEMMA WritersNone ==
  ASSUME Typing, TornIsBeingWritten, LinkedWrites, Backend = "s3",
         \A v \in Handlers : req'[v].linked => req[v].linked,
         \A s \in Sessions, p \in Parts : stored'[s][p] = Torn => stored[s][p] = Torn
  PROVE  (TornIsBeingWritten /\ LinkedWrites)'
  <1>1. \A v \in Handlers : ~req[v].linked /\ ~req'[v].linked
    BY DEF LinkedWrites
  <1>2. ASSUME NEW s \in Sessions, NEW p \in Parts
        PROVE  stored'[s][p] # Torn
    BY <1>1 DEF TornIsBeingWritten
  <1> QED
    BY <1>1, <1>2 DEF TornIsBeingWritten, LinkedWrites

(* Without crashes no step leaves an incomplete part file without its writer. *)
LEMMA WritersStep ==
  ASSUME Crashes = FALSE, Typing, TornIsBeingWritten, LinkedWrites, [Next]_vars
  PROVE  (TornIsBeingWritten /\ LinkedWrites)'
  <1>0. /\ req \in [Handlers -> Request] /\ ~Idle.linked
        /\ stored \in [Sessions -> [Parts -> Bytes]]
        /\ \A v \in Handlers : req[v].at # "write" => ~req[v].linked
        /\ \A v \in Handlers : req[v].at # "idle" => req[v].s \in Sessions
        /\ \A v \in Handlers : req[v].at \in {"mark", "put", "write", "upsert", "commit"} =>
             req[v].p \in Parts /\ req[v].c \in Contents
        /\ None \notin Contents /\ Torn \notin Contents /\ Torn # None
        /\ Mixed # None /\ Mixed # Torn
    BY ConstantsAssumption DEF Typing, TypeOK, RequestShape, LinkedWrites, At, Idle
  <1>1. ASSUME NEW w \in Handlers, NEW step \in Steps, ~At(w, "write"), GoTo(w, step),
               stored' = stored
        PROVE  (TornIsBeingWritten /\ LinkedWrites)'
    <2> DEFINE r == [req[w] EXCEPT !.at = step]
    <2>1. req' = [req EXCEPT ![w] = r] /\ ~r.linked
      BY <1>1, <1>0 DEF GoTo, Request, At
    <2> QED
      BY <1>1, <2>1, WritersElsewhere
  <1>2. ASSUME NEW w \in Handlers, ~At(w, "write"), End(w), stored' = stored
        PROVE  (TornIsBeingWritten /\ LinkedWrites)'
    BY <1>2, <1>0, WritersElsewhere DEF End
  <1>3. ASSUME NEW w \in Handlers, Arrive(w)
        PROVE  (TornIsBeingWritten /\ LinkedWrites)'
    <2>1. \E r : ~r.linked /\ req' = [req EXCEPT ![w] = r]
      <3>1. PICK s \in Sessions :
              \/ CreateCheck(w, s) \/ CompleteLock(w, s) \/ AbortLock(w, s)
              \/ \E p \in Parts, c \in Contents :
                   PartRead(w, s, p, c) \/ CommitPartRead(w, s, p, c)
        BY <1>3 DEF Arrive
      <3>2. CASE CreateCheck(w, s) \/ CompleteLock(w, s) \/ AbortLock(w, s)
        <4>1. \A at : ~[Idle EXCEPT !.at = at, !.s = s].linked
          BY DEF Idle
        <4> QED
          BY <3>2, <4>1 DEF CreateCheck, CompleteLock, AbortLock, Begin
      <3>3. ASSUME NEW p \in Parts, NEW c \in Contents,
                   PartRead(w, s, p, c) \/ CommitPartRead(w, s, p, c)
            PROVE  \E r : ~r.linked /\ req' = [req EXCEPT ![w] = r]
        <4>1. \A at : ~[Idle EXCEPT !.at = at, !.s = s, !.p = p, !.c = c].linked
          BY DEF Idle
        <4> QED
          BY <3>3, <4>1 DEF PartRead, CommitPartRead, Begin
      <3> QED
        BY <3>1, <3>2, <3>3
    <2>2. PICK r : ~r.linked /\ req' = [req EXCEPT ![w] = r]
      BY <2>1
    <2>4. ~At(w, "write") /\ stored' = stored
      BY <1>3 DEF Arrive, CreateCheck, CompleteLock, AbortLock, PartRead, CommitPartRead, At, storage
    <2> QED
      BY <2>2, <2>4, WritersElsewhere
  <1>4. ASSUME NEW w \in Handlers, CreateInsert(w) \/ PartCommit(w) \/ CompleteRecord(w) \/ AbortCommit(w)
        PROVE  (TornIsBeingWritten /\ LinkedWrites)'
    BY <1>4, <1>2 DEF CreateInsert, PartCommit, CompleteRecord, AbortCommit, Refuse, At, storage
  <1>5. ASSUME NEW w \in Handlers, PartMark(w) \/ PartUpsert(w)
        PROVE  (TornIsBeingWritten /\ LinkedWrites)'
    BY <1>5, <1>1 DEF PartMark, PartUpsert, At, storage, Steps
  <1>6. ASSUME NEW w \in Handlers, PartOpen(w)
        PROVE  (TornIsBeingWritten /\ LinkedWrites)'
    <2> DEFINE b == IF Rivals(w) = {} THEN Torn ELSE Mixed
    <2>0. b # None
      BY <1>0
    <2>1. /\ req[w].at = "put" /\ Backend = "local"
          /\ req[w].s \in Sessions /\ req[w].p \in Parts
          /\ stored' = [stored EXCEPT ![req[w].s][req[w].p] = b]
          /\ req' = [req EXCEPT ![w] = [req[w] EXCEPT !.at = "write", !.linked = TRUE]]
      BY <1>6, <1>0 DEF PartOpen, Begin, At
    <2> HIDE DEF b
    <2>2. /\ \A v \in Handlers \ {w} : req'[v] = req[v]
          /\ req'[w].linked /\ req'[w].at = "write"
          /\ req'[w].s = req[w].s /\ req'[w].p = req[w].p
      BY <1>0, <2>1 DEF Request
    <2>3. LinkedWrites'
      BY <2>1, <2>2 DEF LinkedWrites, At
    <2>4. ASSUME NEW s \in Sessions, NEW p \in Parts
          PROVE  /\ stored'[s][p] = Torn =>
                      \E v \in Handlers : req'[v].linked /\ req'[v].s = s /\ req'[v].p = p
                 /\ (\E v \in Handlers : req'[v].linked /\ req'[v].s = s /\ req'[v].p = p) =>
                      stored'[s][p] # None
      <3>1. CASE s = req[w].s /\ p = req[w].p
        BY <1>0, <2>0, <2>1, <2>2, <3>1
      <3>2. CASE ~(s = req[w].s /\ p = req[w].p)
        <4>1. stored'[s][p] = stored[s][p]
          BY <1>0, <2>1, <3>2
        <4>2. \A v \in Handlers : req'[v].linked /\ req'[v].s = s /\ req'[v].p = p
                                   <=> req[v].linked /\ req[v].s = s /\ req[v].p = p
          BY <1>0, <2>1, <2>2, <3>2
        <4> QED
          BY <4>1, <4>2 DEF TornIsBeingWritten
      <3> QED
        BY <3>1, <3>2
    <2> QED
      BY <2>3, <2>4 DEF TornIsBeingWritten
  <1>7. ASSUME NEW w \in Handlers, PartWritten(w)
        PROVE  (TornIsBeingWritten /\ LinkedWrites)'
    <2> DEFINE r == req[w]
    <2>1. /\ r.at = "write" /\ r.s \in Sessions /\ r.p \in Parts /\ r.c \in Contents
          /\ req' = [req EXCEPT ![w] = [r EXCEPT !.at = "upsert", !.linked = FALSE]]
      BY <1>7, <1>0 DEF PartWritten, Begin, At
    <2>2. PICK b \in Leaves(w) :
            stored' = IF r.linked THEN [stored EXCEPT ![r.s][r.p] = b] ELSE stored
      BY <1>7 DEF PartWritten, Leaves
    <2>2a. /\ b # None
           /\ b = Torn => \E v \in Handlers \ {w} : req[v].linked /\ req[v].s = r.s /\ req[v].p = r.p
      BY <1>0, <2>1 DEF Leaves, Writers
    <2>3. /\ \A v \in Handlers \ {w} : req'[v] = req[v]
          /\ ~req'[w].linked
      BY <1>0, <2>1 DEF Request
    <2>4. LinkedWrites'
      BY <2>3 DEF LinkedWrites, At
    <2>5. ASSUME NEW s \in Sessions, NEW p \in Parts
          PROVE  /\ stored'[s][p] = Torn =>
                      \E v \in Handlers : req'[v].linked /\ req'[v].s = s /\ req'[v].p = p
                 /\ (\E v \in Handlers : req'[v].linked /\ req'[v].s = s /\ req'[v].p = p) =>
                      stored'[s][p] # None
      <3>1. CASE s = r.s /\ p = r.p /\ r.linked
        <4>1. stored'[s][p] = b
          BY <1>0, <2>1, <2>2, <3>1
        <4>2. b = Torn => \E v \in Handlers : req'[v].linked /\ req'[v].s = s /\ req'[v].p = p
          BY <2>2a, <2>3, <3>1
        <4> QED
          BY <4>1, <4>2, <2>2a
      <3>2. CASE ~(s = r.s /\ p = r.p /\ r.linked)
        <4>1. stored'[s][p] = stored[s][p]
          BY <1>0, <2>1, <2>2, <3>2
        <4>2. \A v \in Handlers : req'[v].linked /\ req'[v].s = s /\ req'[v].p = p
                                   <=> req[v].linked /\ req[v].s = s /\ req[v].p = p
          BY <1>0, <2>1, <2>3, <3>2
        <4> QED
          BY <4>1, <4>2 DEF TornIsBeingWritten
      <3> QED
        BY <3>1, <3>2
    <2> QED
      BY <2>4, <2>5 DEF TornIsBeingWritten
  <1>8. ASSUME NEW w \in Handlers, PartWriteFails(w)
        PROVE  (TornIsBeingWritten /\ LinkedWrites)'
    <2>1. /\ req[w].s \in Sessions /\ req[w].p \in Parts
          /\ stored' = [stored EXCEPT ![req[w].s][req[w].p] = None]
          /\ req' = [v \in Handlers |-> IF v = w THEN Idle
                                        ELSE Unlinked(req[v], req[w].s, {req[w].p})]
      BY <1>8, <1>0 DEF PartWriteFails, At
    <2> DEFINE P == {req[w].p}
    <2>2. /\ \A p \in P : stored'[req[w].s][p] = None
          /\ \A t \in Sessions, p \in Parts : t # req[w].s \/ p \notin P =>
               stored'[t][p] = stored[t][p]
      BY <1>0, <2>1
    <2>3. req[w].p \in P /\ req[w].s \in Sessions
      BY <2>1
    <2>4. PICK r : /\ ~r.linked
                   /\ req' = [v \in Handlers |-> IF v = w THEN r ELSE Unlinked(req[v], req[w].s, P)]
      BY <2>1, <1>0
    <2> DEFINE s == req[w].s
    <2>5. s \in Sessions /\ req[w].s = s
      BY <2>3
    <2>6. /\ \A p \in P : stored'[s][p] = None
          /\ \A t \in Sessions, p \in Parts : t # s \/ p \notin P =>
               stored'[t][p] = stored[t][p]
          /\ req' = [v \in Handlers |-> IF v = w THEN r ELSE Unlinked(req[v], s, P)]
      BY <2>2, <2>4
    <2>7. ~r.linked
      BY <2>4
    <2> HIDE DEF P, s
    <2> QED
      BY <2>3, <2>5, <2>6, <2>7, WritersUnlinked
  <1>9. ASSUME NEW w \in Handlers, PartPut(w)
        PROVE  (TornIsBeingWritten /\ LinkedWrites)'
    <2>1. CASE Refuse(w)
      <3>1. ~At(w, "write")
        BY <1>9 DEF PartPut, At
      <3> QED
        BY <2>1, <3>1, <1>2 DEF Refuse, storage
    <2>2. CASE ~Refuse(w)
      <3>1. /\ Backend = "s3" /\ GoTo(w, "upsert")
            /\ stored' = [stored EXCEPT ![req[w].s][req[w].p] = req[w].c]
            /\ req[w].c \in Contents
        BY <1>9, <2>2, <1>0 DEF PartPut, At
      <3>2. \A v \in Handlers : req'[v].linked => req[v].linked
        BY <3>1, <1>0 DEF GoTo, Request
      <3>3. \A s \in Sessions, p \in Parts : stored'[s][p] = Torn => stored[s][p] = Torn
        BY <3>1, <1>0
      <3> QED
        BY <3>1, <3>2, <3>3, WritersNone
    <2> QED
      BY <2>1, <2>2
  <1>10. ASSUME NEW w \in Handlers, CompleteList(w)
         PROVE  (TornIsBeingWritten /\ LinkedWrites)'
    <2>1. CASE Refuse(w)
      <3>1. ~At(w, "write")
        BY <1>10 DEF CompleteList, At
      <3> QED
        BY <2>1, <3>1, <1>2 DEF Refuse, storage
    <2>2. CASE ~Refuse(w)
      <3> DEFINE l == IF Backend = "local" /\ StoredParts(req[w].s) = {}
                        THEN partRow[req[w].s] ELSE stored[req[w].s]
                 r == [req[w] EXCEPT !.at = "assemble", !.listed = l]
      <3>1. req' = [req EXCEPT ![w] = r] /\ stored' = stored /\ ~At(w, "write")
        BY <1>10, <2>2 DEF CompleteList, Begin, storage, At
      <3>2. ~r.linked
        BY <3>1, <1>0 DEF Request, At
      <3> HIDE DEF r
      <3> QED
        BY <3>1, <3>2, WritersElsewhere
    <2> QED
      BY <2>1, <2>2
  <1>11. ASSUME NEW w \in Handlers, CompleteStore(w)
         PROVE  (TornIsBeingWritten /\ LinkedWrites)'
    <2>1. PICK whole \in BOOLEAN :
            /\ stored' = IF whole \/ Backend = "local"
                           THEN [stored EXCEPT ![req[w].s] = NoParts] ELSE stored
            /\ req' = [v \in Handlers |->
                         IF v = w THEN IF whole THEN [req[w] EXCEPT !.at = "record"] ELSE Idle
                         ELSE IF Backend = "local" THEN Unlinked(req[v], req[w].s, Parts)
                         ELSE req[v]]
      BY <1>11 DEF CompleteStore
    <2> DEFINE r == IF whole THEN [req[w] EXCEPT !.at = "record"] ELSE Idle
    <2>2. req[w].s \in Sessions /\ ~req[w].linked /\ ~r.linked
      BY <1>11, <1>0 DEF CompleteStore, At, Request
    <2>3. CASE Backend = "local"
      <3>1. /\ req' = [v \in Handlers |-> IF v = w THEN r ELSE Unlinked(req[v], req[w].s, Parts)]
            /\ stored' = [stored EXCEPT ![req[w].s] = NoParts]
        BY <2>1, <2>3
      <3>2. /\ \A p \in Parts : stored'[req[w].s][p] = None
            /\ \A t \in Sessions, p \in Parts : t # req[w].s \/ p \notin Parts =>
                 stored'[t][p] = stored[t][p]
        BY <1>0, <2>2, <3>1 DEF NoParts
      <3> HIDE DEF r
      <3> QED
        BY <2>2, <3>1, <3>2, WritersUnlinked
    <2>4. CASE Backend # "local"
      <3>1. Backend = "s3"
        BY <2>4, ConstantsAssumption DEF ConstantsAssumption
      <3>2. \A v \in Handlers : req'[v].linked => req[v].linked
        BY <2>1, <2>2, <3>1
      <3>3. \A s \in Sessions, p \in Parts : stored'[s][p] = Torn => stored[s][p] = Torn
        BY <1>0, <2>1, <2>2 DEF NoParts
      <3> QED
        BY <3>1, <3>2, <3>3, WritersNone
    <2> QED
      BY <2>3, <2>4
  <1>12. ASSUME NEW w \in Handlers, AbortStore(w)
         PROVE  (TornIsBeingWritten /\ LinkedWrites)'
    <2>1. CASE GoTo(w, "aborted") /\ UNCHANGED <<stored, live>>
      BY <1>12, <2>1, <1>1 DEF AbortStore, At, Steps
    <2>2. CASE /\ stored' = [stored EXCEPT ![req[w].s] = NoParts]
               /\ req' = [v \in Handlers |->
                            IF v = w THEN [req[w] EXCEPT !.at = "aborted"]
                            ELSE Unlinked(req[v], req[w].s, Parts)]
      <3> DEFINE r == [req[w] EXCEPT !.at = "aborted"]
      <3>1. req[w].s \in Sessions /\ ~req[w].linked /\ ~r.linked
        BY <1>12, <1>0 DEF AbortStore, At, Request
      <3>2. req' = [v \in Handlers |-> IF v = w THEN r ELSE Unlinked(req[v], req[w].s, Parts)]
        BY <2>2
      <3>3. /\ \A p \in Parts : stored'[req[w].s][p] = None
            /\ \A t \in Sessions, p \in Parts : t # req[w].s \/ p \notin Parts =>
                 stored'[t][p] = stored[t][p]
        BY <1>0, <2>2, <3>1 DEF NoParts
      <3> HIDE DEF r
      <3> QED
        BY <3>1, <3>2, <3>3, WritersUnlinked
    <2> QED
      BY <1>12, <2>1, <2>2 DEF AbortStore
  <1>13. ASSUME NEW s \in Sessions, NEW p \in Parts, NEW c \in Contents, DirectPut(s, p, c)
         PROVE  (TornIsBeingWritten /\ LinkedWrites)'
    BY <1>13, <1>0, WritersNone DEF DirectPut
  <1>14. CASE UNCHANGED <<stored, req>>
    BY <1>14, WritersKept
  <1>15. CASE \/ \E s \in Sessions : Refresh(s) \/ Lapse(s)
              \/ SweepSelect \/ SweepUpdate \/ SweepFail \/ UNCHANGED vars
    BY <1>14, <1>15 DEF Refresh, Lapse, SweepSelect, SweepUpdate, SweepFail, vars, storage
  <1>16. ASSUME NEW w \in Handlers, Deadlock(w)
         PROVE  (TornIsBeingWritten /\ LinkedWrites)'
    BY <1>16, <1>2 DEF Deadlock, WaitInCircle, Refuse, At, storage
  <1> QED
    BY <1>3, <1>4, <1>5, <1>6, <1>7, <1>8, <1>9, <1>10, <1>11, <1>12, <1>13, <1>15, <1>16
       DEF Next, Step, Environment, Fail

(* A node that does not crash never leaves a half-written part file behind: as  *)
(* long as one is incomplete its writer is there, through failed writes, second *)
(* writers and the rmtree of complete and abort.                               *)
THEOREM WritersSafe ==
  ASSUME Crashes = FALSE
  PROVE  Spec => []TornIsBeingWritten
  <1>1. Init => TornIsBeingWritten /\ LinkedWrites
    BY ConstantsAssumption DEF Init, TornIsBeingWritten, LinkedWrites, Idle, NoParts, At
  <1>2. Typing /\ TornIsBeingWritten /\ LinkedWrites /\ [Next]_vars =>
          (TornIsBeingWritten /\ LinkedWrites)'
    BY WritersStep
  <1> QED
    BY <1>1, <1>2, Typed, PTL DEF Spec

-----------------------------------------------------------------------------
(* The refinement of UploadContract. *)

(* Without proxied parts and sweep nobody writes a session row late: no request *)
(* waits to mark one, and none commits a part while it holds a row lock.       *)
NobodyLate ==
  /\ \A w \in Handlers :
       /\ req[w].at \notin {"mark", "put", "write"}
       /\ req[w].at \in {"upsert", "commit"} => \A s \in Sessions : lock[s] # w
  /\ swept = {}

(* A step after which its request is not about to commit a part. *)
LEMMA NotLate ==
  ASSUME NobodyLate, NEW w \in Handlers, Moves(w), swept' = swept,
         req'[w].at \notin {"mark", "put", "write", "upsert", "commit"},
         \A t \in Sessions : lock'[t] \in {lock[t], w, None}, None \notin Handlers
  PROVE  NobodyLate'
  <1> SUFFICES ASSUME NEW v \in Handlers
               PROVE  /\ req'[v].at \notin {"mark", "put", "write"}
                      /\ req'[v].at \in {"upsert", "commit"} => \A s \in Sessions : lock'[s] # v
    BY DEF NobodyLate, At
  <1>1. CASE v = w
    BY <1>1
  <1>2. CASE v # w
    BY <1>2 DEF NobodyLate, Moves, At
  <1> QED
    BY <1>1, <1>2

LEMMA NobodyLateStep ==
  ASSUME ProxyParts = FALSE, Sweeping = FALSE,
         Typing, LockDiscipline, NobodyLate, [Next]_vars
  PROVE  NobodyLate'
  <1>t. /\ TypeOK /\ None \notin Handlers
        /\ lock \in [Sessions -> Handlers \union {None}]
        /\ \A v \in Handlers : req[v].at # "idle" => req[v].s \in Sessions
    BY ConstantsAssumption DEF Typing, TypeOK, RequestShape
  <1>1. ASSUME NEW w \in Handlers, NEW s \in Sessions,
               CreateCheck(w, s) \/ CompleteLock(w, s) \/ AbortLock(w, s)
        PROVE  NobodyLate'
    <2>1. /\ Moves(w)
          /\ Begins(w, s, "insert") \/ Begins(w, s, "list") \/ Begins(w, s, "discard")
      BY <1>1, <1>t, CreateMoves, LockMoves
    <2>2. swept' = swept /\ \A t \in Sessions : lock'[t] \in {lock[t], w, None}
      BY <1>1, <1>t DEF CreateCheck, CompleteLock, AbortLock, Acquire
    <2> QED
      BY <1>t, <2>1, <2>2, NotLate DEF Begins
  <1>2. ASSUME NEW w \in Handlers, NEW s \in Sessions, NEW p \in Parts, NEW c \in Contents,
               CommitPartRead(w, s, p, c)
        PROVE  NobodyLate'
    <2>1. Moves(w) /\ Begins(w, s, "upsert") /\ UNCHANGED <<lock, swept>>
      BY <1>2, <1>t, PartMoves DEF CommitPartRead
    <2>2. \A t \in Sessions : lock[t] # w
      BY <2>1 DEF Begins, LockDiscipline, Exclusive, At
    <2> QED
      BY <2>1, <2>2 DEF NobodyLate, Moves, Begins, At
  <1>3. ASSUME NEW w \in Handlers, CompleteList(w) \/ CompleteStore(w) \/ AbortStore(w)
        PROVE  NobodyLate'
    <2>1. /\ Moves(w)
          /\ \/ Ends(w) \/ Continues(w, "list", "assemble") \/ Continues(w, "assemble", "record")
             \/ Continues(w, "discard", "aborted")
      BY <1>3, <1>t, StoreMoves
    <2>2. swept' = swept /\ (lock' = lock \/ lock' = Released(w))
      BY <1>3 DEF CompleteList, CompleteStore, AbortStore, Refuse, End
    <2>3. \A t \in Sessions : lock'[t] \in {lock[t], w, None}
      BY <2>2 DEF Released
    <2> QED
      BY <1>t, <2>1, <2>2, <2>3, NotLate DEF Ends, Continues
  <1>4. ASSUME NEW w \in Handlers,
               \/ CreateInsert(w) \/ PartCommit(w) \/ CompleteRecord(w) \/ AbortCommit(w)
               \/ Fail(w) \/ Deadlock(w) \/ PartWriteFails(w)
        PROVE  NobodyLate'
    <2>1. Moves(w) /\ Ends(w) /\ swept' = swept /\ lock' = Released(w)
      BY <1>4, <1>t, CommitMoves, StoreMoves
         DEF CreateInsert, PartCommit, CompleteRecord, AbortCommit, Fail, Deadlock, PartWriteFails, Refuse, End
    <2>2. \A t \in Sessions : lock'[t] \in {lock[t], w, None}
      BY <2>1 DEF Released
    <2> QED
      BY <1>t, <2>1, <2>2, NotLate DEF Ends
  <1>5. ASSUME NEW w \in Handlers,
               \/ PartMark(w) \/ PartOpen(w) \/ PartWritten(w) \/ PartPut(w)
               \/ \E s \in Sessions, p \in Parts, c \in Contents : PartRead(w, s, p, c)
        PROVE  FALSE
    BY <1>5 DEF PartMark, PartOpen, PartWritten, PartPut, PartRead, NobodyLate, At
  <1>8. ASSUME NEW w \in Handlers, PartUpsert(w)
        PROVE  NobodyLate'
    <2>1. Moves(w) /\ Continues(w, "upsert", "commit") /\ UNCHANGED <<lock, swept>>
      BY <1>8, <1>t, WriteMoves DEF PartUpsert
    <2> QED
      BY <2>1 DEF NobodyLate, Moves, Continues, At
  <1>6. CASE UNCHANGED <<req, lock>> /\ swept' = {}
    BY <1>6 DEF NobodyLate, At
  <1>7. CASE \/ \E s \in Sessions : Refresh(s) \/ Lapse(s)
             \/ \E s \in Sessions, p \in Parts, c \in Contents : DirectPut(s, p, c)
             \/ SweepSelect \/ SweepUpdate \/ SweepFail \/ UNCHANGED vars
    BY <1>6, <1>7 DEF Refresh, Lapse, DirectPut, SweepSelect, SweepUpdate, SweepFail, vars, NobodyLate
  <1> QED
    BY <1>1, <1>2, <1>3, <1>4, <1>5, <1>7, <1>8 DEF Next, Step, Arrive, Environment

(* Each write of a session row is the step of the contract it stands for, and   *)
(* every other step stutters.                                                 *)
LEMMA ContractStep ==
  ASSUME Sweeping = FALSE, Typing, LockDiscipline, Progress, NobodyLate, [Next]_vars
  PROVE  [Contract!Next]_<<Phase, file>>
  <1>0. /\ status \in [Sessions -> Statuses]
        /\ \A v \in Handlers : req[v].at # "idle" => req[v].s \in Sessions
    BY DEF Typing, TypeOK, RequestShape
  <1>1. ASSUME NEW s \in Sessions, NEW new \in Statuses,
               status' = [status EXCEPT ![s] = new]
        PROVE  Phase' = [Phase EXCEPT ![s] = IF new \in Active THEN "open" ELSE new]
    BY <1>0, <1>1 DEF Phase
  <1>2. ASSUME NEW w \in Handlers, CreateInsert(w)
        PROVE  Contract!Next
    <2>1. /\ req[w].s \in Sessions /\ status[req[w].s] = "none" /\ file' = file
          /\ status' = [status EXCEPT ![req[w].s] = "initiated"]
      BY <1>0, <1>2 DEF CreateInsert, Progress, Unborn, At
    <2>2. Phase[req[w].s] = "none"
      BY <2>1 DEF Phase, Active
    <2>3. Phase' = [Phase EXCEPT ![req[w].s] = "open"]
      BY <1>1, <2>1 DEF Active, Statuses
    <2> QED
      BY <2>1, <2>2, <2>3 DEF Contract!Next, Contract!Open
  <1>3. ASSUME NEW w \in Handlers, CompleteRecord(w)
        PROVE  Contract!Next \/ UNCHANGED <<Phase, file>>
    <2>1. CASE Refuse(w)
      BY <2>1 DEF Refuse, db, Phase
    <2>2. CASE ~Refuse(w)
      <3>1. /\ req[w].s \in Sessions /\ status[req[w].s] \in Active
            /\ file = None /\ file' = req[w].s
            /\ status' = [status EXCEPT ![req[w].s] = "completed"]
        BY <1>0, <1>3, <2>2 DEF CompleteRecord, Progress, Open, Exclusive, At
      <3>2. Phase[req[w].s] = "open"
        BY <3>1 DEF Phase
      <3>3. Phase' = [Phase EXCEPT ![req[w].s] = "completed"]
        BY <1>1, <3>1 DEF Active, Statuses
      <3> QED
        BY <3>1, <3>2, <3>3 DEF Contract!Next, Contract!Complete
    <2> QED
      BY <2>1, <2>2
  <1>4. ASSUME NEW w \in Handlers, AbortCommit(w)
        PROVE  Contract!Next
    <2>1. /\ req[w].s \in Sessions /\ status[req[w].s] \in Active /\ file' = file
          /\ status' = [status EXCEPT ![req[w].s] = "aborted"]
      BY <1>0, <1>4 DEF AbortCommit, Progress, Open, Exclusive, At
    <2>2. Phase[req[w].s] = "open"
      BY <2>1 DEF Phase
    <2>3. Phase' = [Phase EXCEPT ![req[w].s] = "aborted"]
      BY <1>1, <2>1 DEF Active, Statuses
    <2> QED
      BY <2>1, <2>2, <2>3 DEF Contract!Next, Contract!Close
  <1>5. CASE UNCHANGED <<status, file>>
    BY <1>5 DEF Phase
  <1>6. ASSUME NEW w \in Handlers, PartCommit(w)
        PROVE  UNCHANGED <<status, file>>
    BY <1>0, <1>6 DEF PartCommit, NobodyLate, At
  <1>7. ASSUME NEW w \in Handlers,
               \/ PartMark(w) \/ PartOpen(w) \/ PartWritten(w) \/ PartPut(w) \/ PartUpsert(w)
               \/ CompleteList(w) \/ CompleteStore(w) \/ AbortStore(w)
               \/ Fail(w) \/ Deadlock(w) \/ PartWriteFails(w)
        PROVE  UNCHANGED <<status, file>>
    BY <1>7 DEF PartMark, PartOpen, PartWritten, PartPut, PartUpsert, CompleteList, CompleteStore,
                AbortStore, Fail, Deadlock, PartWriteFails, Refuse, db
  <1>8. ASSUME NEW w \in Handlers, Arrive(w)
        PROVE  UNCHANGED <<status, file>>
    BY <1>8 DEF Arrive, CreateCheck, CompleteLock, AbortLock, PartRead, CommitPartRead, db
  <1>9. CASE \/ \E s \in Sessions : Refresh(s) \/ Lapse(s)
             \/ \E s \in Sessions, p \in Parts, c \in Contents : DirectPut(s, p, c)
             \/ SweepSelect \/ SweepFail \/ UNCHANGED vars
    BY <1>5, <1>9 DEF Refresh, Lapse, DirectPut, SweepSelect, SweepFail, vars, db
  <1>10. ~SweepUpdate
    BY DEF SweepUpdate, NobodyLate
  <1> QED
    BY <1>2, <1>3, <1>4, <1>5, <1>6, <1>7, <1>8, <1>9, <1>10 DEF Next, Step, Environment

(* Sessions whose parts do not pass through the API, left alone by the sweep,    *)
(* implement the contract: whatever completes, aborts, retries and crashes are  *)
(* interleaved, a session opens and ends once and the key has one owner.        *)
THEOREM ContractImplemented ==
  ASSUME ProxyParts = FALSE, Sweeping = FALSE
  PROVE  Spec => ContractKept
  <1>1. Init => NobodyLate /\ Contract!Init
    BY DEF Init, NobodyLate, Contract!Init, Phase, Active, Idle, At
  <1>2. Typing /\ LockDiscipline /\ NobodyLate /\ [Next]_vars => NobodyLate'
    BY NobodyLateStep
  <1>3. Typing /\ LockDiscipline /\ Progress /\ NobodyLate /\ [Next]_vars =>
          [Contract!Next]_<<Phase, file>>
    BY ContractStep
  <1> QED
    BY <1>1, <1>2, <1>3, Progressing, PTL DEF Spec, ContractKept, Contract!Spec

-----------------------------------------------------------------------------
(* What complete() makes of the parts on S3, when clients commit the parts they   *)
(* have stored.                                                               *)

OnS3 == Backend = "s3" /\ HonestETags = TRUE

(* A session alone on its key. *)
Alone == OnS3 /\ \A s, t \in Sessions : s = t

(* While the S3 upload is there it has every part that is or will be committed. *)
PartsStored ==
  /\ \A w \in Handlers :
       /\ ~At(w, "write")
       /\ req[w].at \in {"upsert", "commit"} /\ live[req[w].s] =>
            stored[req[w].s][req[w].p] # None
  /\ \A s \in Sessions, p \in Parts :
       partRow[s][p] # None => status[s] # "none" /\ (live[s] => stored[s][p] # None)

(* complete() step by step: all rows were there when the lock was taken, and the *)
(* list it sends is those rows.                                              *)
Followed ==
  \A w \in Handlers :
    LET s == req[w].s IN
    /\ req[w].at \in {"list", "assemble", "record"} => AllCommitted(s)
    /\ At(w, "assemble") => req[w].listed = partRow[s]

(* The object is that list, until the file is recorded: for a session alone.   *)
Assembled ==
  \A w \in Handlers :
    At(w, "record") => object.from = req[w].s /\ object.data = partRow[req[w].s]

(* A step that commits no part and loses none of an upload that goes on. *)
LEMMA PartsKept ==
  ASSUME Typing, PartsStored, NEW w \in Handlers, Moves(w), partRow' = partRow,
         \A s \in Sessions : status[s] # "none" => status'[s] # "none",
         \A s \in Sessions, p \in Parts :
           live'[s] /\ (partRow[s][p] # None \/ \E v \in Handlers : req[v].s = s) =>
             live[s] /\ (stored[s][p] # None => stored'[s][p] # None),
         req'[w].at # "write",
         req'[w].at \in {"upsert", "commit"} /\ live'[req'[w].s] =>
           stored'[req'[w].s][req'[w].p] # None
  PROVE  PartsStored'
  <1>0. /\ \A v \in Handlers : req[v].at # "idle" => req[v].s \in Sessions
        /\ \A v \in Handlers : req[v].at \in {"upsert", "commit"} => req[v].p \in Parts
    BY DEF Typing, RequestShape
  <1>1. ASSUME NEW v \in Handlers
        PROVE  /\ req'[v].at # "write"
               /\ req'[v].at \in {"upsert", "commit"} /\ live'[req'[v].s] =>
                    stored'[req'[v].s][req'[v].p] # None
    <2>1. CASE v = w
      BY <2>1
    <2>2. CASE v # w
      BY <1>0, <2>2 DEF PartsStored, Moves, At
    <2> QED
      BY <2>1, <2>2
  <1>2. ASSUME NEW s \in Sessions, NEW p \in Parts, partRow'[s][p] # None
        PROVE  status'[s] # "none" /\ (live'[s] => stored'[s][p] # None)
    BY <1>2 DEF PartsStored
  <1> QED
    BY <1>1, <1>2 DEF PartsStored, At

(* No step loses a committed part of an S3 upload. *)
LEMMA PartsStep ==
  ASSUME OnS3, Typing, LockDiscipline, Progress, PartsStored, [Next]_vars
  PROVE  PartsStored'
  <1>t. /\ TypeOK /\ Backend = "s3" /\ Backend # "local" /\ HonestETags
        /\ stored \in [Sessions -> [Parts -> Bytes]]
        /\ live \in [Sessions -> BOOLEAN] /\ status \in [Sessions -> Statuses]
        /\ partRow \in [Sessions -> [Parts -> Contents \union {None}]]
        /\ None \notin Contents
        /\ \A v \in Handlers : req[v].at # "idle" => req[v].s \in Sessions
        /\ \A v \in Handlers : req[v].at \in {"mark", "put", "write", "upsert", "commit"} =>
             req[v].p \in Parts /\ req[v].c \in Contents
    BY ConstantsAssumption DEF OnS3, Typing, TypeOK, RequestShape
  <1>1. ASSUME NEW w \in Handlers, NEW s \in Sessions, CreateCheck(w, s)
        PROVE  PartsStored'
    <2>1. /\ Moves(w) /\ req'[w].at = "insert" /\ UNCHANGED <<partRow, status, stored>>
          /\ status[s] = "none" /\ \A v \in Handlers : req[v].s # s
          /\ \A t \in Sessions \ {s} : live'[t] = live[t]
      BY <1>1, <1>t, CreateMoves DEF CreateCheck, Begins, db
    <2> QED
      BY <2>1, PartsKept DEF PartsStored
  <1>2. ASSUME NEW w \in Handlers, NEW s \in Sessions, CompleteLock(w, s) \/ AbortLock(w, s)
        PROVE  PartsStored'
    <2>1. /\ Moves(w) /\ UNCHANGED <<partRow, status, stored, live>>
          /\ Begins(w, s, "list") \/ Begins(w, s, "discard")
      BY <1>2, <1>t, LockMoves DEF CompleteLock, AbortLock, db, storage
    <2> QED
      BY <2>1, PartsKept DEF Begins
  <1>3. ASSUME NEW w \in Handlers, NEW s \in Sessions, NEW p \in Parts, NEW c \in Contents,
               PartRead(w, s, p, c)
        PROVE  PartsStored'
    <2>1. Moves(w) /\ (Begins(w, s, "mark") \/ Begins(w, s, "put"))
      BY <1>3, <1>t, PartMoves
    <2>2. UNCHANGED <<partRow, status, stored, live>>
      BY <1>3 DEF PartRead, db, storage
    <2> QED
      BY <2>1, <2>2, PartsKept DEF Begins
  <1>4. ASSUME NEW w \in Handlers, NEW s \in Sessions, NEW p \in Parts, NEW c \in Contents,
               CommitPartRead(w, s, p, c)
        PROVE  PartsStored'
    <2>1. Moves(w) /\ Begins(w, s, "upsert") /\ req'[w].p = p
      BY <1>4, <1>t, PartMoves
    <2>2. UNCHANGED <<partRow, status, stored, live>> /\ stored[s][p] # None
      BY <1>4, <1>t DEF CommitPartRead, db, storage
    <2> QED
      BY <2>1, <2>2, PartsKept DEF Begins
  <1>5. ASSUME NEW w \in Handlers, PartMark(w)
        PROVE  PartsStored'
    <2>1. Moves(w) /\ Continues(w, "mark", "put") /\ UNCHANGED <<partRow, status, stored, live>>
      BY <1>5, <1>t, WriteMoves DEF PartMark, db, storage
    <2> QED
      BY <2>1, PartsKept DEF Continues
  <1>6. ASSUME NEW w \in Handlers, PartPut(w), ~Refuse(w)
        PROVE  PartsStored'
    <2>1. /\ Moves(w) /\ UNCHANGED <<partRow, status, live>>
          /\ req'[w].at = "upsert" /\ req'[w].s = req[w].s /\ req'[w].p = req[w].p
          /\ stored' = [stored EXCEPT ![req[w].s][req[w].p] = req[w].c]
      BY <1>6, <1>t DEF PartPut, GoTo, Moves, TypeOK, Request, db
    <2>2. req[w].s \in Sessions /\ req[w].p \in Parts /\ req[w].c # None
      BY <1>6, <1>t DEF PartPut, At
    <2>3. /\ stored'[req[w].s][req[w].p] # None
          /\ \A s \in Sessions, p \in Parts : stored[s][p] # None => stored'[s][p] # None
      BY <1>t, <2>1, <2>2
    <2> QED
      BY <2>1, <2>3, PartsKept
  <1>18. ASSUME NEW w \in Handlers, PartUpsert(w)
         PROVE  PartsStored'
    <2>1. /\ Moves(w) /\ Continues(w, "upsert", "commit")
          /\ UNCHANGED <<partRow, status, stored, live>>
      BY <1>18, <1>t, WriteMoves DEF PartUpsert, db, storage
    <2>2. live[req[w].s] => stored[req[w].s][req[w].p] # None
      BY <2>1 DEF PartsStored, Continues, At
    <2> QED
      BY <2>1, <2>2, PartsKept DEF Continues
  <1>7. ASSUME NEW w \in Handlers, PartCommit(w)
        PROVE  PartsStored'
    <2> DEFINE s == req[w].s
               p == req[w].p
    <2>1. /\ At(w, "commit") /\ s \in Sessions /\ p \in Parts
          /\ partRow' = [partRow EXCEPT ![s][p] = req[w].c] /\ UNCHANGED <<stored, live>>
          /\ Moves(w) /\ Ends(w)
      BY <1>7, <1>t, CommitMoves DEF PartCommit, storage, At
    <2>2. \A t \in Sessions : status[t] # "none" => status'[t] # "none"
      BY <1>7, <1>t DEF PartCommit
    <2>3. status[s] # "none" /\ (live[s] => stored[s][p] # None)
      BY <2>1 DEF Progress, Born, PartsStored, At
    <2>4. \A v \in Handlers :
            /\ req'[v].at # "write"
            /\ req'[v].at \in {"upsert", "commit"} /\ live'[req'[v].s] =>
                 stored'[req'[v].s][req'[v].p] # None
      BY <2>1 DEF PartsStored, Moves, Ends, At
    <2>5. ASSUME NEW t \in Sessions, NEW q \in Parts, partRow'[t][q] # None
          PROVE  status'[t] # "none" /\ (live'[t] => stored'[t][q] # None)
      <3>1. CASE t = s /\ q = p
        BY <2>1, <2>2, <2>3, <3>1
      <3>2. CASE ~(t = s /\ q = p)
        <4>1. partRow[t][q] # None
          BY <1>t, <2>1, <2>5, <3>2
        <4> QED
          BY <2>1, <2>2, <4>1 DEF PartsStored
      <3> QED
        BY <3>1, <3>2
    <2> QED
      BY <2>4, <2>5 DEF PartsStored, At
  <1>8. ASSUME NEW s \in Sessions, NEW p \in Parts, NEW c \in Contents, DirectPut(s, p, c)
        PROVE  PartsStored'
    <2>1. /\ UNCHANGED <<partRow, status, live, req>>
          /\ \A t \in Sessions, q \in Parts : stored[t][q] # None => stored'[t][q] # None
      BY <1>8, <1>t DEF DirectPut, db
    <2> QED
      BY <1>t, <2>1 DEF PartsStored, At
  <1>9. ASSUME NEW w \in Handlers, CompleteList(w), ~Refuse(w)
        PROVE  PartsStored'
    <2>1. Moves(w) /\ (Continues(w, "list", "assemble") \/ Ends(w))
      BY <1>9, <1>t, StoreMoves
    <2>2. UNCHANGED <<partRow, status, stored, live>>
      BY <1>9 DEF CompleteList, db, storage
    <2> QED
      BY <2>1, <2>2, PartsKept DEF Continues, Ends
  <1>10. ASSUME NEW w \in Handlers, CompleteStore(w)
         PROVE  PartsStored'
    <2>1. Moves(w) /\ (Continues(w, "assemble", "record") \/ Ends(w))
      BY <1>10, <1>t, StoreMoves
    <2>2. PICK whole \in BOOLEAN :
            /\ stored' = IF whole THEN [stored EXCEPT ![req[w].s] = NoParts] ELSE stored
            /\ live' = [live EXCEPT ![req[w].s] = @ /\ ~whole]
      BY <1>10, <1>t DEF CompleteStore
    <2>3. UNCHANGED <<partRow, status>> /\ req[w].s \in Sessions
      BY <1>10, <1>t DEF CompleteStore, db, At
    <2>4. \A s \in Sessions, p \in Parts :
            live'[s] => live[s] /\ stored'[s][p] = stored[s][p]
      BY <1>t, <2>2, <2>3
    <2> QED
      BY <2>1, <2>3, <2>4, PartsKept DEF Continues, Ends
  <1>11. ASSUME NEW w \in Handlers, AbortStore(w)
         PROVE  PartsStored'
    <2>1. Moves(w) /\ Continues(w, "discard", "aborted") /\ UNCHANGED <<partRow, status>>
      BY <1>11, <1>t, StoreMoves DEF AbortStore, db
    <2>2. \/ UNCHANGED <<stored, live>>
          \/ /\ stored' = [stored EXCEPT ![req[w].s] = NoParts]
             /\ live' = [live EXCEPT ![req[w].s] = FALSE]
      BY <1>11 DEF AbortStore
    <2>3. \A s \in Sessions, p \in Parts :
            live'[s] => live[s] /\ stored'[s][p] = stored[s][p]
      BY <1>t, <2>2
    <2> QED
      BY <2>1, <2>3, PartsKept DEF Continues
  <1>12. ASSUME NEW w \in Handlers,
                \/ CreateInsert(w) \/ CompleteRecord(w) \/ AbortCommit(w) \/ Fail(w) \/ Deadlock(w)
                \/ (Refuse(w) /\ ~At(w, "idle"))
         PROVE  PartsStored'
    <2>1. Moves(w) /\ Ends(w)
      BY <1>12, <1>t, CommitMoves, EndMoves DEF Refuse
    <2>2. UNCHANGED <<partRow, stored, live>>
      BY <1>12 DEF CreateInsert, CompleteRecord, AbortCommit, Fail, Deadlock, Refuse, db, storage
    <2>3. \A s \in Sessions : status[s] # "none" => status'[s] # "none"
      BY <1>12, <1>t DEF CreateInsert, CompleteRecord, AbortCommit, Fail, Deadlock, Refuse, db
    <2> QED
      BY <2>1, <2>2, <2>3, PartsKept DEF Ends
  <1>13. ASSUME NEW w \in Handlers, PartOpen(w) \/ PartWritten(w) \/ PartWriteFails(w)
         PROVE  FALSE
    BY <1>13, <1>t DEF PartOpen, PartWritten, PartWriteFails, PartsStored
  <1>14. CASE /\ UNCHANGED <<partRow, stored, live, req>>
              /\ \A s \in Sessions : status[s] # "none" => status'[s] # "none"
    BY <1>14 DEF PartsStored, At
  <1>15. CASE \/ \E s \in Sessions : Refresh(s) \/ Lapse(s)
              \/ SweepSelect \/ SweepFail \/ UNCHANGED vars
    BY <1>14, <1>15 DEF Refresh, Lapse, SweepSelect, SweepFail, vars, db, storage
  <1>16. CASE SweepUpdate
    BY <1>14, <1>16 DEF SweepUpdate, storage
  <1>17. \A w \in Handlers :
           (PartPut(w) \/ CompleteList(w)) /\ Refuse(w) => ~At(w, "idle")
    BY DEF PartPut, CompleteList, At
  <1> QED
    BY <1>1, <1>2, <1>3, <1>4, <1>5, <1>6, <1>7, <1>8, <1>9, <1>10, <1>11, <1>12, <1>13,
       <1>15, <1>16, <1>17, <1>18 DEF Next, Step, Arrive, Environment

(* A step by which no completion begins or goes on, with the rows kept. *)
LEMMA FollowedKept ==
  ASSUME Typing, Followed, NEW w \in Handlers, Moves(w), partRow' = partRow,
         req'[w].at \notin {"list", "assemble", "record"}
  PROVE  Followed'
  <1> SUFFICES ASSUME NEW v \in Handlers, req'[v].at \in {"list", "assemble", "record"}
               PROVE  /\ \A p \in Parts : partRow'[req'[v].s][p] # None
                      /\ req'[v].at = "assemble" => req'[v].listed = partRow'[req'[v].s]
    BY DEF Followed, AllCommitted, At
  <1>1. v # w /\ req[v].at = req'[v].at /\ req[v].s = req'[v].s /\ req[v].listed = req'[v].listed
    BY DEF Moves
  <1>2. AllCommitted(req[v].s)
    BY <1>1 DEF Followed
  <1>3. \A p \in Parts : partRow'[req'[v].s][p] # None
    BY <1>1, <1>2 DEF AllCommitted
  <1> QED
    BY <1>1, <1>3 DEF Followed, At

(* No step lets complete() lose track of the rows it assembles. *)
LEMMA FollowedStep ==
  ASSUME OnS3, Typing, LockDiscipline, Progress, PartsStored, Followed, [Next]_vars
  PROVE  Followed'
  <1>t. /\ TypeOK /\ Backend = "s3" /\ Backend # "local"
        /\ stored \in [Sessions -> [Parts -> Bytes]]
        /\ partRow \in [Sessions -> [Parts -> Contents \union {None}]]
        /\ live \in [Sessions -> BOOLEAN] /\ req \in [Handlers -> Request]
        /\ None \notin Contents /\ Torn # None
        /\ \A v \in Handlers : req[v].at # "idle" => req[v].s \in Sessions
        /\ \A v \in Handlers : req[v].at = "commit" => req[v].c \in Contents
    BY ConstantsAssumption DEF OnS3, Typing, TypeOK, RequestShape
  <1>1. ASSUME NEW w \in Handlers, NEW s \in Sessions,
               \/ CreateCheck(w, s) \/ AbortLock(w, s)
               \/ \E p \in Parts, c \in Contents : PartRead(w, s, p, c) \/ CommitPartRead(w, s, p, c)
        PROVE  Followed'
    <2>1. /\ Moves(w)
          /\ \/ Begins(w, s, "insert") \/ Begins(w, s, "discard") \/ Begins(w, s, "mark")
             \/ Begins(w, s, "put") \/ Begins(w, s, "upsert")
      BY <1>1, <1>t, CreateMoves, LockMoves, PartMoves
    <2>2. UNCHANGED <<partRow, object>>
      BY <1>1 DEF CreateCheck, AbortLock, PartRead, CommitPartRead, db, storage
    <2> QED
      BY <2>1, <2>2, FollowedKept DEF Begins
  <1>2. ASSUME NEW w \in Handlers, NEW s \in Sessions, CompleteLock(w, s)
        PROVE  Followed'
    <2>1. /\ Moves(w) /\ Begins(w, s, "list") /\ AllCommitted(s)
          /\ UNCHANGED <<partRow, object>>
      BY <1>2, <1>t, LockMoves DEF CompleteLock, db, storage
    <2>2. \A t : AllCommitted(t) => \A p \in Parts : partRow'[t][p] # None
      BY <2>1 DEF AllCommitted
    <2> QED
      BY <2>1, <2>2 DEF Followed, AllCommitted, Moves, Begins, At
  <1>3. ASSUME NEW w \in Handlers,
               \/ PartMark(w) \/ PartPut(w) \/ PartUpsert(w) \/ AbortStore(w)
               \/ CreateInsert(w) \/ CompleteRecord(w) \/ AbortCommit(w) \/ Fail(w) \/ Deadlock(w)
               \/ (Refuse(w) /\ ~At(w, "idle"))
        PROVE  Followed'
    <2>1. /\ Moves(w)
          /\ \/ Ends(w) \/ Continues(w, "mark", "put") \/ Continues(w, "put", "upsert")
             \/ Continues(w, "upsert", "commit") \/ Continues(w, "discard", "aborted")
      BY <1>3, <1>t, WriteMoves, StoreMoves, CommitMoves, EndMoves DEF Refuse
    <2>2. UNCHANGED <<partRow, object>>
      BY <1>3 DEF PartMark, PartPut, PartUpsert, AbortStore, CreateInsert, CompleteRecord, AbortCommit,
                  Fail, Deadlock, Refuse, db, storage
    <2> QED
      BY <2>1, <2>2, FollowedKept DEF Continues, Ends
  <1>4. ASSUME NEW w \in Handlers, PartCommit(w)
        PROVE  Followed'
    <2>1. /\ At(w, "commit") /\ req[w].s \in Sessions /\ req[w].c # None
          /\ partRow' = [partRow EXCEPT ![req[w].s][req[w].p] = req[w].c]
          /\ object' = object /\ lock[req[w].s] \in {None, w} /\ Moves(w) /\ Ends(w)
      BY <1>4, <1>t, CommitMoves DEF PartCommit, storage, At
    <2> SUFFICES ASSUME NEW v \in Handlers, req'[v].at \in {"list", "assemble", "record"}
                 PROVE  /\ \A p \in Parts : partRow'[req'[v].s][p] # None
                        /\ req'[v].at = "assemble" => req'[v].listed = partRow'[req'[v].s]
      BY DEF Followed, AllCommitted, At
    <2>2. /\ v # w /\ req[v].at = req'[v].at /\ req[v].s = req'[v].s
          /\ req[v].listed = req'[v].listed
      BY <2>1 DEF Moves, Ends
    <2>3. lock[req[v].s] = v /\ v # None /\ req[v].s \in Sessions
      BY <2>2, <1>t, ConstantsAssumption DEF LockDiscipline, Exclusive
    <2>4. partRow'[req[v].s] = partRow[req[v].s]
      BY <1>t, <2>1, <2>2, <2>3
    <2>5. AllCommitted(req[v].s)
      BY <2>2 DEF Followed
    <2>6. \A p \in Parts : partRow'[req'[v].s][p] # None
      BY <2>2, <2>4, <2>5 DEF AllCommitted
    <2> QED
      BY <2>1, <2>2, <2>4, <2>6 DEF Followed, At
  <1>5. ASSUME NEW w \in Handlers, CompleteList(w), ~Refuse(w)
        PROVE  Followed'
    <2> DEFINE s == req[w].s
    <2>1. /\ At(w, "list") /\ s \in Sessions /\ live[s]
          /\ \A p \in StoredParts(s) : stored[s][p] = partRow[s][p]
          /\ req' = [req EXCEPT ![w] = [req[w] EXCEPT !.at = "assemble", !.listed = stored[s]]]
          /\ UNCHANGED <<partRow, object>>
      BY <1>5, <1>t DEF CompleteList, Begin, db, storage, At
    <2>2. AllCommitted(s)
      BY <2>1 DEF Followed, At
    <2>3. \A p \in Parts : stored[s][p] = partRow[s][p]
      BY <2>1, <2>2 DEF AllCommitted, PartsStored, StoredParts
    <2>4. stored[s] = partRow[s]
      BY <1>t, <2>1, <2>3
    <2>5. /\ req'[w].at = "assemble" /\ req'[w].s = s /\ req'[w].listed = partRow[s]
          /\ \A v \in Handlers \ {w} : req'[v] = req[v]
      BY <1>t, <2>1, <2>4 DEF Request
    <2>6. \A t : AllCommitted(t) => \A p \in Parts : partRow'[t][p] # None
      BY <2>1 DEF AllCommitted
    <2> HIDE DEF s
    <2> QED
      BY <2>1, <2>2, <2>5, <2>6 DEF Followed, AllCommitted, At
  <1>6. ASSUME NEW w \in Handlers, CompleteStore(w)
        PROVE  Followed'
    <2> DEFINE s == req[w].s
    <2>1. At(w, "assemble") /\ s \in Sessions /\ partRow' = partRow
      BY <1>6, <1>t DEF CompleteStore, db, At
    <2>2. AllCommitted(s)
      BY <2>1 DEF Followed, At
    <2>3. /\ req'[w] = Idle \/ req'[w] = [req[w] EXCEPT !.at = "record"]
          /\ \A v \in Handlers \ {w} : req'[v] = req[v]
      BY <1>6, <1>t DEF CompleteStore
    <2>4. CASE req'[w] = Idle
      <3>1. Moves(w) /\ req'[w].at = "idle"
        BY <2>3, <2>4 DEF Moves, Idle
      <3> QED
        BY <2>1, <3>1, FollowedKept
    <2>5. CASE req'[w] = [req[w] EXCEPT !.at = "record"]
      <3>1. req'[w].at = "record" /\ req'[w].s = s
        BY <1>t, <2>5 DEF Request
      <3>2. \A t : AllCommitted(t) => \A p \in Parts : partRow'[t][p] # None
        BY <2>1 DEF AllCommitted
      <3> HIDE DEF s
      <3> QED
        BY <2>1, <2>2, <2>3, <3>1, <3>2 DEF Followed, AllCommitted, At
    <2> QED
      BY <2>3, <2>4, <2>5
  <1>7. ASSUME NEW w \in Handlers, PartOpen(w) \/ PartWritten(w) \/ PartWriteFails(w)
        PROVE  FALSE
    BY <1>7, <1>t DEF PartOpen, PartWritten, PartWriteFails, PartsStored
  <1>8. CASE UNCHANGED <<partRow, req>>
    <2>1. \A t : AllCommitted(t) => \A p \in Parts : partRow'[t][p] # None
      BY <1>8 DEF AllCommitted
    <2> QED
      BY <1>8, <2>1 DEF Followed, AllCommitted, At
  <1>9. CASE \/ \E s \in Sessions : Refresh(s) \/ Lapse(s)
             \/ \E s \in Sessions, p \in Parts, c \in Contents : DirectPut(s, p, c)
             \/ SweepSelect \/ SweepUpdate \/ SweepFail \/ UNCHANGED vars
    BY <1>8, <1>9 DEF Refresh, Lapse, DirectPut, SweepSelect, SweepUpdate, SweepFail, vars, db, storage
  <1>10. \A w \in Handlers : CompleteList(w) /\ Refuse(w) => ~At(w, "idle")
    BY DEF CompleteList, At
  <1> QED
    BY <1>1, <1>2, <1>3, <1>4, <1>5, <1>6, <1>7, <1>9, <1>10 DEF Next, Step, Arrive, Environment

(* The inductive invariant of complete() on S3, for any number of sessions. *)
LEMMA AlwaysFollowed ==
  ASSUME OnS3
  PROVE  Spec => [](Typing /\ LockDiscipline /\ Progress /\ PartsStored /\ Followed)
  <1>1. Init => PartsStored /\ Followed
    BY DEF Init, PartsStored, Followed, Idle, NoParts, At
  <1>2. Typing /\ LockDiscipline /\ Progress /\ PartsStored /\ Followed /\ [Next]_vars =>
          PartsStored' /\ Followed'
    BY PartsStep, FollowedStep
  <1> QED
    BY <1>1, <1>2, Progressing, PTL DEF Spec

(* What complete_multipart_upload does on S3: it makes the object of a live upload, *)
(* or nothing.                                                                *)
LEMMA StoreOnS3 ==
  ASSUME Typing, Backend = "s3", NEW w \in Handlers, CompleteStore(w)
  PROVE  /\ At(w, "assemble") /\ req[w].s \in Sessions
         /\ \A v \in Handlers \ {w} : req'[v] = req[v]
         /\ \/ object' = object /\ req'[w] = Idle
            \/ /\ req'[w].at = "record" /\ req'[w].s = req[w].s
               /\ live[req[w].s] /\ object'.from = req[w].s
               /\ (\A p \in Parts : req[w].listed[p] # None) =>
                    object'.data = [p \in Parts |-> req[w].listed[p]]
  <1> DEFINE s == req[w].s
             listed == {p \in Parts : req[w].listed[p] # None}
  <1>t. /\ req \in [Handlers -> Request] /\ Backend # "local"
        /\ \A v \in Handlers : req[v].at # "idle" => req[v].s \in Sessions
    BY DEF Typing, TypeOK, RequestShape
  <1>1. At(w, "assemble") /\ s \in Sessions
    BY <1>t DEF CompleteStore, At
  <1>2. PICK whole \in BOOLEAN :
          /\ whole => live[s] /\ \A p \in listed : stored[s][p] = req[w].listed[p]
          /\ object' = IF whole
                         THEN [from |-> s, data |-> [p \in Parts |->
                                 IF p \in listed THEN stored[s][p] ELSE None]]
                         ELSE object
          /\ req' = [v \in Handlers |->
                       IF v = w THEN IF whole THEN [req[w] EXCEPT !.at = "record"] ELSE Idle
                       ELSE req[v]]
    BY <1>t DEF CompleteStore
  <1>3. CASE ~whole
    BY <1>1, <1>2, <1>3
  <1>4. CASE whole
    <2>1. req'[w].at = "record" /\ req'[w].s = s /\ object'.from = s
      BY <1>t, <1>2, <1>4 DEF Request
    <2>2. ASSUME \A p \in Parts : req[w].listed[p] # None
          PROVE  object'.data = [p \in Parts |-> req[w].listed[p]]
      <3>1. \A p \in Parts : p \in listed /\ stored[s][p] = req[w].listed[p]
        BY <1>2, <1>4, <2>2
      <3>2. object'.data = [p \in Parts |-> IF p \in listed THEN stored[s][p] ELSE None]
        BY <1>2, <1>4
      <3> HIDE DEF listed, s
      <3> QED
        BY <3>1, <3>2
    <2> QED
      BY <1>1, <1>2, <1>4, <2>1, <2>2
  <1> QED
    BY <1>3, <1>4

(* With the rows of its session in hand, complete() puts exactly them there. *)
LEMMA StoreIsCommitted ==
  ASSUME OnS3, Typing, Followed, NEW w \in Handlers, CompleteStore(w), req'[w] # Idle
  PROVE  LET s == req[w].s IN
         /\ s \in Sessions /\ live[s] /\ AllCommitted(s)
         /\ object'.from = s /\ object'.data = partRow[s]
         /\ req'[w].at = "record" /\ req'[w].s = s
  <1> DEFINE s == req[w].s
  <1>1. /\ At(w, "assemble") /\ s \in Sessions /\ req'[w].at = "record" /\ req'[w].s = s
        /\ live[s] /\ object'.from = s
        /\ (\A p \in Parts : req[w].listed[p] # None) =>
             object'.data = [p \in Parts |-> req[w].listed[p]]
    BY StoreOnS3 DEF OnS3
  <1>2. AllCommitted(s) /\ req[w].listed = partRow[s]
    BY <1>1 DEF Followed, At
  <1>3. partRow[s] \in [Parts -> Contents \union {None}]
    BY <1>1 DEF Typing, TypeOK
  <1>4. \A p \in Parts : req[w].listed[p] # None
    BY <1>2 DEF AllCommitted
  <1>5. object'.data = partRow[s]
    BY <1>1, <1>2, <1>3, <1>4
  <1> QED
    BY <1>1, <1>2, <1>5

(* Nothing else touches the object. *)
LEMMA OnlyStoreReplaces ==
  ASSUME [Next]_vars, object' # object
  PROVE  \E w \in Handlers : CompleteStore(w)
  <1>1. ASSUME NEW w \in Handlers, Step(w), ~CompleteStore(w)
        PROVE  object' = object
    BY <1>1 DEF Step, CreateInsert, PartMark, PartOpen, PartWritten, PartPut, PartUpsert, PartCommit,
                CompleteList, CompleteRecord, AbortStore, AbortCommit, Refuse, storage
  <1>2. ASSUME NEW w \in Handlers, Arrive(w)
        PROVE  object' = object
    BY <1>2 DEF Arrive, CreateCheck, PartRead, CommitPartRead, CompleteLock, AbortLock, storage
  <1>3. CASE Environment \/ UNCHANGED vars
    BY <1>3 DEF Environment, Fail, Deadlock, PartWriteFails, Refuse, Refresh, Lapse, DirectPut,
                SweepSelect, SweepUpdate, SweepFail, vars, storage
  <1> QED
    BY <1>1, <1>2, <1>3 DEF Next

(* The object is replaced only by a complete() that holds its session's row lock  *)
(* and puts exactly the parts there that its rows name.                        *)
ReplacedByCommitted ==
  [][object' # object =>
       \E w \in Handlers :
         LET s == req[w].s IN
         /\ At(w, "assemble") /\ lock[s] = w
         /\ AllCommitted(s) /\ object'.from = s /\ object'.data = partRow[s]]_vars

(* For any number of sessions of one key: whoever wins, loses, is late or crashes,  *)
(* what it puts under the key is what its client committed (complete on S3).     *)
THEOREM ReplacementSafe ==
  ASSUME OnS3
  PROVE  Spec => ReplacedByCommitted
  <1> DEFINE Good == object' # object =>
               \E w \in Handlers :
                 LET s == req[w].s IN
                 /\ At(w, "assemble") /\ lock[s] = w
                 /\ AllCommitted(s) /\ object'.from = s /\ object'.data = partRow[s]
  <1>1. Typing /\ LockDiscipline /\ Followed /\ [Next]_vars => [Good]_vars
    <2> SUFFICES ASSUME Typing, LockDiscipline, Followed, [Next]_vars, object' # object
                 PROVE  \E w \in Handlers :
                          LET s == req[w].s IN
                          /\ At(w, "assemble") /\ lock[s] = w
                          /\ AllCommitted(s) /\ object'.from = s /\ object'.data = partRow[s]
      OBVIOUS
    <2>1. PICK w \in Handlers : CompleteStore(w)
      BY OnlyStoreReplaces
    <2>s. Backend = "s3"
      BY DEF OnS3
    <2>i. req'[w].at = "record" => req'[w] # Idle
      BY DEF Idle
    <2>2. At(w, "assemble") /\ req'[w] # Idle
      BY <2>1, <2>s, <2>i, StoreOnS3
    <2>3. /\ AllCommitted(req[w].s) /\ object'.from = req[w].s /\ object'.data = partRow[req[w].s]
      BY <2>1, <2>2, StoreIsCommitted
    <2>4. lock[req[w].s] = w
      BY <2>2 DEF LockDiscipline, Exclusive, At
    <2> QED
      BY <2>2, <2>3, <2>4
  <1> HIDE DEF Good
  <1>2. Spec => [][Good]_vars
    BY <1>1, AlwaysFollowed, PTL DEF Spec
  <1> QED
    BY <1>2, PTL DEF ReplacedByCommitted, Good

(* Whatever is under the key is one session's upload, every part of it there:     *)
(* never a mixture of two, never with a part missing or half written.          *)
UploadsAreNotMixed ==
  object # NoObject => object.from \in Sessions /\ \A p \in Parts : object.data[p] \in Contents

(* Two completions of one key replace each other's object, but never mix their     *)
(* parts, and no failed or repeated one leaves a partial object.                *)
THEOREM MixingSafe ==
  ASSUME OnS3
  PROVE  Spec => []UploadsAreNotMixed
  <1>1. Init => UploadsAreNotMixed
    BY DEF Init, UploadsAreNotMixed
  <1>2. ASSUME Typing, Followed, UploadsAreNotMixed, [Next]_vars
        PROVE  UploadsAreNotMixed'
    <2>1. CASE object' = object
      BY <1>2, <2>1 DEF UploadsAreNotMixed
    <2>2. CASE object' # object
      <3>1. PICK w \in Handlers : CompleteStore(w)
        BY <1>2, <2>2, OnlyStoreReplaces
      <3>s. Backend = "s3"
        BY DEF OnS3
      <3>i. req'[w].at = "record" => req'[w] # Idle
        BY DEF Idle
      <3>2. req'[w] # Idle
        BY <1>2, <2>2, <3>1, <3>s, <3>i, StoreOnS3
      <3>3. /\ req[w].s \in Sessions /\ AllCommitted(req[w].s)
            /\ object'.from = req[w].s /\ object'.data = partRow[req[w].s]
        BY <1>2, <3>1, <3>2, StoreIsCommitted
      <3>4. \A p \in Parts : partRow[req[w].s][p] \in Contents
        BY <1>2, <3>3 DEF AllCommitted, Typing, TypeOK
      <3> QED
        BY <3>3, <3>4 DEF UploadsAreNotMixed
    <2> QED
      BY <2>1, <2>2
  <1>3. Typing /\ Followed /\ UploadsAreNotMixed /\ [Next]_vars => UploadsAreNotMixed'
    BY <1>2
  <1> QED
    BY <1>1, <1>3, AlwaysFollowed, PTL DEF Spec

(* The object of a recorded file changes in one way: another session of the key,   *)
(* which passed the conflict check before the file was there, is completed in      *)
(* storage before its INSERT is refused (upload_service.py:506).               *)
ChangedOnlyByRival ==
  [][file # None /\ object' # object =>
       \E w \in Handlers : At(w, "assemble") /\ req[w].s # file /\ object'.from = req[w].s]_vars

(* On S3, whatever the clients commit: no retry, late part, sweep or crash of the   *)
(* session that made a file ever changes its object.                            *)
THEOREM RivalSafe ==
  ASSUME Backend = "s3"
  PROVE  Spec => ChangedOnlyByRival
  <1> DEFINE Good == file # None /\ object' # object =>
               \E w \in Handlers : At(w, "assemble") /\ req[w].s # file /\ object'.from = req[w].s
  <1>1. Typing /\ Progress /\ [Next]_vars => [Good]_vars
    <2> SUFFICES ASSUME Typing, Progress, [Next]_vars, file # None, object' # object
                 PROVE  \E w \in Handlers :
                          At(w, "assemble") /\ req[w].s # file /\ object'.from = req[w].s
      OBVIOUS
    <2>1. PICK w \in Handlers : CompleteStore(w)
      BY OnlyStoreReplaces
    <2>2. At(w, "assemble") /\ req[w].s \in Sessions /\ live[req[w].s] /\ object'.from = req[w].s
      BY <2>1, StoreOnS3
    <2>3. req[w].s # file
      BY <2>2 DEF Progress, Consumed
    <2> QED
      BY <2>2, <2>3
  <1> HIDE DEF Good
  <1>2. Spec => [][Good]_vars
    BY <1>1, Progressing, PTL DEF Spec
  <1> QED
    BY <1>2, PTL DEF ChangedOnlyByRival, Good

(* A request that stands before its INSERT has stored its object before. *)
LEMMA RecordsGoOn ==
  ASSUME Typing, [Next]_vars, NEW v \in Handlers, req'[v].at = "record", ~CompleteStore(v)
  PROVE  req[v].at = "record" /\ req'[v].s = req[v].s
  <1>1. ASSUME NEW w \in Handlers, Step(w), w # v \/ ~CompleteStore(w)
        PROVE  req[v].at = "record" /\ req'[v].s = req[v].s
    <2>1. /\ Moves(w)
          /\ \/ Ends(w) \/ CompleteStore(w)
             \/ Continues(w, "mark", "put") \/ Continues(w, "put", "write")
             \/ Continues(w, "write", "upsert") \/ Continues(w, "put", "upsert")
             \/ Continues(w, "upsert", "commit")
             \/ Continues(w, "list", "assemble") \/ Continues(w, "discard", "aborted")
      BY <1>1, WriteMoves, StoreMoves, CommitMoves DEF Step, Typing
    <2> QED
      BY <1>1, <2>1 DEF Moves, Ends, Continues
  <1>2. ASSUME NEW w \in Handlers, Arrive(w)
        PROVE  req[v].at = "record" /\ req'[v].s = req[v].s
    <2>1. PICK s \in Sessions :
            \/ CreateCheck(w, s) \/ CompleteLock(w, s) \/ AbortLock(w, s)
            \/ \E p \in Parts, c \in Contents :
                 PartRead(w, s, p, c) \/ CommitPartRead(w, s, p, c)
      BY <1>2 DEF Arrive
    <2>2. Moves(w) /\ req'[w].at \in {"insert", "list", "discard", "mark", "put", "upsert"}
      BY <2>1, CreateMoves, LockMoves, PartMoves DEF Typing, Begins
    <2> QED
      BY <2>2 DEF Moves
  <1>3. ASSUME NEW w \in Handlers, Fail(w) \/ Deadlock(w) \/ PartWriteFails(w)
        PROVE  req[v].at = "record" /\ req'[v].s = req[v].s
    <2>1. Moves(w) /\ Ends(w)
      BY <1>3, StoreMoves, CommitMoves DEF Typing
    <2> QED
      BY <2>1 DEF Moves, Ends
  <1>4. CASE req' = req
    BY <1>4
  <1> QED
    BY <1>1, <1>2, <1>3, <1>4
       DEF Next, Environment, Refresh, Lapse, DirectPut, SweepSelect, SweepUpdate, SweepFail, vars

(* Nor does a commit of parts change the rows of a session that is completed. *)
LEMMA RowsStayLocked ==
  ASSUME Typing, LockDiscipline, [Next]_vars, NEW v \in Handlers, req[v].at = "record"
  PROVE  partRow'[req[v].s] = partRow[req[v].s]
  <1>1. req[v].s \in Sessions /\ lock[req[v].s] = v /\ v # None
    BY ConstantsAssumption DEF LockDiscipline, Exclusive
  <1>2. ASSUME NEW w \in Handlers, PartCommit(w)
        PROVE  partRow'[req[v].s] = partRow[req[v].s]
    <2>1. /\ At(w, "commit") /\ lock[req[w].s] \in {None, w}
          /\ partRow' = [partRow EXCEPT ![req[w].s][req[w].p] = req[w].c]
      BY <1>2 DEF PartCommit
    <2>2. req[w].s # req[v].s
      BY <1>1, <2>1 DEF At
    <2> QED
      BY <1>1, <2>1, <2>2 DEF Typing, TypeOK
  <1>3. ASSUME NEW w \in Handlers, Step(w), ~PartCommit(w)
        PROVE  partRow' = partRow
    BY <1>3 DEF Step, CreateInsert, PartMark, PartOpen, PartWritten, PartPut, PartUpsert, CompleteStore,
                CompleteList, CompleteRecord, AbortStore, AbortCommit, Refuse, db
  <1>4. ASSUME NEW w \in Handlers, Arrive(w)
        PROVE  partRow' = partRow
    BY <1>4 DEF Arrive, CreateCheck, PartRead, CommitPartRead, CompleteLock, AbortLock, db
  <1>5. CASE Environment \/ UNCHANGED vars
    BY <1>5 DEF Environment, Fail, Deadlock, PartWriteFails, Refuse, Refresh, Lapse, DirectPut,
                SweepSelect, SweepUpdate, SweepFail, vars, db
  <1> QED
    BY <1>2, <1>3, <1>4, <1>5 DEF Next

(* Alone on its key, a session finds the object it has made when it is recorded. *)
LEMMA AssembledStep ==
  ASSUME Alone, Typing, LockDiscipline, Followed, Assembled, [Next]_vars
  PROVE  Assembled'
  <1> SUFFICES ASSUME NEW v \in Handlers, req'[v].at = "record"
               PROVE  object'.from = req'[v].s /\ object'.data = partRow'[req'[v].s]
    BY DEF Assembled, At
  <1>1. CASE CompleteStore(v)
    <2>1. req'[v] # Idle
      BY DEF Idle
    <2>2. object'.from = req'[v].s /\ object'.data = partRow[req'[v].s]
      BY <1>1, <2>1, StoreIsCommitted DEF Alone
    <2>3. partRow' = partRow
      BY <1>1 DEF CompleteStore, db
    <2> QED
      BY <2>2, <2>3
  <1>2. CASE ~CompleteStore(v)
    <2>1. req[v].at = "record" /\ req'[v].s = req[v].s
      BY <1>2, RecordsGoOn
    <2>2. partRow'[req[v].s] = partRow[req[v].s]
      BY <2>1, RowsStayLocked
    <2>3. object' = object
      <3> SUFFICES ASSUME object' # object
                   PROVE  FALSE
        OBVIOUS
      <3>1. PICK w \in Handlers : CompleteStore(w)
        BY OnlyStoreReplaces
      <3>2. req[w].at = "assemble" /\ req[w].s \in Sessions
        BY <3>1, StoreOnS3 DEF Alone, OnS3, At
      <3>3. lock[req[w].s] = w /\ lock[req[v].s] = v /\ req[v].s \in Sessions
        BY <2>1, <3>2 DEF LockDiscipline, Exclusive
      <3> QED
        BY <2>1, <3>2, <3>3 DEF Alone
    <2> QED
      BY <2>1, <2>2, <2>3 DEF Assembled, At
  <1> QED
    BY <1>1, <1>2

LEMMA AlwaysAssembled ==
  ASSUME Alone
  PROVE  Spec => [](Typing /\ Followed /\ Assembled)
  <1>0. OnS3
    BY DEF Alone
  <1>1. Init => Assembled
    BY DEF Init, Assembled, Idle, At
  <1>2. Typing /\ LockDiscipline /\ Followed /\ Assembled /\ [Next]_vars => Assembled'
    BY AssembledStep
  <1> QED
    BY <1>0, <1>1, <1>2, AlwaysFollowed, PTL DEF Spec

(* The file row complete() commits describes an object made by its own session of  *)
(* every part, each with its committed ETag, whatever parts are uploaded, retried *)
(* or committed, and whatever fails, between its lock and its commit.            *)
THEOREM CompletionSafe ==
  ASSUME Alone
  PROVE  Spec => CompletedIsCommitted
  <1>1. ASSUME Typing, Followed, Assembled, [Next]_vars, NEW s \in Sessions, file' = s, file # s
        PROVE  object.from = s /\ object.data = partRow[s] /\ AllCommitted(s)
    <2>1. PICK w \in Handlers : CompleteRecord(w) /\ file' # file
      <3>1. ASSUME NEW w \in Handlers, Step(w), ~CompleteRecord(w)
            PROVE  file' = file
        BY <3>1 DEF Step, CreateInsert, PartMark, PartOpen, PartWritten, PartPut, PartUpsert, PartCommit,
                    CompleteList, CompleteStore, AbortStore, AbortCommit, Refuse, db
      <3>2. ASSUME NEW w \in Handlers, Arrive(w)
            PROVE  file' = file
        BY <3>2 DEF Arrive, CreateCheck, PartRead, CommitPartRead, CompleteLock, AbortLock, db
      <3>3. CASE Environment \/ UNCHANGED vars
        BY <1>1, <3>3 DEF Environment, Fail, Deadlock, PartWriteFails, Refuse, Refresh, Lapse, DirectPut,
                          SweepSelect, SweepUpdate, SweepFail, vars, db
      <3> QED
        BY <1>1, <3>1, <3>2, <3>3 DEF Next
    <2>2. At(w, "record") /\ req[w].s = s
      BY <1>1, <2>1 DEF CompleteRecord, Refuse, db
    <2> QED
      BY <1>1, <2>2 DEF Followed, Assembled, At
  <1>2. Typing /\ Followed /\ Assembled /\ [Next]_vars =>
          \A s \in Sessions : file' = s /\ file # s =>
            object.from = s /\ object.data = partRow[s] /\ AllCommitted(s)
    BY <1>1
  <1>3. UNCHANGED vars => UNCHANGED file
    BY DEF vars, db
  <1> QED
    BY <1>2, <1>3, AlwaysAssembled, PTL DEF Spec, CompletedIsCommitted

(* No late, repeated or restarted complete() touches the object of a committed   *)
(* file row: its S3 upload is gone.                                              *)
THEOREM ObjectSafe ==
  ASSUME Alone
  PROVE  Spec => FileStable
  <1>1. ASSUME Typing, Progress, [Next]_vars, file # None, object' # object
        PROVE  FALSE
    <2>1. PICK w \in Handlers : CompleteStore(w)
      BY <1>1, OnlyStoreReplaces
    <2>2. req[w].s \in Sessions /\ live[req[w].s]
      BY <1>1, <2>1, StoreOnS3 DEF Alone, OnS3
    <2>3. file \in Sessions
      BY <1>1 DEF Typing, TypeOK
    <2>4. req[w].s = file
      BY <2>2, <2>3 DEF Alone
    <2> QED
      BY <1>1, <2>2, <2>4 DEF Progress, Consumed
  <1>2. Typing /\ Progress /\ [Next]_vars => (file # None => object' = object)
    BY <1>1
  <1> QED
    BY <1>2, Progressing, PTL DEF Spec, FileStable

-----------------------------------------------------------------------------
(* Why requests end. *)

(* Whom a request waits for: the holder of the session row, at the UPDATE that    *)
(* marks the session and at touch_activity; at upsert_part, the transaction that *)
(* has written the row of the part, and, when the row is new, a complete or abort *)
(* that has the session FOR UPDATE.                                            *)
WaitsFor(v, w) ==
  \/ At(v, "mark") /\ lock[req[v].s] = w
  \/ At(v, "commit") /\ lock[req[v].s] = w /\ w # v
  \/ At(v, "upsert") /\ At(w, "commit") /\ req[w].s = req[v].s /\ req[w].p = req[v].p
  \/ /\ At(v, "upsert") /\ lock[req[v].s] = w /\ req[w].at \in Exclusive
     /\ partRow[req[v].s][req[v].p] = None

(* Transactions may wait in a circle, but only two of them: one that marked the   *)
(* session and another that has written the same part.  Whoever waits behind    *)
(* others waits for one who is working, or for two who wait for each other, and  *)
(* those PostgreSQL's detector takes apart (upload_service.py:282-322: the status *)
(* first, then the part, then the session again).                              *)
CirclesArePairs ==
  \A a, b, c, d \in Handlers :
    WaitsFor(a, b) /\ WaitsFor(b, c) /\ WaitsFor(c, d) => WaitsFor(d, c)

(* However many requests share a session and its parts, no circle is longer.    *)
THEOREM CirclesSafe == Spec => []CirclesArePairs
  <1>1. Typing /\ LockDiscipline => CirclesArePairs
    <2> SUFFICES ASSUME LockDiscipline, NEW a \in Handlers, NEW b \in Handlers,
                        NEW c \in Handlers, NEW d \in Handlers,
                        WaitsFor(a, b), WaitsFor(b, c), WaitsFor(c, d),
                        \A v \in Handlers : req[v].at # "idle" => req[v].s \in Sessions
                 PROVE  WaitsFor(d, c)
      BY DEF CirclesArePairs, Typing, RequestShape
    <2>1. ASSUME NEW v \in Handlers, NEW w \in Handlers, NEW s \in Sessions,
                 lock[s] = v, WaitsFor(v, w)
          PROVE  req[v].s = s /\ At(v, "upsert")
      BY <2>1 DEF LockDiscipline, Exclusive, WaitsFor, At
    <2>2. At(b, "commit") \/ \E s \in Sessions : lock[s] = b
      BY DEF WaitsFor, At
    <2>3. CASE At(b, "commit")
      <3>1. /\ req[b].s \in Sessions /\ lock[req[b].s] = c
        BY <2>3 DEF WaitsFor, At
      <3>2. req[c].s = req[b].s /\ At(c, "upsert")
        BY <2>1, <3>1
      <3>3. At(d, "commit") /\ req[d].s = req[c].s
        BY <3>1, <3>2 DEF WaitsFor, At, Exclusive
      <3> QED
        BY <3>1, <3>2, <3>3 DEF WaitsFor, At
    <2>4. CASE \E s \in Sessions : lock[s] = b
      <3>1. PICK s \in Sessions : lock[s] = b
        BY <2>4
      <3>2. req[b].s = s /\ At(b, "upsert")
        BY <2>1, <3>1
      <3>3. At(c, "commit") /\ req[c].s = s
        BY <3>1, <3>2 DEF WaitsFor, At, Exclusive
      <3>4. d = b
        BY <3>1, <3>3 DEF WaitsFor, At
      <3> QED
        BY <3>4
    <2> QED
      BY <2>2, <2>3, <2>4
  <1> QED
    BY <1>1, Typed, LockSafe, PTL

(* The awaits a request has left at most: five for a proxied part on local      *)
(* disk that finds its session "initiated", fewer for every other request.     *)
Left(at) ==
  CASE at = "mark" -> 5
    [] at = "put" -> 4
    [] at \in {"write", "list"} -> 3
    [] at \in {"upsert", "assemble", "discard"} -> 2
    [] at = "idle" -> 0
    [] OTHER -> 1

(* No handler goes back or round: each of its own steps brings it nearer to its  *)
(* answer, and neither faults, the sweep nor other requests set it back.       *)
RequestsAdvance ==
  [][\A w \in Handlers : ~At(w, "idle") =>
       /\ Step(w) => Left(req'[w].at) < Left(req[w].at)
       /\ Left(req'[w].at) <= Left(req[w].at)]_vars

(* A request makes at most five steps, through retries, rmtree and late commits. *)
THEOREM RequestsAreBounded == Spec => RequestsAdvance
  <1> DEFINE Nearer(w) == Left(req'[w].at) < Left(req[w].at)
             Good(w) == ~At(w, "idle") =>
                          /\ Step(w) => Left(req'[w].at) < Left(req[w].at)
                          /\ Left(req'[w].at) <= Left(req[w].at)
  <1>n. \A a \in Steps : Left(a) \in 0 .. 5 /\ (a # "idle" => Left(a) > 0)
    BY DEF Steps, Left
  <1>1. ASSUME Typing, NEW w \in Handlers,
               \/ Ends(w)
               \/ Continues(w, "mark", "put") \/ Continues(w, "put", "write")
               \/ Continues(w, "write", "upsert") \/ Continues(w, "put", "upsert")
             \/ Continues(w, "upsert", "commit")
               \/ Continues(w, "list", "assemble") \/ Continues(w, "assemble", "record")
               \/ Continues(w, "discard", "aborted")
        PROVE  Nearer(w)
    <2>1. req[w].at \in Steps
      BY <1>1 DEF Typing, TypeOK, Request
    <2>2. CASE Ends(w)
      <3>1. req[w].at # "idle" /\ req'[w].at = "idle"
        BY <2>2 DEF Ends, At
      <3>2. Left("idle") = 0
        BY DEF Left
      <3> QED
        BY <1>n, <2>1, <3>1, <3>2
    <2>3. CASE ~Ends(w)
      BY <1>1, <2>3 DEF Continues, At, Left
    <2> QED
      BY <2>2, <2>3
  <1>2. ASSUME Typing, NEW w \in Handlers, Step(w)
        PROVE  Moves(w) /\ Nearer(w)
    <2>1. /\ Moves(w)
          /\ \/ Ends(w)
             \/ Continues(w, "mark", "put") \/ Continues(w, "put", "write")
             \/ Continues(w, "write", "upsert") \/ Continues(w, "put", "upsert")
             \/ Continues(w, "upsert", "commit")
             \/ Continues(w, "list", "assemble") \/ Continues(w, "assemble", "record")
             \/ Continues(w, "discard", "aborted")
      BY <1>2, WriteMoves, StoreMoves, CommitMoves DEF Step, Typing
    <2> QED
      BY <1>1, <1>2, <2>1
  <1>3. ASSUME Typing, NEW w \in Handlers, Arrive(w)
        PROVE  Moves(w) /\ At(w, "idle")
    <2>1. PICK s \in Sessions :
            \/ CreateCheck(w, s) \/ CompleteLock(w, s) \/ AbortLock(w, s)
            \/ \E p \in Parts, c \in Contents :
                 PartRead(w, s, p, c) \/ CommitPartRead(w, s, p, c)
      BY <1>3 DEF Arrive
    <2> QED
      BY <1>3, <2>1, CreateMoves, LockMoves, PartMoves DEF Typing, Begins
  <1>4. ASSUME Typing, NEW w \in Handlers, Fail(w) \/ Deadlock(w) \/ PartWriteFails(w)
        PROVE  Moves(w) /\ Nearer(w)
    BY <1>1, <1>4, StoreMoves, CommitMoves DEF Typing
  <1>5. ASSUME Typing, NEW w \in Handlers, NEW v \in Handlers, v # w, Moves(v), ~Step(w)
        PROVE  Good(w)
    <2>1. req'[w].at = req[w].at /\ req[w].at \in Steps
      BY <1>5 DEF Typing, TypeOK, Request, Moves
    <2> QED
      BY <1>5, <1>n, <2>1
  <1>6. Typing /\ [Next]_vars => [\A w \in Handlers : Good(w)]_vars
    <2> SUFFICES ASSUME Typing, Next, NEW w \in Handlers
                 PROVE  Good(w)
      OBVIOUS
    <2>0. Left(req[w].at) \in 0 .. 5
      BY <1>n DEF Typing, TypeOK, Request
    <2>1. CASE Step(w)
      BY <1>2, <2>1, <2>0, <1>n DEF Left
    <2>2. ASSUME ~Step(w), NEW v \in Handlers,
                 Step(v) \/ Arrive(v) \/ Fail(v) \/ Deadlock(v) \/ PartWriteFails(v)
          PROVE  Good(w)
      <3>1. CASE v # w
        BY <1>2, <1>3, <1>4, <1>5, <2>2, <3>1
      <3>2. CASE v = w
        <4>1. At(w, "idle") \/ Nearer(w)
          BY <1>3, <1>4, <2>2, <3>2
        <4> QED
          BY <2>0, <2>2, <4>1 DEF Left
      <3> QED
        BY <3>1, <3>2
    <2>3. CASE ~Step(w) /\ req' = req
      BY <2>0, <2>3
    <2> QED
      BY <2>1, <2>2, <2>3
         DEF Next, Environment, Refresh, Lapse, DirectPut, SweepSelect, SweepUpdate, SweepFail
  <1> HIDE DEF Good
  <1>7. Spec => [][\A w \in Handlers : Good(w)]_vars
    BY <1>6, Typed, PTL DEF Spec
  <1> QED
    BY <1>7, PTL DEF RequestsAdvance, Good
=============================================================================
