--------------------------- MODULE SdkClientProofs ---------------------------
(***************************************************************************)
(* The SDK's uploads, directories and downloads are right for every number of *)
(* parts, files, ranges, retries and requests that are served late.  First,    *)
(* what any request of the SDK may do to the server (Sound, Grown); then, what *)
(* the methods of the SDK know of it at each of their steps.                   *)
(***************************************************************************)
EXTENDS SdkClient, PartLayoutProofs, FiniteSetTheorems

USE ServerAssumption, ClientAssumption

Sessions == {"none", "proxy", "open", "completed"}
JobStates == {"none", "created", "manifest_uploading", "ready", "uploading", "completed"}
EntryStates == {"none", "pending", "uploaded", "failed"}

(* A part of a session, or the temporary file of its completion or of an upload. *)
Writings == (Sids \union {0}) \X Nat

Servers(size) ==
  [size : {size}, threshold : Thresholds \union {LocalThreshold}, backend : {"local", "s3"},
   unsafe : SUBSET Paths, renamed : SUBSET Paths, writing : SUBSET Writings,
   session : [Sids -> Sessions],
   parts : [Sids -> [1 .. TotalParts(size, PartSize) -> Seq(Int) \union {None}]],
   object : {None, WholeFile(size), Torn},
   job : JobStates, entry : [Paths -> EntryStates], stored : SUBSET Paths]

(* The manifest of the job is complete. *)
Sealed(sv) == sv.job \in {"ready", "uploading", "completed"}

(* File f is stored, or the job knows that it is not. *)
Known(sv, f) == f \in sv.stored \/ sv.entry[f] = "failed"

(* No request that was given up is writing, and none has spoiled the object. *)
Clean(sv) == sv.writing = {} /\ sv.object # Torn

(* What holds of the server between requests: a part that is there is the part *)
(* of the file, a completed session has made the object, which only the local   *)
(* store can spoil, a sealed job lists every file, and there are some, and a     *)
(* completed job has stored them.                                              *)
Sound(sv) ==
  /\ sv.size \in Sizes
  /\ sv \in Servers(sv.size)
  /\ \A s \in Sids : \A p \in Parts(sv) : sv.parts[s][p] \in {None, PartBytes(sv.size, PartSize, p)}
  /\ \A s \in Sids : sv.session[s] = "completed" => sv.object # None
  /\ ~Clean(sv) => sv.backend = "local"
  /\ Sealed(sv) => Listed(sv) = Paths /\ Paths # {}
  /\ sv.job = "completed" => sv.stored = Paths

(* What a request of the SDK may be, of which the server has to be sure: an     *)
(* "uploaded" result is that of a stored file, and the job is finished when      *)
(* each file is known.                                                        *)
Proper(sv, m) ==
  /\ m.op = "create"   => Fresh(sv) # {}
  /\ m.op = "part"     => m.s \in Sids /\ m.p \in Parts(sv) /\ m.bytes = PartBytes(sv.size, PartSize, m.p)
  /\ m.op = "complete" => m.s \in Sids
  /\ m.op = "file"     => m.p \in Paths
  /\ m.op = "result"   => /\ m.p \in Paths /\ m.status \in {"uploaded", "failed"}
                          /\ m.status = "uploaded" => m.p \in sv.stored
  /\ m.op = "finish"   => \A f \in Paths : Known(sv, f)

(* What stays true of the server whatever is served. *)
Grown(sv, sw) ==
  /\ sw.size = sv.size /\ sw.unsafe = sv.unsafe /\ sw.renamed = sv.renamed /\ sw.backend = sv.backend
  /\ \A s \in Sids : sv.session[s] \in {"open", "completed"} => sw.session[s] \in {"open", "completed"}
  /\ sv.object # None => sw.object = sv.object
  /\ sv.stored \subseteq sw.stored
  /\ \A f \in Paths : Known(sv, f) => Known(sw, f)
  /\ Sealed(sv) => Sealed(sw)
  /\ sv.job = "completed" => sw.job = "completed"

-----------------------------------------------------------------------------
(* The server. *)

LEMMA PartsOfFile ==
  ASSUME NEW size \in Nat, NEW p \in 1 .. TotalParts(size, PartSize)
  PROVE  PartBytes(size, PartSize, p) \in Seq(Int)
  <1>1. PartLength(size, PartSize, p) \in Nat /\ PartOffset(PartSize, p) \in Nat BY PartFits
  <1> QED BY <1>1 DEF PartBytes

LEMMA ObjectsApart ==
  ASSUME NEW size \in Nat
  PROVE  WholeFile(size) # None /\ Torn # None /\ WholeFile(size) # Torn
  <1>1. WholeFile(size) \in Seq(Int) /\ Torn \in Seq(Int) BY DEF WholeFile, Torn, Hole
  <1>2. WholeFile(size) # Torn
    <2>1. CASE size = 1
      <3>1. WholeFile(size)[1] = 0 BY <2>1 DEF WholeFile
      <3> QED BY <3>1 DEF Torn, Hole
    <2>2. CASE size # 1
      <3>1. Len(WholeFile(size)) = size BY DEF WholeFile
      <3> QED BY <2>2, <3>1 DEF Torn
    <2> QED BY <2>1, <2>2
  <1> QED BY <1>1, <1>2

(* A completion makes the whole file, unless somebody is writing. *)
LEMMA AssembledIsFile ==
  ASSUME NEW sv, Sound(sv), NEW s \in Sids, \A p \in Parts(sv) : sv.parts[s][p] # None
  PROVE  /\ Assembled(sv, s) \in {WholeFile(sv.size), Torn}
         /\ sv.writing = {} => Assembled(sv, s) = WholeFile(sv.size)
  <1> DEFINE total == TotalParts(sv.size, PartSize)
  <1>1. sv.size \in Nat BY DEF Sound
  <1>2. sv.parts[s] \in [1 .. total -> Seq(Int) \union {None}] BY DEF Sound, Servers
  <1>3. \A p \in 1 .. total : sv.parts[s][p] = PartBytes(sv.size, PartSize, p) BY DEF Sound, Parts
  <1>4. sv.parts[s] = [p \in 1 .. total |-> PartBytes(sv.size, PartSize, p)] BY <1>2, <1>3
  <1>5. FlattenSeq(sv.parts[s]) = WholeFile(sv.size) BY <1>1, <1>4, PartsAreTheFile
  <1> QED BY <1>5 DEF Assembled, SharesTemporary

LEMMA PutIsFile ==
  ASSUME NEW sv
  PROVE  /\ Put(sv) \in {WholeFile(sv.size), Torn}
         /\ sv.writing = {} => Put(sv) = WholeFile(sv.size)
BY DEF Put, SharesTemporary

(* create takes the oldest session nobody has. *)
LEMMA NewSessionIsFirst ==
  ASSUME NEW sv, Fresh(sv) # {}
  PROVE  NewSession(sv) \in Fresh(sv) /\ \A t \in Fresh(sv) : NewSession(sv) <= t
  <1>1. Fresh(sv) \in SUBSET Nat BY DEF Fresh, Sids
  <1>2. \E s \in Fresh(sv) : \A t \in Fresh(sv) : s <= t BY <1>1, Smallest
  <1> QED BY <1>2 DEF NewSession

(* What a request that is served does, whatever it is. *)
Serves(sv, m, sw) ==
  \/ sw = sv
  \/ /\ m.op = "create"
     /\ sw = [sv EXCEPT !.session[NewSession(sv)] = IF IsProxy(sv) THEN "proxy" ELSE "open"]
  \/ /\ m.op = "part" /\ sv.session[m.s] = "open"
     /\ sw = [sv EXCEPT !.parts[m.s][m.p] = m.bytes, !.writing = @ \ {<<m.s, m.p>>}]
  \/ /\ m.op = "complete" /\ sv.session[m.s] = "open" /\ sv.object = None
     /\ \A p \in Parts(sv) : sv.parts[m.s][p] # None
     /\ sw = [sv EXCEPT !.session[m.s] = "completed", !.object = Assembled(sv, m.s)]
  \/ m.op = "upload" /\ sv.object = None /\ sw = [sv EXCEPT !.object = Put(sv)]
  \/ m.op = "job" /\ sv.job = "none" /\ sw = [sv EXCEPT !.job = "created"]
  \/ /\ m.op = "entries" /\ Addable(sv, m.paths)
     /\ sw = [sv EXCEPT !.job = "manifest_uploading",
                        !.entry = [f \in Paths |-> IF f \in m.paths THEN "pending" ELSE @[f]]]
  \/ m.op = "manifest" /\ ManifestMatches(sv) /\ sw = [sv EXCEPT !.job = "ready"]
  \/ m.op = "retry" /\ sv.job = "ready" /\ sw = [sv EXCEPT !.job = "uploading"]
  \/ m.op = "file" /\ m.p \notin sv.stored /\ sw = [sv EXCEPT !.stored = @ \union {m.p}]
  \/ m.op = "result" /\ sv.entry[m.p] # "none" /\ sw = [sv EXCEPT !.entry[m.p] = m.status]
  \/ m.op = "finish" /\ Finishable(sv) /\ sw = [sv EXCEPT !.job = "completed"]

LEMMA AfterServes ==
  ASSUME NEW sv, Sound(sv), NEW m, Proper(sv, m)
  PROVE  Serves(sv, m, After(sv, m))
  <1> DEFINE sw == After(sv, m)
  <1>0. CASE Outcome(sv, m) # "ok" BY <1>0 DEF After, Serves
  <1> SUFFICES ASSUME Outcome(sv, m) = "ok" PROVE Serves(sv, m, sw) BY <1>0
  <1>1. Accepts(sv, m) BY DEF Outcome
  <1>2. CASE m.op = "create" BY <1>1, <1>2 DEF After, Serves
  <1>3. CASE m.op = "part" BY <1>1, <1>3 DEF After, Serves, Accepts
  <1>4. CASE m.op = "complete"
    <2>1. Completable(sv, m.s) /\ ~Taken(sv, m.s) BY <1>1, <1>4 DEF Accepts, Outcome
    <2> QED BY <1>4, <2>1 DEF After, Serves, Completable, Taken
  <1>5. CASE m.op = "upload" BY <1>1, <1>5 DEF After, Serves, Accepts
  <1>6. CASE m.op = "job"
    <2>1. sw = [sv EXCEPT !.job = IF sv.job = "none" THEN "created" ELSE sv.job] BY <1>6 DEF After
    <2>2. CASE sv.job = "none" BY <1>6, <2>1, <2>2 DEF Serves
    <2>3. CASE sv.job # "none" 
      <3>1. sw = sv BY <2>1, <2>3 DEF Sound, Servers
      <3> QED BY <3>1 DEF Serves
    <2> QED BY <2>2, <2>3
  <1>7. CASE m.op = "entries" BY <1>1, <1>7 DEF After, Serves, Accepts
  <1>8. CASE m.op = "manifest" BY <1>1, <1>8 DEF After, Serves, Accepts
  <1>9. CASE m.op = "retry" BY <1>1, <1>9 DEF After, Serves, Accepts
  <1>10. CASE m.op = "file" BY <1>1, <1>10 DEF After, Serves, Accepts
  <1>11. CASE m.op = "result" BY <1>1, <1>11 DEF After, Serves, Accepts
  <1>12. CASE m.op = "finish" BY <1>1, <1>12 DEF After, Serves, Accepts
  <1>13. CASE m.op \notin {"create", "part", "complete", "upload", "job", "entries", "manifest", "retry",
                           "file", "result", "finish"}
    BY <1>13 DEF After, Serves
  <1> QED BY <1>2, <1>3, <1>4, <1>5, <1>6, <1>7, <1>8, <1>9, <1>10, <1>11, <1>12, <1>13

(* One request that is served, field by field. *)
LEMMA ServedIsSound ==
  ASSUME NEW sv, Sound(sv), NEW m, Proper(sv, m), NEW sw, Serves(sv, m, sw)
  PROVE  /\ Sound(sw) /\ Grown(sv, sw)
         /\ m.op # "create" => Fresh(sw) = Fresh(sv)
         /\ m.op = "create" => Fresh(sv) \ {NewSession(sv)} \subseteq Fresh(sw)
  <1> USE DEF Parts
  <1>0. sv \in Servers(sv.size) /\ sv.size \in Nat BY DEF Sound
  <1>1. CASE sw = sv BY <1>1 DEF Grown
  <1>2. CASE m.op = "create" /\ sw = [sv EXCEPT !.session[NewSession(sv)] = IF IsProxy(sv) THEN "proxy" ELSE "open"]
    <2>1. NewSession(sv) \in Sids /\ sv.session[NewSession(sv)] = "none"
      BY <1>2, NewSessionIsFirst DEF Proper, Fresh
    <2>2. /\ sw.session \in [Sids -> Sessions]
          /\ \A s \in Sids : s # NewSession(sv) => sw.session[s] = sv.session[s]
          /\ sw.session[NewSession(sv)] \in {"proxy", "open"}
      BY <1>0, <1>2, <2>1 DEF Servers, Sessions
    <2>3. sw \in Servers(sw.size) /\ sw = [sv EXCEPT !.session = sw.session] BY <1>0, <1>2, <2>2 DEF Servers
    <2>6. /\ sw.size = sv.size /\ sw.parts = sv.parts /\ sw.object = sv.object
          /\ sw.job = sv.job /\ sw.entry = sv.entry /\ sw.stored = sv.stored
          /\ sw.backend = sv.backend /\ sw.writing = sv.writing
      BY <1>0, <2>3 DEF Servers
    <2>4. Sound(sw) BY <2>2, <2>3, <2>6 DEF Sound, Sealed, Listed, Clean
    <2>5. Grown(sv, sw) BY <1>0, <2>1, <2>2, <2>3 DEF Grown, Servers, Known, Sealed
    <2> QED BY <1>2, <2>2, <2>4, <2>5 DEF Fresh
  <1>3. CASE m.op = "part" /\ sw = [sv EXCEPT !.parts[m.s][m.p] = m.bytes, !.writing = @ \ {<<m.s, m.p>>}]
    <2>1. m.s \in Sids /\ m.p \in Parts(sv) /\ m.bytes = PartBytes(sv.size, PartSize, m.p)
      BY <1>3 DEF Proper
    <2>2. m.bytes \in Seq(Int) BY <1>0, <2>1, PartsOfFile
    <2>3. /\ sw.parts \in [Sids -> [1 .. TotalParts(sv.size, PartSize) -> Seq(Int) \union {None}]]
          /\ \A s \in Sids : \A p \in Parts(sv) :
               sw.parts[s][p] = IF s = m.s /\ p = m.p THEN m.bytes ELSE sv.parts[s][p]
          /\ sw.writing \subseteq sv.writing
      BY <1>0, <1>3, <2>1, <2>2 DEF Servers
    <2>4. sw \in Servers(sw.size) /\ sw = [sv EXCEPT !.parts = sw.parts, !.writing = sw.writing]
      BY <1>0, <1>3, <2>3 DEF Servers
    <2>7. /\ sw.size = sv.size /\ sw.session = sv.session /\ sw.object = sv.object
          /\ sw.job = sv.job /\ sw.entry = sv.entry /\ sw.stored = sv.stored /\ sw.backend = sv.backend
      BY <1>0, <2>4 DEF Servers
    <2>8. \A s \in Sids : \A p \in Parts(sw) : sw.parts[s][p] \in {None, PartBytes(sw.size, PartSize, p)}
      BY <2>1, <2>3, <2>7 DEF Sound
    <2>9. ~Clean(sw) => ~Clean(sv) BY <2>3, <2>7 DEF Clean
    <2>5. Sound(sw) BY <2>4, <2>7, <2>8, <2>9 DEF Sound, Sealed, Listed
    <2>6. Grown(sv, sw) BY <1>0, <2>4 DEF Grown, Servers, Known, Sealed
    <2> QED BY <1>0, <1>3, <2>4, <2>5, <2>6 DEF Fresh, Servers
  <1>4. CASE /\ m.op = "complete" /\ sv.session[m.s] = "open" /\ sv.object = None
             /\ \A p \in Parts(sv) : sv.parts[m.s][p] # None
             /\ sw = [sv EXCEPT !.session[m.s] = "completed", !.object = Assembled(sv, m.s)]
    <2>1. m.s \in Sids BY <1>4 DEF Proper
    <2>2. /\ Assembled(sv, m.s) \in {WholeFile(sv.size), Torn}
          /\ sv.writing = {} => Assembled(sv, m.s) = WholeFile(sv.size)
      BY <1>4, <2>1, AssembledIsFile
    <2> HIDE DEF Assembled
    <2>3. /\ sw.session \in [Sids -> Sessions]
          /\ \A s \in Sids : sw.session[s] = IF s = m.s THEN "completed" ELSE sv.session[s]
          /\ sw.object = Assembled(sv, m.s)
      BY <1>0, <1>4, <2>1 DEF Servers, Sessions
    <2>4. sw \in Servers(sw.size) /\ sw = [sv EXCEPT !.session = sw.session, !.object = sw.object]
      BY <1>0, <1>4, <2>2, <2>3 DEF Servers
    <2>7. /\ sw.size = sv.size /\ sw.parts = sv.parts /\ sw.job = sv.job /\ sw.entry = sv.entry
          /\ sw.stored = sv.stored /\ sw.backend = sv.backend /\ sw.writing = sv.writing
      BY <1>0, <2>4 DEF Servers
    <2>8. sw.object # None /\ (~Clean(sw) => ~Clean(sv)) BY <1>0, <2>2, <2>3, <2>7, ObjectsApart DEF Clean
    <2>5. Sound(sw) BY <2>3, <2>4, <2>7, <2>8 DEF Sound, Sealed, Listed
    <2>6. Grown(sv, sw) BY <1>0, <1>4, <2>3, <2>4 DEF Grown, Servers, Known, Sealed
    <2> QED BY <1>0, <1>4, <2>1, <2>3, <2>5, <2>6 DEF Fresh, Servers
  <1>5. CASE m.op = "upload" /\ sv.object = None /\ sw = [sv EXCEPT !.object = Put(sv)]
    <2>1. Put(sv) \in {WholeFile(sv.size), Torn} /\ (sv.writing = {} => Put(sv) = WholeFile(sv.size)) BY PutIsFile
    <2> HIDE DEF Put
    <2>2. sw \in Servers(sw.size) /\ sw = [sv EXCEPT !.object = sw.object] /\ sw.object = Put(sv)
      BY <1>0, <1>5, <2>1 DEF Servers
    <2>3. /\ sw.size = sv.size /\ sw.session = sv.session /\ sw.parts = sv.parts /\ sw.job = sv.job
          /\ sw.entry = sv.entry /\ sw.stored = sv.stored /\ sw.backend = sv.backend /\ sw.writing = sv.writing
      BY <1>0, <2>2 DEF Servers
    <2>4. sw.object # None /\ (~Clean(sw) => ~Clean(sv)) BY <1>0, <2>1, <2>2, <2>3, ObjectsApart DEF Clean
    <2>5. Sound(sw) BY <2>2, <2>3, <2>4 DEF Sound, Sealed, Listed
    <2>6. Grown(sv, sw) BY <1>0, <1>5, <2>2 DEF Grown, Servers, Known, Sealed
    <2> QED BY <1>5, <2>3, <2>5, <2>6 DEF Fresh
  <1>6. ASSUME NEW job \in JobStates, sw = [sv EXCEPT !.job = job], m.op # "create",
               Sealed(sv) => Sealed(sw), Sealed(sw) => Listed(sv) = Paths /\ Paths # {},
               sv.job = "completed" => job = "completed", job = "completed" => sv.stored = Paths
        PROVE  Sound(sw) /\ Grown(sv, sw) /\ Fresh(sw) = Fresh(sv)
    <2>1. sw \in Servers(sw.size) /\ sw.job = job BY <1>0, <1>6 DEF Servers
    <2>2. Sound(sw) BY <1>0, <1>6, <2>1 DEF Sound, Servers, Listed, Clean
    <2>3. Grown(sv, sw) BY <1>0, <1>6, <2>1 DEF Grown, Servers, Known
    <2> QED BY <1>0, <1>6, <2>2, <2>3 DEF Fresh, Servers
  <1>7. CASE m.op = "job" /\ sv.job = "none" /\ sw = [sv EXCEPT !.job = "created"]
    BY <1>0, <1>6, <1>7 DEF Sealed, JobStates, Servers
  <1>8. CASE /\ m.op = "entries" /\ Addable(sv, m.paths)
             /\ sw = [sv EXCEPT !.job = "manifest_uploading",
                                !.entry = [f \in Paths |-> IF f \in m.paths THEN "pending" ELSE @[f]]]
    <2>1. /\ sw.entry \in [Paths -> EntryStates]
          /\ \A f \in Paths : sw.entry[f] = IF f \in m.paths THEN "pending" ELSE sv.entry[f]
          /\ sw.job = "manifest_uploading"
      BY <1>0, <1>8 DEF Servers, EntryStates
    <2>2. sw \in Servers(sw.size) /\ sw = [sv EXCEPT !.job = sw.job, !.entry = sw.entry]
      BY <1>0, <1>8, <2>1 DEF Servers, JobStates
    <2>3. ~Sealed(sv) /\ ~Sealed(sw) BY <1>8, <2>1 DEF Addable, Collecting, Sealed
    <2>4. \A f \in Paths : Known(sv, f) => Known(sw, f)
      BY <1>0, <1>8, <2>1, <2>2 DEF Known, Addable, Listed, Servers
    <2>5. Sound(sw) BY <1>0, <2>1, <2>2, <2>3 DEF Sound, Servers, Clean
    <2>6. Grown(sv, sw) BY <1>0, <2>2, <2>3, <2>4 DEF Grown, Servers, Sealed
    <2> QED BY <1>0, <1>8, <2>2, <2>5, <2>6 DEF Fresh, Servers
  <1>9. CASE m.op = "manifest" /\ ManifestMatches(sv) /\ sw = [sv EXCEPT !.job = "ready"]
    BY <1>0, <1>6, <1>9 DEF Sealed, JobStates, Servers, ManifestMatches, Collecting
  <1>10. CASE m.op = "retry" /\ sv.job = "ready" /\ sw = [sv EXCEPT !.job = "uploading"]
    BY <1>0, <1>6, <1>10 DEF Sealed, JobStates, Servers, Sound
  <1>11. CASE m.op = "file" /\ sw = [sv EXCEPT !.stored = @ \union {m.p}]
    <2>1. m.p \in Paths BY <1>11 DEF Proper
    <2>2. sw \in Servers(sw.size) /\ sw.stored = sv.stored \union {m.p} BY <1>0, <1>11, <2>1 DEF Servers
    <2>3. Sound(sw) BY <1>0, <1>11, <2>1, <2>2 DEF Sound, Servers, Sealed, Listed, Clean
    <2>4. Grown(sv, sw) BY <1>0, <1>11, <2>2 DEF Grown, Servers, Known, Sealed
    <2> QED BY <1>0, <1>11, <2>3, <2>4 DEF Fresh, Servers
  <1>12. CASE m.op = "result" /\ sv.entry[m.p] # "none" /\ sw = [sv EXCEPT !.entry[m.p] = m.status]
    <2>1. m.p \in Paths /\ m.status \in {"uploaded", "failed"} /\ (m.status = "uploaded" => m.p \in sv.stored)
      BY <1>12 DEF Proper
    <2>2. /\ sw.entry \in [Paths -> EntryStates]
          /\ \A f \in Paths : sw.entry[f] = IF f = m.p THEN m.status ELSE sv.entry[f]
      BY <1>0, <1>12, <2>1 DEF Servers, EntryStates
    <2>3. sw \in Servers(sw.size) /\ sw = [sv EXCEPT !.entry = sw.entry] BY <1>0, <1>12, <2>2 DEF Servers
    <2>4. Listed(sw) = Listed(sv) BY <1>12, <2>1, <2>2 DEF Listed
    <2>5. \A f \in Paths : Known(sv, f) => Known(sw, f) BY <1>0, <2>1, <2>2, <2>3 DEF Known, Servers
    <2>6. Sound(sw) BY <1>0, <2>3, <2>4 DEF Sound, Servers, Sealed, Clean
    <2>7. Grown(sv, sw) BY <1>0, <2>3, <2>5 DEF Grown, Servers, Sealed
    <2> QED BY <1>0, <1>12, <2>3, <2>6, <2>7 DEF Fresh, Servers
  <1>13. CASE m.op = "finish" /\ Finishable(sv) /\ sw = [sv EXCEPT !.job = "completed"]
    <2>1. sv.stored = Paths
      <3>1. CASE sv.job = "completed" BY <3>1 DEF Sound
      <3>2. CASE sv.job # "completed"
        <4>1. \A f \in Paths : sv.entry[f] # "failed" /\ Known(sv, f) BY <1>13, <3>2 DEF Finishable, Proper
        <4> QED BY <1>0, <4>1 DEF Known, Servers
      <3> QED BY <3>1, <3>2
    <2>2. Sealed(sv) BY <1>13 DEF Finishable, Sealed
    <2> QED BY <1>0, <1>6, <1>13, <2>1, <2>2 DEF Sealed, JobStates, Servers, Sound
  <1> QED BY <1>1, <1>2, <1>3, <1>4, <1>5, <1>7, <1>8, <1>9, <1>10, <1>11, <1>12, <1>13 DEF Serves

-----------------------------------------------------------------------------
(* The calls. *)

(* The requests the client has given up are as good as those it waits for. *)
LateIsProper == \A m \in late : m.op \notin Forgotten /\ Proper(server, m)

(* What a call does, whatever comes of it. *)
Sent(m) ==
  /\ Serves(server, m, server')
  /\ \A x \in late' : x \in late \/ (x = m /\ m.op \notin Forgotten)

LEMMA ProperForLong ==
  ASSUME NEW sv, NEW sw, Grown(sv, sw), NEW m, m.op # "create", Proper(sv, m)
  PROVE  Proper(sw, m)
BY DEF Proper, Grown, Parts

LEMMA SentIsSound ==
  ASSUME Sound(server), LateIsProper, NEW m, Proper(server, m), Sent(m)
  PROVE  /\ Sound(server)' /\ Grown(server, server') /\ LateIsProper'
         /\ m.op # "create" => Fresh(server)' = Fresh(server)
         /\ m.op = "create" => Fresh(server) \ {NewSession(server)} \subseteq Fresh(server)'
  <1>1. /\ Sound(server') /\ Grown(server, server')
        /\ m.op # "create" => Fresh(server') = Fresh(server)
        /\ m.op = "create" => Fresh(server) \ {NewSession(server)} \subseteq Fresh(server')
    BY ServedIsSound DEF Sent
  <1>2. ASSUME NEW x \in late' PROVE x.op \notin Forgotten /\ Proper(server', x)
    <2>1. x.op \notin Forgotten /\ Proper(server, x) BY <1>2 DEF Sent, LateIsProper
    <2>2. x.op # "create" BY <2>1 DEF Forgotten
    <2> QED BY <1>1, <2>1, <2>2, ProperForLong
  <1>3. LateIsProper' BY <1>2 DEF LateIsProper
  <1> QED BY <1>1, <1>3

(* A call that fails leaves the server alone, for now. *)
LEMMA FailedCall ==
  ASSUME NEW m, NEW n, NEW result, \/ Call(m, n, result) /\ result \in {"refused", "exhausted", "broken"}
                                   \/ Retry(m, n)
  PROVE  server' = server /\ Sent(m)
  <1>1. server' = server /\ \A x \in late' : x \in late \/ (x = m /\ m.op \notin Forgotten)
    BY DEF Call, Retry, Unavailable, GivenUp, UnderWay, After
  <1> QED BY <1>1 DEF Sent, Serves

LEMMA CallSends ==
  ASSUME Sound(server), NEW m, Proper(server, m), NEW n, NEW result, result \in {"ok", "refused", "exhausted", "broken"},
         Call(m, n, result)
  PROVE  Sent(m)
  <1>1. CASE result # "ok" BY <1>1, FailedCall
  <1>2. CASE result = "ok"
    <2>1. server' = After(server, m) /\ late' = late BY <1>2 DEF Call
    <2> QED BY <2>1, AfterServes DEF Sent
  <1> QED BY <1>1, <1>2

(* What an accepted request has done. *)
LEMMA AcceptedCall ==
  ASSUME Sound(server), NEW m, Proper(server, m), NEW n, Call(m, n, "ok")
  PROVE  /\ Accepts(server, m)
         /\ m.op \in {"config", "ids", "range", "stream"} => server' = server
         /\ m.op = "create" /\ ~IsProxy(server) => server'.session[NewSession(server)] = "open"
         /\ m.op = "part" => server'.parts[m.s][m.p] = m.bytes
         /\ m.op = "complete" /\ server.session[m.s] \in {"open", "completed"} => server'.object # None
         /\ m.op = "upload" => server'.object # None
         /\ m.op = "file" => m.p \in server'.stored
         /\ m.op = "manifest" => Sealed(server')
         /\ m.op = "result" => server'.entry[m.p] = m.status
         /\ m.op = "finish" => server'.job = "completed"
  <1>0. server \in Servers(server.size) /\ Outcome(server, m) = "ok" /\ server' = After(server, m)
    BY DEF Sound, Call
  <1>1. Accepts(server, m) BY <1>0 DEF Outcome
  <1>2. CASE m.op \in {"config", "ids", "range", "stream"} BY <1>0, <1>1, <1>2 DEF After
  <1>3. CASE m.op = "create"
    <2>1. NewSession(server) \in Sids BY <1>3, NewSessionIsFirst DEF Proper, Fresh
    <2> QED BY <1>0, <1>1, <1>3, <2>1 DEF After, Servers
  <1>4. CASE m.op = "part" BY <1>0, <1>1, <1>4 DEF After, Servers, Proper, Parts
  <1>5. CASE m.op = "complete"
    <2>1. CASE server.session[m.s] = "completed"
      <3>1. server' = server BY <1>0, <1>5, <2>1 DEF After
      <3> QED BY <1>1, <1>5, <2>1, <3>1 DEF Sound, Proper
    <2>2. CASE server.session[m.s] = "open"
      <3>1. \A p \in Parts(server) : server.parts[m.s][p] # None
        BY <1>1, <1>5, <2>2 DEF Accepts, Completable
      <3>2. Assembled(server, m.s) # None
        <4>1. m.s \in Sids /\ server.size \in Nat BY <1>5 DEF Proper, Sound
        <4>2. Assembled(server, m.s) \in {WholeFile(server.size), Torn} BY <3>1, <4>1, AssembledIsFile
        <4> QED BY <4>1, <4>2, ObjectsApart
      <3>3. server' = [server EXCEPT !.session[m.s] = "completed", !.object = Assembled(server, m.s)]
        BY <1>0, <1>5, <2>2 DEF After
      <3> HIDE DEF Assembled
      <3> QED BY <1>0, <1>1, <1>5, <3>2, <3>3 DEF Servers
    <2> QED BY <1>1, <1>5, <2>1, <2>2
  <1>6. CASE m.op = "upload"
    <2>1. Put(server) # None BY PutIsFile, ObjectsApart DEF Sound
    <2>2. server' = [server EXCEPT !.object = Put(server)] BY <1>0, <1>6 DEF After
    <2> HIDE DEF Put
    <2> QED BY <1>0, <1>1, <1>6, <2>1, <2>2 DEF Servers
  <1>7. CASE m.op = "file" BY <1>0, <1>1, <1>7 DEF After, Servers
  <1>8. CASE m.op = "manifest" BY <1>0, <1>1, <1>8 DEF After, Servers, Sealed
  <1>9. CASE m.op = "result" BY <1>0, <1>1, <1>9 DEF After, Servers, Proper
  <1>10. CASE m.op = "finish" BY <1>0, <1>1, <1>10 DEF After, Servers
  <1> QED BY <1>1, <1>2, <1>3, <1>4, <1>5, <1>6, <1>7, <1>8, <1>9, <1>10

-----------------------------------------------------------------------------
(* What the calling thread knows at each step. *)

(* The step tells what the client is doing. *)
StepsApart ==
  /\ main.at \in FileSteps => main.what = "file"
  /\ main.at \in DirectorySteps => main.what = "directory"
  /\ main.at \in DownloadSteps => main.what = "download"

(* There is a session for each upload that is still to come. *)
SessionsLeft ==
  /\ \A s \in Sids : s > main.run => s \in Fresh(server)
  /\ main.at \in {"config", "create"} => main.run \in Fresh(server)

FileKnown ==
  /\ main.at \in {"parts", "complete"} =>
       main.sid \in Sids /\ server.session[main.sid] \in {"open", "completed"}
  /\ main.at = "parts" => Len(worker) = TotalParts(server.size, PartSize)
  /\ main.at = "returned" /\ main.what = "file" => server.object # None

(* The files before the one at hand are stored, or known to have failed. *)
DirectoryKnown ==
  /\ main.at \in {"retry", "ids", "file", "uploaded", "failed", "finish"} => Sealed(server)
  /\ main.at \in {"file", "uploaded", "failed"} =>
       main.i \in Paths /\ \A f \in 1 .. main.i - 1 : Known(server, f)
  /\ main.at = "uploaded" => main.i \in server.stored
  /\ main.at = "finish" => \A f \in Paths : Known(server, f)
  /\ main.at = "returned" /\ main.what = "directory" => server.job = "completed"

RangeOf(i) == Served(RangeStart(server.size, Len(worker), i), RangeEnd(server.size, Len(worker), i), server.size)

(* A thread that is done has its range in the file. *)
DownloadKnown ==
  /\ main.what = "download" => server.object = WholeFile(server.size)
  /\ main.at = "ranges" =>
       /\ server.size > 0 /\ Len(worker) \in 1 .. server.size
       /\ dest \in [Bytes(server.size) -> Bytes(server.size) \union {Hole}]
       /\ \A i \in DOMAIN worker : worker[i].at = "ok" => \A b \in RangeOf(i) : dest[b] = b
  /\ main.at = "returned" /\ main.what = "download" => dest = [b \in Bytes(server.size) |-> b]

(* The threads of the pool work only while the calling thread waits for them. *)
PoolJoined == main.at \notin {"parts", "ranges"} => Over

Informed == SessionsLeft /\ FileKnown /\ DirectoryKnown /\ DownloadKnown

ClientInv == TypeOK /\ Sound(server) /\ LateIsProper /\ StepsApart /\ PoolJoined /\ Informed

LEMMA TypesOfServer ==
  ASSUME NEW sv, Sound(sv)
  PROVE  /\ sv.size \in Nat /\ sv.job \in JobStates /\ sv.session \in [Sids -> Sessions]
         /\ sv.threshold \in Thresholds \union {LocalThreshold}
         /\ Grown(sv, sv)
BY DEF Sound, Servers, Grown

(* What the client downloads stays. *)
LEMMA ObjectStays ==
  ASSUME NEW sv, NEW sw, Sound(sv), Grown(sv, sw), sv.object = WholeFile(sv.size)
  PROVE  sw.object = WholeFile(sw.size)
BY ObjectsApart, TypesOfServer DEF Grown

LEMMA AttemptsBound ==
  ASSUME NEW op
  PROVE  Attempts(op) \in 1 .. MaxAttempts * MaxAttempts
  <1>1. MaxAttempts \in Nat \ {0} OBVIOUS
  <1>2. MaxAttempts * MaxAttempts \in Nat /\ MaxAttempts <= MaxAttempts * MaxAttempts /\ 1 <= MaxAttempts
    <2>1. 1 * MaxAttempts <= MaxAttempts * MaxAttempts BY <1>1, Monotone
    <2> QED BY <1>1, <2>1, Monotone
  <1> QED BY <1>1, <1>2 DEF Attempts

LEMMA RequestIsProper ==
  ASSUME ClientInv, main.at \notin Ended \union {"parts", "ranges"}
  PROVE  Proper(server, Request)
  <1>1. main.at \in {"config", "create", "complete", "upload", "job", "entries", "manifest", "retry", "ids",
                     "file", "uploaded", "failed", "finish", "probe", "stream"}
    BY DEF ClientInv, TypeOK, Main, FileSteps, DirectorySteps, DownloadSteps
  <1>2. CASE main.at \in {"complete", "create"}
    BY <1>2 DEF ClientInv, Request, Proper, Informed, SessionsLeft, FileKnown
  <1>3. CASE main.at \in {"file", "uploaded", "failed", "finish"}
    BY <1>3 DEF ClientInv, Request, Proper, Informed, DirectoryKnown
  <1>4. CASE main.at \in {"config", "upload", "job", "entries", "manifest", "retry", "ids", "probe", "stream"}
    BY <1>4 DEF Request, Proper
  <1> QED BY <1>1, <1>2, <1>3, <1>4

LEMMA WorkerRequestIsProper ==
  ASSUME ClientInv, main.at \in {"parts", "ranges"}, NEW i \in DOMAIN worker
  PROVE  Proper(server, WorkerRequest(i)) /\ WorkerRequest(i).op \in {"part", "range"}
  <1>1. CASE main.at = "parts"
    <2>1. main.sid \in Sids /\ Len(worker) = TotalParts(server.size, PartSize) /\ worker \in Seq(Worker)
      BY <1>1 DEF ClientInv, Informed, FileKnown, TypeOK
    <2>2. i \in Parts(server) BY <2>1 DEF Parts
    <2> QED BY <1>1, <2>1, <2>2 DEF WorkerRequest, Proper
  <1>2. CASE main.at = "ranges" BY <1>2 DEF WorkerRequest, RangeRequest, Proper
  <1> QED BY <1>1, <1>2

(* Knowledge lasts while the server grows and the thread waits. *)
Waits ==
  /\ main' = [main EXCEPT !.n = main'.n] /\ main'.n \in 1 .. MaxAttempts * MaxAttempts
  /\ worker' \in Seq(Worker) /\ DOMAIN worker' = DOMAIN worker
  /\ \A i \in DOMAIN worker : worker'[i].at = worker[i].at
  /\ cached' = cached /\ dest' = dest /\ faulty' \in BOOLEAN

LEMMA WaitingKeeps ==
  ASSUME ClientInv, Waits, Sound(server)', Grown(server, server'), LateIsProper',
         Fresh(server) \subseteq Fresh(server)'
  PROVE  ClientInv'
  <1>1. /\ main \in Main /\ main' \in Main /\ main'.at = main.at /\ main'.what = main.what /\ main'.i = main.i
        /\ main'.sid = main.sid /\ main'.run = main.run /\ main'.width = main.width
    BY DEF ClientInv, TypeOK, Main, Waits
  <1>2. TypeOK'
    <2>1. server'.size = server.size /\ server'.job \in JobStates /\ server'.session \in [Sids -> Sessions]
      BY TypesOfServer DEF Grown
    <2> QED BY <1>1, <2>1 DEF ClientInv, TypeOK, LateIsProper, JobStates, Sessions, Waits
  <1>3. StepsApart' /\ PoolJoined' BY <1>1 DEF ClientInv, StepsApart, PoolJoined, Over, Waits
  <1>4. SessionsLeft' BY <1>1 DEF ClientInv, Informed, SessionsLeft
  <1>5. Len(worker') = Len(worker) /\ server'.size = server.size
    BY DEF ClientInv, TypeOK, Waits, Grown
  <1>6. FileKnown' BY <1>1, <1>5 DEF ClientInv, Informed, FileKnown, Grown
  <1>7. DirectoryKnown'
    <2>1. main'.i \in Paths => \A f \in 1 .. main'.i - 1 : f \in Paths BY DEF Paths
    <2> QED BY <1>1, <2>1 DEF ClientInv, Informed, DirectoryKnown, Grown
  <1>8. DownloadKnown'
    <2>1. \A i \in DOMAIN worker : RangeOf(i)' = RangeOf(i) BY <1>5 DEF RangeOf
    <2>2. main.what = "download" => server'.object = WholeFile(server'.size)
      BY ObjectStays DEF ClientInv, Informed, DownloadKnown
    <2> QED BY <1>1, <1>5, <2>1, <2>2 DEF ClientInv, Informed, DownloadKnown, Waits
  <1> QED BY <1>2, <1>3, <1>4, <1>6, <1>7, <1>8 DEF ClientInv, Informed

-----------------------------------------------------------------------------
(* The steps.  First the moves of the calling thread from one call to the next. *)

(* What it has to know when it comes to step a with file i. *)
Arrives(a, i) ==
  /\ main' = [main EXCEPT !.at = a, !.n = 1, !.i = i]
  /\ worker' = worker /\ faulty' \in BOOLEAN
  /\ cached' \in (Thresholds \ {0}) \union {LocalThreshold, None}
  /\ dest' = dest \/ dest' \in [Bytes(server.size) -> Bytes(server.size)]
  /\ a \in FileSteps => main.what = "file"
  /\ a \in DirectorySteps => main.what = "directory"
  /\ a \in DownloadSteps => main.what = "download"
  /\ a = "create" => main.run \in Fresh(server)'
  /\ a = "complete" => main.sid \in Sids /\ server'.session[main.sid] \in {"open", "completed"}
  /\ a \in {"retry", "ids", "file", "uploaded", "failed", "finish"} => Sealed(server')
  /\ a \in {"file", "uploaded", "failed"} => i \in Paths /\ \A f \in 1 .. i - 1 : Known(server', f)
  /\ a = "uploaded" => i \in server'.stored
  /\ a = "finish" => \A f \in Paths : Known(server', f)
  /\ a = "returned" =>
       /\ main.what = "file" => server'.object # None
       /\ main.what = "directory" => server'.job = "completed"
       /\ main.what = "download" => dest' = [b \in Bytes(server.size) |-> b]

ServerMoves ==
  /\ Sound(server)' /\ Grown(server, server') /\ LateIsProper'
  /\ \A s \in Sids : s > main.run => s \in Fresh(server)'

LEMMA Moving ==
  ASSUME ClientInv, ServerMoves, Over,
         NEW a \in FileSteps \union DirectorySteps \union DownloadSteps \union Ended, a \notin {"config", "parts", "ranges"},
         NEW i \in Nat, Arrives(a, i)
  PROVE  ClientInv'
  <1>1. /\ main' \in Main /\ main'.at = a /\ main'.what = main.what /\ main'.i = i
        /\ main'.sid = main.sid /\ main'.run = main.run
    <2>1. 1 \in 1 .. MaxAttempts * MaxAttempts BY AttemptsBound
    <2> QED BY <2>1 DEF ClientInv, TypeOK, Main, Arrives
  <1>2. server'.size = server.size /\ server'.job \in JobStates /\ server'.session \in [Sids -> Sessions]
    BY TypesOfServer DEF Grown, ServerMoves
  <1>3. DOMAIN dest' \subseteq Nat /\ \A k \in DOMAIN dest' : dest'[k] \in Bytes(server'.size) \union {Hole}
    <2>1. CASE dest' = dest BY <1>2, <2>1 DEF ClientInv, TypeOK
    <2>2. CASE dest' \in [Bytes(server.size) -> Bytes(server.size)]
      <3>1. Bytes(server.size) \subseteq Nat BY DEF Bytes
      <3> QED BY <1>2, <2>2, <3>1
    <2> QED BY <2>1, <2>2 DEF Arrives
  <1>4. TypeOK'
    BY <1>1, <1>2, <1>3 DEF ClientInv, TypeOK, LateIsProper, JobStates, Sessions, Arrives, ServerMoves
  <1>5. StepsApart' /\ PoolJoined' BY <1>1 DEF StepsApart, PoolJoined, Over, Arrives
  <1>6. SessionsLeft' BY <1>1 DEF SessionsLeft, Arrives, ServerMoves
  <1>7. FileKnown' BY <1>1, <1>2 DEF FileKnown, Arrives
  <1>8. DirectoryKnown' BY <1>1 DEF DirectoryKnown, Arrives
  <1>9. DownloadKnown'
    <2>1. main.what = "download" => server'.object = WholeFile(server'.size)
      BY ObjectStays DEF ClientInv, Informed, DownloadKnown, ServerMoves
    <2> QED BY <1>1, <1>2, <2>1 DEF ClientInv, Informed, DownloadKnown, Arrives
  <1> QED BY <1>4, <1>5, <1>6, <1>7, <1>8, <1>9 DEF ClientInv, Informed, ServerMoves

(* A call of the calling thread, and one of a thread of the pool. *)
LEMMA MainCalls ==
  ASSUME ClientInv, main.at \notin Ended \union {"parts", "ranges"},
         NEW result \in {"ok", "refused", "exhausted", "broken"}, Call(Request, main.n, result)
  PROVE  /\ Sound(server) /\ Proper(server, Request) /\ ServerMoves /\ Over /\ faulty' \in BOOLEAN
         /\ main.at # "create" \/ result # "ok" => Fresh(server)' = Fresh(server)
         /\ result # "ok" => server' = server
         /\ main \in Main
  <1>1. Sound(server) /\ LateIsProper /\ Over /\ main \in Main BY DEF ClientInv, PoolJoined, TypeOK
  <1>2. Proper(server, Request) BY RequestIsProper
  <1>3. Sent(Request) /\ (result # "ok" => server' = server) BY <1>1, <1>2, CallSends, FailedCall
  <1>4. Request.op = "create" <=> main.at = "create" BY DEF Request, Ended
  <1>5. main.at # "create" \/ result # "ok" => Fresh(server)' = Fresh(server)
    BY <1>1, <1>2, <1>3, <1>4, SentIsSound
  <1>6. \A s \in Sids : s > main.run => s \in Fresh(server)'
    <2>1. CASE main.at = "create"
      <3>1. main.run \in Fresh(server) /\ \A s \in Sids : s > main.run => s \in Fresh(server)
        BY <2>1 DEF ClientInv, Informed, SessionsLeft
      <3>2. NewSession(server) \in Sids /\ NewSession(server) <= main.run BY <3>1, NewSessionIsFirst DEF Fresh
      <3>3. main.run \in Nat BY <1>1 DEF Main
      <3>4. Fresh(server) \ {NewSession(server)} \subseteq Fresh(server)'
        BY <1>1, <1>2, <1>3, <1>4, <2>1, SentIsSound
      <3> QED BY <3>1, <3>2, <3>3, <3>4 DEF Sids
    <2>2. CASE main.at # "create" BY <1>5, <2>2 DEF ClientInv, Informed, SessionsLeft
    <2> QED BY <2>1, <2>2
  <1>7. faulty' \in BOOLEAN BY DEF Call, Unavailable, GivenUp, ClientInv, TypeOK
  <1> QED BY <1>1, <1>2, <1>3, <1>5, <1>6, <1>7, SentIsSound DEF ServerMoves

LEMMA WorkerCalls ==
  ASSUME ClientInv, main.at \in {"parts", "ranges"}, NEW i \in DOMAIN worker,
         NEW result \in {"ok", "refused", "exhausted", "broken"}, NEW n, Call(WorkerRequest(i), n, result)
  PROVE  /\ Sound(server) /\ Proper(server, WorkerRequest(i)) /\ ServerMoves /\ faulty' \in BOOLEAN
         /\ Fresh(server)' = Fresh(server)
         /\ result # "ok" => server' = server
  <1>1. Sound(server) /\ LateIsProper BY DEF ClientInv
  <1>2. Proper(server, WorkerRequest(i)) /\ WorkerRequest(i).op # "create" BY WorkerRequestIsProper
  <1>3. Sent(WorkerRequest(i)) /\ (result # "ok" => server' = server) BY <1>1, <1>2, CallSends, FailedCall
  <1>4. Fresh(server)' = Fresh(server) BY <1>1, <1>2, <1>3, SentIsSound
  <1>5. faulty' \in BOOLEAN BY DEF Call, Unavailable, GivenUp, ClientInv, TypeOK
  <1> QED BY <1>1, <1>2, <1>3, <1>4, <1>5, SentIsSound DEF ServerMoves, ClientInv, Informed, SessionsLeft

(* Whatever raises leaves nothing to know. *)
LEMMA Raising ==
  ASSUME ClientInv, ServerMoves, Over, Goes("raised"), worker' = worker, dest' = dest, cached' = cached, faulty' \in BOOLEAN
  PROVE  ClientInv'
  <1>1. main.i \in Nat /\ main \in Main /\ cached \in (Thresholds \ {0}) \union {LocalThreshold, None}
    BY DEF ClientInv, TypeOK, Main
  <1>2. main' = [main EXCEPT !.at = "raised", !.n = 1, !.i = main.i] BY <1>1 DEF Goes, Main
  <1>3. Arrives("raised", main.i) BY <1>1, <1>2 DEF Arrives, FileSteps, DirectorySteps, DownloadSteps
  <1> QED BY <1>1, <1>3, Moving DEF Ended

-----------------------------------------------------------------------------
(* The steps in which the client stays where it is. *)

LEMMA RetryMainKeeps ==
  ASSUME ClientInv, RetryMain
  PROVE  ClientInv'
  <1>1. Proper(server, Request) BY RequestIsProper DEF RetryMain
  <1>2. server' = server /\ Sent(Request) BY FailedCall DEF RetryMain
  <1>3. Sound(server)' /\ Grown(server, server') /\ LateIsProper' BY <1>1, <1>2, SentIsSound DEF ClientInv
  <1>4. faulty' \in BOOLEAN BY DEF RetryMain, Retry, Unavailable, GivenUp, ClientInv, TypeOK
  <1>5. main.n \in Nat /\ 1 <= main.n /\ main.n <= MaxAttempts * MaxAttempts /\ main \in Main
    BY AttemptsBound DEF ClientInv, TypeOK, Main
  <1>6. Attempts(Request.op) \in 1 .. MaxAttempts * MaxAttempts BY AttemptsBound
  <1>7. main' = [main EXCEPT !.n = main'.n] /\ main'.n \in 1 .. MaxAttempts * MaxAttempts
    <2>1. main' = [main EXCEPT !.n = IF main.n < Attempts(Request.op) THEN main.n + 1 ELSE main.n] BY DEF RetryMain
    <2>2. main'.n = IF main.n < Attempts(Request.op) THEN main.n + 1 ELSE main.n BY <1>5, <2>1 DEF Main
    <2>3. main'.n \in 1 .. MaxAttempts * MaxAttempts BY <1>5, <1>6, <2>2
    <2> QED BY <2>1, <2>2, <2>3
  <1>8. Waits BY <1>4, <1>7 DEF Waits, RetryMain, ClientInv, TypeOK
  <1> QED BY <1>2, <1>3, <1>8, WaitingKeeps

LEMMA RetryPartKeeps ==
  ASSUME ClientInv, NEW i \in DOMAIN worker, RetryPart(i)
  PROVE  ClientInv'
  <1>1. Proper(server, WorkerRequest(i)) BY WorkerRequestIsProper DEF RetryPart
  <1>2. server' = server /\ Sent(WorkerRequest(i)) BY FailedCall DEF RetryPart
  <1>3. Sound(server)' /\ Grown(server, server') /\ LateIsProper' BY <1>1, <1>2, SentIsSound DEF ClientInv
  <1>4. faulty' \in BOOLEAN BY DEF RetryPart, Retry, Unavailable, GivenUp, ClientInv, TypeOK
  <1>5. worker \in Seq(Worker) /\ worker[i] \in Worker /\ main.n \in 1 .. MaxAttempts * MaxAttempts /\ main \in Main
    BY DEF ClientInv, TypeOK, Main
  <1>6. Attempts("part") \in 1 .. MaxAttempts * MaxAttempts BY AttemptsBound
  <1>7. PICK n \in 1 .. MaxAttempts * MaxAttempts : worker' = [worker EXCEPT ![i].n = n]
    <2> DEFINE n == IF worker[i].n < Attempts("part") THEN worker[i].n + 1 ELSE worker[i].n
    <2>1. worker[i].n \in 1 .. MaxAttempts * MaxAttempts BY <1>5 DEF Worker
    <2>2. n \in 1 .. MaxAttempts * MaxAttempts BY <1>6, <2>1, AttemptsBound
    <2>3. worker' = [worker EXCEPT ![i].n = n] BY DEF RetryPart
    <2> QED BY <2>2, <2>3
  <1>8. [worker[i] EXCEPT !.n = n] \in Worker /\ [worker[i] EXCEPT !.n = n].at = worker[i].at
    BY <1>5 DEF Worker
  <1>9. /\ worker' \in Seq(Worker) /\ DOMAIN worker' = DOMAIN worker
        /\ \A j \in DOMAIN worker : worker'[j].at = worker[j].at
    BY <1>5, <1>7, <1>8
  <1>10. main' = [main EXCEPT !.n = main'.n] /\ main'.n \in 1 .. MaxAttempts * MaxAttempts
    BY <1>5 DEF RetryPart, Main
  <1>11. Waits BY <1>4, <1>9, <1>10 DEF Waits, RetryPart
  <1> QED BY <1>2, <1>3, <1>11, WaitingKeeps

LEMMA Standing ==
  ASSUME ClientInv, main' = main, worker' = worker, cached' = cached, dest' = dest, faulty' = faulty
  PROVE  Waits
  <1>1. main \in Main /\ worker \in Seq(Worker) /\ faulty \in BOOLEAN BY DEF ClientInv, TypeOK
  <1>2. main = [main EXCEPT !.n = main.n] /\ main.n \in 1 .. MaxAttempts * MaxAttempts BY <1>1 DEF Main
  <1> QED BY <1>1, <1>2 DEF Waits

(* The files that are being written are of no account otherwise. *)
LEMMA WritingIsSound ==
  ASSUME NEW sv, Sound(sv), NEW files \in SUBSET Writings, files \subseteq sv.writing \/ sv.backend = "local",
         NEW sw, sw = [sv EXCEPT !.writing = files]
  PROVE  Sound(sw) /\ Grown(sv, sw) /\ Fresh(sw) = Fresh(sv)
  <1>1. sv \in Servers(sv.size) BY DEF Sound
  <1>2. /\ sw \in Servers(sw.size) /\ sw.size = sv.size /\ sw.backend = sv.backend /\ sw.writing = files
        /\ sw.unsafe = sv.unsafe /\ sw.renamed = sv.renamed /\ sw.object = sv.object
        /\ sw.session = sv.session /\ sw.parts = sv.parts /\ sw.job = sv.job /\ sw.entry = sv.entry
        /\ sw.stored = sv.stored
    BY <1>1 DEF Servers
  <1>3. ~Clean(sw) => sw.backend = "local" BY <1>2 DEF Clean, Sound
  <1>4. Sound(sw) BY <1>2, <1>3 DEF Sound, Sealed, Listed, Parts
  <1> QED BY <1>2, <1>4 DEF Grown, Known, Sealed, Fresh

LEMMA ClosedIsSound ==
  ASSUME NEW sv, Sound(sv), NEW m
  PROVE  Sound(Closed(sv, m)) /\ Grown(sv, Closed(sv, m)) /\ Fresh(Closed(sv, m)) = Fresh(sv)
  <1>1. sv \in Servers(sv.size) BY DEF Sound
  <1>2. CASE m.op \in {"part", "complete", "upload"}
    <2> DEFINE files == sv.writing \ {FileOf(m)}
    <2>1. Closed(sv, m) = [sv EXCEPT !.writing = files] BY <1>2 DEF Closed
    <2>2. files \in SUBSET Writings /\ files \subseteq sv.writing BY <1>1 DEF Servers
    <2> HIDE DEF files
    <2> QED BY <2>1, <2>2, WritingIsSound
  <1>3. CASE m.op \notin {"part", "complete", "upload"}
    <2>1. Closed(sv, m) = sv BY <1>3 DEF Closed
    <2> QED BY <2>1, TypesOfServer
  <1> QED BY <1>2, <1>3

LEMMA OpenedIsSound ==
  ASSUME NEW sv, Sound(sv), NEW m, Proper(sv, m), Opens(sv, m)
  PROVE  Sound(Opened(sv, m)) /\ Grown(sv, Opened(sv, m)) /\ Fresh(Opened(sv, m)) = Fresh(sv)
  <1>1. sv \in Servers(sv.size) BY DEF Sound
  <1> DEFINE files == sv.writing \union {FileOf(m)}
  <1>2. FileOf(m) \in Writings
    <2>1. CASE m.op = "part"
      <3>1. m.s \in Sids /\ m.p \in Nat BY <2>1 DEF Proper, Parts
      <3> QED BY <2>1, <3>1 DEF FileOf, Writings
    <2>2. CASE m.op = "complete" BY <2>2 DEF Proper, FileOf, Writings
    <2>3. CASE m.op = "upload" BY <2>3 DEF FileOf, Writings
    <2> QED BY <2>1, <2>2, <2>3 DEF Opens
  <1>3. files \in SUBSET Writings BY <1>1, <1>2 DEF Servers
  <1>4. Opened(sv, m) = [sv EXCEPT !.writing = files] /\ sv.backend = "local" BY DEF Opened, Opens
  <1> HIDE DEF files
  <1> QED BY <1>3, <1>4, WritingIsSound

LEMMA GrownTwice ==
  ASSUME NEW sv, NEW sw, NEW sx, Grown(sv, sw), Grown(sw, sx)
  PROVE  Grown(sv, sx)
BY DEF Grown

LEMMA LateServed ==
  ASSUME ClientInv, ServeLate
  PROVE  /\ Sound(server') /\ Grown(server, server') /\ Fresh(server') = Fresh(server)
         /\ \E closed, m : /\ Sound(closed) /\ Proper(closed, m) /\ server' = After(closed, m)
                          /\ closed.session = server.session /\ closed.object = server.object
  <1>1. PICK m \in late : server' = After(Closed(server, m), m) BY DEF ServeLate
  <1> DEFINE closed == Closed(server, m)
  <1>2. Proper(server, m) /\ m.op # "create" /\ Sound(server) BY DEF ClientInv, LateIsProper, Forgotten
  <1>3. Sound(closed) /\ Grown(server, closed) /\ Fresh(closed) = Fresh(server) BY <1>2, ClosedIsSound
  <1>4. Proper(closed, m) BY <1>2, <1>3, ProperForLong
  <1>5. closed.session = server.session /\ closed.object = server.object
    BY <1>2 DEF Closed, Sound, Servers
  <1> HIDE DEF closed
  <1>6. Serves(closed, m, server') BY <1>1, <1>3, <1>4, AfterServes DEF closed
  <1>7. Sound(server') /\ Grown(closed, server') /\ Fresh(server') = Fresh(closed)
    BY <1>2, <1>3, <1>4, <1>6, ServedIsSound
  <1>8. server' = After(closed, m) BY <1>1 DEF closed
  <1>9. Grown(server, server') BY <1>3, <1>7, GrownTwice
  <1> QED BY <1>3, <1>4, <1>5, <1>7, <1>8, <1>9

LEMMA ServeLateKeeps ==
  ASSUME ClientInv, ServeLate
  PROVE  ClientInv'
  <1>1. Sound(server') /\ Grown(server, server') /\ Fresh(server') = Fresh(server) BY LateServed
  <1>2. LateIsProper'
    <2>1. ASSUME NEW x \in late' PROVE x.op \notin Forgotten /\ Proper(server', x)
      <3>1. x.op \notin Forgotten /\ Proper(server, x) BY <2>1 DEF ServeLate, LateIsProper, ClientInv
      <3> QED BY <1>1, <3>1, ProperForLong DEF Forgotten
    <2> QED BY <2>1 DEF LateIsProper
  <1>3. Waits BY Standing DEF ServeLate
  <1> QED BY <1>1, <1>2, <1>3, WaitingKeeps

LEMMA OpenLateKeeps ==
  ASSUME ClientInv, OpenLate
  PROVE  ClientInv'
  <1>1. PICK m \in late : Opens(server, m) /\ server' = Opened(server, m) BY DEF OpenLate
  <1>2. late' = late BY DEF OpenLate
  <1>3. Proper(server, m) /\ Sound(server) /\ LateIsProper BY DEF ClientInv, LateIsProper
  <1>4. Sound(server') /\ Grown(server, server') /\ Fresh(server') = Fresh(server)
    BY <1>1, <1>3, OpenedIsSound
  <1>5. LateIsProper'
    <2>1. ASSUME NEW x \in late PROVE x.op \notin Forgotten /\ Proper(server', x)
      BY <1>3, <1>4, <2>1, ProperForLong DEF LateIsProper, Forgotten
    <2> QED BY <1>2, <2>1 DEF LateIsProper
  <1>6. Waits BY Standing DEF OpenLate
  <1> QED BY <1>4, <1>5, <1>6, WaitingKeeps

LEMMA ChangeThresholdKeeps ==
  ASSUME ClientInv, ChangeThreshold
  PROVE  ClientInv'
  <1>1. PICK threshold \in Thresholds : server' = [server EXCEPT !.threshold = threshold] BY DEF ChangeThreshold
  <1>2. server \in Servers(server.size) /\ Sound(server) BY DEF ClientInv, Sound
  <1>3. threshold \in Nat OBVIOUS
  <1>4. /\ server' \in Servers(server.size) /\ server'.size = server.size /\ server'.unsafe = server.unsafe
        /\ server'.renamed = server.renamed /\ server'.backend = server.backend /\ server'.writing = server.writing
        /\ server'.session = server.session /\ server'.parts = server.parts /\ server'.object = server.object
        /\ server'.job = server.job /\ server'.entry = server.entry /\ server'.stored = server.stored
    BY <1>1, <1>2, <1>3 DEF Servers
  <1>5. Sound(server)' BY <1>2, <1>4 DEF Sound, Sealed, Listed, Parts, Clean
  <1>6. Grown(server, server') /\ Fresh(server)' = Fresh(server) BY <1>4 DEF Grown, Known, Sealed, Fresh
  <1>7. LateIsProper'
    <2>1. ASSUME NEW m \in late PROVE m.op \notin Forgotten /\ Proper(server', m)
      BY <1>6, ProperForLong DEF ClientInv, LateIsProper, Forgotten
    <2> QED BY <2>1 DEF LateIsProper, ChangeThreshold
  <1>8. Waits BY Standing DEF ChangeThreshold
  <1> QED BY <1>5, <1>6, <1>7, <1>8, WaitingKeeps

-----------------------------------------------------------------------------
(* A file. *)

LEMMA RaisesKeeps ==
  ASSUME ClientInv, Raises
  PROVE  ClientInv'
  <1>1. main.at \notin Ended \union {"parts", "ranges"} BY DEF Raises
  <1>2. PICK result \in {"refused", "exhausted", "broken"} : Call(Request, main.n, result) BY DEF Raises
  <1>3. ServerMoves /\ Over /\ faulty' \in BOOLEAN BY <1>1, <1>2, MainCalls
  <1> QED BY <1>3, Raising DEF Raises

LEMMA ConfigBreaksKeeps ==
  ASSUME ClientInv, ConfigBreaks
  PROVE  ClientInv'
  <1>1. ServerMoves /\ Over /\ faulty' \in BOOLEAN BY MainCalls DEF ConfigBreaks, Ended
  <1> QED BY <1>1, Raising DEF ConfigBreaks

LEMMA ReadThresholdKeeps ==
  ASSUME ClientInv, ReadThreshold
  PROVE  ClientInv'
  <1>0. main.at = "config" /\ main \in Main /\ main.i \in Nat /\ main.what = "file" /\ Over
    BY DEF ReadThreshold, ClientInv, TypeOK, Main, StepsApart, FileSteps, PoolJoined
  <1>1. /\ ServerMoves /\ faulty' \in BOOLEAN /\ Fresh(server)' = Fresh(server)
        /\ cached' \in (Thresholds \ {0}) \union {LocalThreshold, None}
    <2>1. CASE cached # None /\ UNCHANGED <<server, late, cached, faulty>>
      <3>1. Grown(server, server) BY TypesOfServer DEF ClientInv
      <3> QED BY <2>1, <3>1 DEF ServerMoves, ClientInv, TypeOK, LateIsProper, Informed, SessionsLeft
    <2>2. CASE Call(Request, main.n, "ok") /\ cached' = Resolved(server.threshold)
      <3>1. server.threshold \in Thresholds \union {LocalThreshold} BY DEF ClientInv, Sound, Servers
      <3> QED BY <1>0, <2>2, <3>1, MainCalls DEF Resolved, Ended
    <2>3. CASE Call(Request, main.n, "exhausted") /\ cached' = LocalThreshold
      BY <1>0, <2>3, MainCalls DEF Ended
    <2> QED BY <2>1, <2>2, <2>3 DEF ReadThreshold
  <1>2. PICK a \in {"create", "upload"} : main' = [main EXCEPT !.at = a, !.n = 1]
    BY DEF ReadThreshold, ByThreshold
  <1>3. main' = [main EXCEPT !.at = a, !.n = 1, !.i = main.i] BY <1>0, <1>2 DEF Main
  <1>4. main.run \in Fresh(server)' BY <1>0, <1>1 DEF ClientInv, Informed, SessionsLeft
  <1>5. Arrives(a, main.i)
    BY <1>0, <1>1, <1>3, <1>4 DEF Arrives, ReadThreshold, FileSteps, DirectorySteps, DownloadSteps
  <1> QED BY <1>0, <1>1, <1>5, Moving DEF FileSteps


LEMMA StartedThreads ==
  ASSUME NEW k \in Nat
  PROVE  /\ Started(k) \in Seq(Worker) /\ Len(Started(k)) = k
         /\ \A i \in DOMAIN Started(k) : Started(k)[i].at = "send"
  <1>1. [at |-> "send", n |-> 1] \in Worker BY AttemptsBound DEF Worker
  <1> QED BY <1>1 DEF Started

LEMMA SomeParts ==
  ASSUME NEW size \in Nat
  PROVE  TotalParts(size, PartSize) \in Nat \ {0}
BY TotalPartsFit DEF TotalParts

(* What the pool begins with, and what its threads leave as it is. *)
PoolMoves(a) ==
  /\ main' \in Main /\ main'.at = a /\ main'.what = main.what /\ main'.run = main.run
  /\ worker' \in Seq(Worker) /\ faulty' \in BOOLEAN
  /\ cached' = cached
  /\ DOMAIN dest' \subseteq Nat /\ \A i \in DOMAIN dest' : dest'[i] \in Bytes(server.size) \union {Hole}

LEMMA PoolTypes ==
  ASSUME ClientInv, ServerMoves, NEW a \in {"parts", "ranges"}, PoolMoves(a),
         a = "parts" => main.what = "file", a = "ranges" => main.what = "download"
  PROVE  TypeOK' /\ StepsApart' /\ PoolJoined' /\ SessionsLeft' /\ DirectoryKnown' /\ server'.size = server.size
  <1>1. server'.size = server.size /\ server'.job \in JobStates /\ server'.session \in [Sids -> Sessions]
    BY TypesOfServer DEF Grown, ServerMoves
  <1>2. TypeOK' BY <1>1 DEF ClientInv, TypeOK, LateIsProper, JobStates, Sessions, PoolMoves, ServerMoves
  <1>3. StepsApart' BY DEF StepsApart, PoolMoves, FileSteps, DirectorySteps, DownloadSteps
  <1>4. PoolJoined' /\ SessionsLeft' /\ DirectoryKnown'
    BY DEF PoolJoined, SessionsLeft, DirectoryKnown, PoolMoves, ServerMoves
  <1> QED BY <1>1, <1>2, <1>3, <1>4

LEMMA CreateUploadKeeps ==
  ASSUME ClientInv, CreateUpload
  PROVE  ClientInv'
  <1>1. main.at = "create" /\ Call(Request, main.n, "ok") BY DEF CreateUpload, Does
  <1>2. main.what = "file" /\ main.sid \in Sids \union {None} /\ worker \in Seq(Worker) /\ server.size \in Nat
    BY <1>1, TypesOfServer DEF ClientInv, StepsApart, FileSteps, TypeOK, Main
  <1>3. Sound(server) /\ Proper(server, Request) /\ ServerMoves /\ faulty' \in BOOLEAN /\ main \in Main
    BY <1>1, MainCalls DEF Ended
  <1>4. Request = [op |-> "create"] BY <1>1 DEF Request
  <1>5. NewSession(server) \in Sids BY <1>3, <1>4, NewSessionIsFirst DEF Proper, Fresh
  <1>6. ~IsProxy(server) => server'.session[NewSession(server)] = "open" BY <1>1, <1>3, <1>4, AcceptedCall
  <1>7. PICK a \in {"upload", "parts"} : /\ a = "parts" <=> ~IsProxy(server)
                                         /\ main' = [main EXCEPT !.at = a, !.n = 1, !.sid = NewSession(server)]
    BY DEF CreateUpload
  <1>8. 1 \in 1 .. MaxAttempts * MaxAttempts BY AttemptsBound
  <1>9. /\ main' \in Main /\ main'.at = a /\ main'.what = main.what /\ main'.run = main.run
        /\ main'.sid = NewSession(server)
    BY <1>3, <1>5, <1>7, <1>8 DEF Main, FileSteps
  <1>10. CASE a = "parts"
    <2>1. worker' = Started(TotalParts(server.size, PartSize)) BY <1>7, <1>10 DEF CreateUpload
    <2>2. worker' \in Seq(Worker) /\ Len(worker') = TotalParts(server.size, PartSize)
      BY <1>2, <2>1, SomeParts, StartedThreads
    <2>3. PoolMoves("parts")
      BY <1>3, <1>9, <1>10, <2>2 DEF PoolMoves, CreateUpload, ClientInv, TypeOK
    <2>4. /\ TypeOK' /\ StepsApart' /\ PoolJoined' /\ SessionsLeft' /\ DirectoryKnown'
          /\ server'.size = server.size
      BY <1>2, <1>3, <2>3, PoolTypes
    <2>5. FileKnown' BY <1>5, <1>6, <1>7, <1>9, <1>10, <2>2, <2>4 DEF FileKnown
    <2>6. DownloadKnown' BY <1>2, <1>9, <1>10 DEF DownloadKnown
    <2> QED BY <1>3, <2>4, <2>5, <2>6 DEF ClientInv, Informed, ServerMoves
  <1>11. CASE a = "upload"
    <2>1. worker' = <<>> BY <1>7, <1>11 DEF CreateUpload, NoWorkers
    <2>2. worker' \in Seq(Worker) /\ DOMAIN worker' = {} BY <2>1
    <2>3. server'.size = server.size /\ server'.job \in JobStates /\ server'.session \in [Sids -> Sessions]
      BY <1>3, TypesOfServer DEF Grown, ServerMoves
    <2>4. TypeOK'
      BY <1>3, <1>9, <2>2, <2>3 DEF ClientInv, TypeOK, LateIsProper, JobStates, Sessions, CreateUpload, ServerMoves
    <2>5. StepsApart' /\ SessionsLeft' /\ FileKnown' /\ DirectoryKnown' /\ DownloadKnown'
      BY <1>2, <1>3, <1>9, <1>11
      DEF StepsApart, SessionsLeft, FileKnown, DirectoryKnown, DownloadKnown, ServerMoves,
          FileSteps, DirectorySteps, DownloadSteps
    <2>6. PoolJoined' BY <2>2 DEF PoolJoined, Over
    <2> QED BY <1>3, <2>4, <2>5, <2>6 DEF ClientInv, Informed, ServerMoves
  <1> QED BY <1>10, <1>11

(* A thread of the pool ends. *)
LEMMA ThreadEnds ==
  ASSUME ClientInv, NEW i \in DOMAIN worker, NEW at \in {"ok", "failed"}, worker' = [worker EXCEPT ![i].at = at]
  PROVE  /\ worker' \in Seq(Worker) /\ Len(worker') = Len(worker) /\ DOMAIN worker' = DOMAIN worker
         /\ \A j \in DOMAIN worker : worker'[j].at = IF j = i THEN at ELSE worker[j].at
  <1>1. worker \in Seq(Worker) /\ worker[i] \in Worker BY DEF ClientInv, TypeOK
  <1>2. [worker[i] EXCEPT !.at = at] \in Worker /\ [worker[i] EXCEPT !.at = at].at = at BY <1>1 DEF Worker
  <1>3. worker' = [worker EXCEPT ![i] = [worker[i] EXCEPT !.at = at]] OBVIOUS
  <1> QED BY <1>1, <1>2, <1>3

LEMMA PartSentKeeps ==
  ASSUME ClientInv, NEW i \in DOMAIN worker, PartSent(i)
  PROVE  ClientInv'
  <1>1. main.at = "parts" /\ main \in Main /\ main.what = "file"
    BY DEF PartSent, ClientInv, TypeOK, StepsApart, FileSteps
  <1>2. PICK result \in {"ok", "refused", "exhausted", "broken"} :
          /\ Call(WorkerRequest(i), worker[i].n, result)
          /\ worker' = [worker EXCEPT ![i].at = IF result = "ok" THEN "ok" ELSE "failed"]
    BY DEF PartSent
  <1>3. ServerMoves /\ faulty' \in BOOLEAN BY <1>1, <1>2, WorkerCalls
  <1>4. worker' \in Seq(Worker) /\ Len(worker') = Len(worker) BY <1>2, ThreadEnds
  <1>5. PoolMoves("parts") BY <1>1, <1>3, <1>4 DEF PoolMoves, PartSent, ClientInv, TypeOK
  <1>6. TypeOK' /\ StepsApart' /\ PoolJoined' /\ SessionsLeft' /\ DirectoryKnown' /\ server'.size = server.size
    BY <1>1, <1>3, <1>5, PoolTypes
  <1>7. FileKnown' BY <1>1, <1>3, <1>4, <1>6 DEF FileKnown, ClientInv, Informed, PartSent, ServerMoves, Grown
  <1>8. DownloadKnown' BY <1>1 DEF DownloadKnown, PartSent
  <1> QED BY <1>3, <1>6, <1>7, <1>8 DEF ClientInv, Informed, ServerMoves

(* When nothing is sent the server stays. *)
LEMMA Unmoved ==
  ASSUME ClientInv, server' = server, late' = late
  PROVE  ServerMoves /\ Fresh(server)' = Fresh(server)
BY TypesOfServer DEF ServerMoves, ClientInv, LateIsProper, Informed, SessionsLeft

LEMMA JoinPartsKeeps ==
  ASSUME ClientInv, JoinParts
  PROVE  ClientInv'
  <1>1. main.at = "parts" /\ Over /\ ServerMoves BY Unmoved DEF JoinParts
  <1>2. CASE Goes("raised") BY <1>1, <1>2, Raising DEF JoinParts, ClientInv, TypeOK
  <1>3. CASE Goes("complete")
    <2>1. main.i \in Nat /\ main \in Main /\ main.what = "file"
      BY <1>1 DEF ClientInv, TypeOK, Main, StepsApart, FileSteps
    <2>2. main' = [main EXCEPT !.at = "complete", !.n = 1, !.i = main.i] BY <1>3, <2>1 DEF Goes, Main
    <2>3. Arrives("complete", main.i)
      BY <1>1, <2>1, <2>2
      DEF Arrives, JoinParts, ClientInv, TypeOK, Informed, FileKnown, FileSteps, DirectorySteps, DownloadSteps
    <2> QED BY <1>1, <2>1, <2>3, Moving DEF FileSteps
  <1> QED BY <1>2, <1>3 DEF JoinParts

LEMMA StoredKeeps ==
  ASSUME ClientInv, CompleteUpload \/ UploadFile
  PROVE  ClientInv'
  <1>1. main.at \in {"complete", "upload"} /\ Call(Request, main.n, "ok") /\ Goes("returned")
    BY DEF CompleteUpload, UploadFile, Does
  <1>2. /\ Sound(server) /\ Proper(server, Request) /\ ServerMoves /\ Over /\ faulty' \in BOOLEAN /\ main \in Main
        /\ main.i \in Nat /\ main.what = "file"
    BY <1>1, MainCalls DEF Ended, ClientInv, TypeOK, Main, StepsApart, FileSteps
  <1>3. server'.object # None /\ server'.size = server.size
    <2>1. CASE main.at = "complete"
      <3>1. Request = [op |-> "complete", s |-> main.sid] BY <2>1 DEF Request
      <3>2. server.session[main.sid] \in {"open", "completed"} BY <2>1 DEF ClientInv, Informed, FileKnown
      <3> QED BY <1>1, <1>2, <3>1, <3>2, AcceptedCall DEF ServerMoves, Grown
    <2>2. CASE main.at = "upload"
      <3>1. Request = [op |-> "upload"] BY <2>2 DEF Request
      <3> QED BY <1>1, <1>2, <3>1, AcceptedCall DEF ServerMoves, Grown
    <2> QED BY <1>1, <2>1, <2>2
  <1>4. main' = [main EXCEPT !.at = "returned", !.n = 1, !.i = main.i] BY <1>1, <1>2 DEF Goes, Main
  <1>5. Arrives("returned", main.i)
    BY <1>2, <1>3, <1>4
    DEF Arrives, CompleteUpload, UploadFile, ClientInv, TypeOK, FileSteps, DirectorySteps, DownloadSteps
  <1> QED BY <1>2, <1>5, Moving DEF Ended

LEMMA AgainKeeps ==
  ASSUME ClientInv, Again
  PROVE  ClientInv'
  <1>1. main.at = "raised" /\ main.what = "file" /\ main.run < MaxRuns /\ main \in Main /\ ServerMoves
    BY Unmoved DEF Again, ClientInv, TypeOK
  <1>2. 1 \in 1 .. MaxAttempts * MaxAttempts BY AttemptsBound
  <1>3. main.run + 1 \in 1 .. MaxRuns /\ main.run \in Nat BY <1>1 DEF Main
  <1>4. main' = [main EXCEPT !.at = "config", !.n = 1, !.sid = None, !.run = main.run + 1] BY DEF Again
  <1>5. main' \in Main /\ main'.at = "config" /\ main'.what = "file" /\ main'.run = main.run + 1
    BY <1>1, <1>2, <1>3, <1>4 DEF Main, FileSteps
  <1>6. worker' = <<>> /\ server' = server BY DEF Again, NoWorkers
  <1>7. TypeOK' BY <1>5, <1>6 DEF ClientInv, TypeOK, Again
  <1>8. StepsApart' /\ FileKnown' /\ DirectoryKnown' /\ DownloadKnown'
    BY <1>5 DEF StepsApart, FileKnown, DirectoryKnown, DownloadKnown, FileSteps, DirectorySteps, DownloadSteps
  <1>9. PoolJoined' BY <1>6 DEF PoolJoined, Over
  <1>10. SessionsLeft'
    <2>1. main.run + 1 \in Sids BY <1>3 DEF Sids
    <2> QED BY <1>3, <1>5, <1>6, <2>1 DEF SessionsLeft, ClientInv, Informed, Sids
  <1> QED BY <1>1, <1>7, <1>8, <1>9, <1>10 DEF ClientInv, Informed, ServerMoves


-----------------------------------------------------------------------------
(* A directory. *)

LEMMA AllFiles == Cardinality(Paths) = MaxFiles
  <1>1. MaxFiles \in Nat OBVIOUS
  <1>2. 1 \in Int /\ MaxFiles \in Int BY <1>1
  <1>3. Cardinality(1 .. MaxFiles) = IF 1 > MaxFiles THEN 0 ELSE MaxFiles - 1 + 1 BY <1>2, FS_Interval
  <1> QED BY <1>1, <1>3 DEF Paths

LEMMA PrepareJobKeeps ==
  ASSUME ClientInv, PrepareJob
  PROVE  ClientInv'
  <1>1. main.at \in {"job", "entries", "manifest", "retry", "ids"} /\ Call(Request, main.n, "ok") BY DEF PrepareJob
  <1>2. /\ Sound(server) /\ Proper(server, Request) /\ ServerMoves /\ Over /\ faulty' \in BOOLEAN /\ main \in Main
        /\ main.i \in Nat /\ main.what = "directory"
    BY <1>1, MainCalls DEF Ended, ClientInv, TypeOK, Main, StepsApart, DirectorySteps
  <1>3. PICK i \in Nat : /\ main' = [main EXCEPT !.at = NextStep, !.n = 1, !.i = i]
                         /\ NextStep # main.at => i = 1
    <2> DEFINE i == IF NextStep = main.at THEN main.i + 1 ELSE 1
    <2>1. i \in Nat BY <1>2
    <2>2. main' = [main EXCEPT !.at = NextStep, !.n = 1, !.i = i] BY DEF PrepareJob
    <2> QED BY <2>1, <2>2
  <1>4. /\ NextStep \in {"entries", "manifest", "retry", "ids", "file"}
        /\ NextStep \in {"retry", "ids", "file"} => main.at \in {"manifest", "retry", "ids"}
        /\ NextStep = "file" => i = 1
    BY <1>1, <1>3 DEF NextStep
  <1>5. main.at \in {"manifest", "retry", "ids"} => Sealed(server')
    <2>1. CASE main.at = "manifest"
      <3>1. Request = [op |-> "manifest"] BY <2>1 DEF Request
      <3> QED BY <1>1, <1>2, <3>1, AcceptedCall
    <2>2. CASE main.at \in {"retry", "ids"}
      BY <1>2, <2>2 DEF ClientInv, Informed, DirectoryKnown, ServerMoves, Grown
    <2> QED BY <2>1, <2>2
  <1>6. NextStep = "file" => 1 \in Paths
    <2>1. NextStep = "file" => Sealed(server') /\ Sound(server') BY <1>2, <1>4, <1>5 DEF ServerMoves
    <2> QED BY <2>1 DEF Sound, Paths
  <1>7. Arrives(NextStep, i)
    BY <1>2, <1>3, <1>4, <1>5, <1>6
    DEF Arrives, PrepareJob, ClientInv, TypeOK, FileSteps, DirectorySteps, DownloadSteps
  <1> QED BY <1>2, <1>4, <1>7, Moving DEF DirectorySteps

(* What is known of the files lasts. *)
LEMMA FilesKnownForLong ==
  ASSUME ClientInv, ServerMoves, main.at \in {"file", "uploaded", "failed"}
  PROVE  /\ Sealed(server') /\ main.i \in Paths /\ \A f \in 1 .. main.i - 1 : Known(server', f)
         /\ main.at = "uploaded" => main.i \in server'.stored
  <1>1. main.i \in Paths /\ \A f \in 1 .. main.i - 1 : f \in Paths /\ Known(server, f)
    BY DEF ClientInv, Informed, DirectoryKnown, Paths
  <1> QED BY <1>1 DEF ClientInv, Informed, DirectoryKnown, ServerMoves, Grown

LEMMA StoreFileKeeps ==
  ASSUME ClientInv, StoreFile
  PROVE  ClientInv'
  <1>1. /\ main.at = "file" /\ Over /\ main \in Main /\ main.i \in Nat /\ main.what = "directory"
        /\ Request = [op |-> "file", p |-> main.i]
    BY DEF StoreFile, ClientInv, PoolJoined, TypeOK, Main, StepsApart, DirectorySteps, Request
  <1>2. ServerMoves /\ faulty' \in BOOLEAN
    <2>1. CASE \E result \in {"ok", "refused", "exhausted", "broken"} : Call(Request, main.n, result)
      BY <1>1, <2>1, MainCalls DEF Ended
    <2>2. CASE faulty' \in {TRUE, faulty} /\ UNCHANGED <<server, late>>
      BY <2>2, Unmoved DEF ClientInv, TypeOK
    <2> QED BY <2>1, <2>2 DEF StoreFile
  <1>3. CASE Goes("raised") BY <1>1, <1>2, <1>3, Raising DEF StoreFile
  <1>4. ASSUME NEW a \in {"uploaded", "failed"}, Goes(a), a = "uploaded" => main.i \in server'.stored
        PROVE  ClientInv'
    <2>1. main' = [main EXCEPT !.at = a, !.n = 1, !.i = main.i] BY <1>1, <1>4 DEF Goes, Main
    <2>2. Arrives(a, main.i)
      BY <1>1, <1>2, <1>4, <2>1, FilesKnownForLong
      DEF Arrives, StoreFile, ClientInv, TypeOK, FileSteps, DirectorySteps, DownloadSteps
    <2> QED BY <1>1, <1>2, <2>2, Moving DEF DirectorySteps
  <1>5. CASE Call(Request, main.n, "ok") /\ Goes("uploaded")
    <2>1. Sound(server) /\ Proper(server, Request) BY <1>1, RequestIsProper DEF ClientInv, Ended
    <2>2. main.i \in server'.stored BY <1>1, <1>5, <2>1, AcceptedCall
    <2> QED BY <1>4, <1>5, <2>2
  <1>6. CASE Goes("failed") BY <1>4, <1>6
  <1> QED BY <1>3, <1>5, <1>6 DEF StoreFile

(* After the result of a file, the next file, or the end of the job. *)
LEMMA NextFileKeeps ==
  ASSUME ClientInv, main.at \in {"uploaded", "failed"}, ServerMoves, Known(server', main.i), NextFile,
         worker' = worker, dest' = dest, cached' = cached, faulty' \in BOOLEAN
  PROVE  ClientInv'
  <1>1. main \in Main /\ main.i \in Nat /\ main.what = "directory" /\ Over
    BY DEF ClientInv, PoolJoined, TypeOK, Main, StepsApart, DirectorySteps
  <1>2. Sealed(server') /\ main.i \in Paths /\ \A f \in 1 .. main.i - 1 : Known(server', f) BY FilesKnownForLong
  <1>3. \A f \in 1 .. main.i : Known(server', f) BY <1>1, <1>2
  <1>4. CASE main.i < Cardinality(Paths)
    <2>1. main' = [main EXCEPT !.at = "file", !.n = 1, !.i = main.i + 1] BY <1>4 DEF NextFile
    <2>2. main.i + 1 \in Paths /\ main.i + 1 \in Nat /\ main.i + 1 - 1 = main.i BY <1>1, <1>4, AllFiles DEF Paths
    <2>3. Arrives("file", main.i + 1)
      BY <1>1, <1>2, <1>3, <2>1, <2>2 DEF Arrives, ClientInv, TypeOK, FileSteps, DirectorySteps, DownloadSteps
    <2> QED BY <1>1, <2>2, <2>3, Moving DEF DirectorySteps
  <1>5. CASE ~(main.i < Cardinality(Paths))
    <2>1. main' = [main EXCEPT !.at = "finish", !.n = 1, !.i = main.i] BY <1>1, <1>5 DEF NextFile, Main
    <2>2. \A f \in Paths : Known(server', f) BY <1>1, <1>2, <1>3, <1>5, AllFiles DEF Paths
    <2>3. Arrives("finish", main.i)
      BY <1>1, <1>2, <2>1, <2>2 DEF Arrives, ClientInv, TypeOK, FileSteps, DirectorySteps, DownloadSteps
    <2> QED BY <1>1, <2>3, Moving DEF DirectorySteps
  <1> QED BY <1>4, <1>5

LEMMA ReportUploadedKeeps ==
  ASSUME ClientInv, ReportUploaded
  PROVE  ClientInv'
  <1>1. /\ main.at = "uploaded" /\ Over /\ main \in Main /\ main.i \in Nat /\ main.what = "directory"
    BY DEF ReportUploaded, ClientInv, PoolJoined, TypeOK, Main, StepsApart, DirectorySteps
  <1>2. ServerMoves /\ faulty' \in BOOLEAN BY <1>1, MainCalls DEF ReportUploaded, Ended
  <1>3. Sealed(server') /\ main.i \in Paths /\ main.i \in server'.stored /\ \A f \in 1 .. main.i - 1 : Known(server', f)
    BY <1>1, <1>2, FilesKnownForLong
  <1>4. CASE NextFile BY <1>1, <1>2, <1>3, <1>4, NextFileKeeps DEF Known, ReportUploaded
  <1>5. CASE Goes("failed")
    <2>1. main' = [main EXCEPT !.at = "failed", !.n = 1, !.i = main.i] BY <1>1, <1>5 DEF Goes, Main
    <2>2. Arrives("failed", main.i)
      BY <1>1, <1>2, <1>3, <2>1
      DEF Arrives, ReportUploaded, ClientInv, TypeOK, FileSteps, DirectorySteps, DownloadSteps
    <2> QED BY <1>1, <1>2, <2>2, Moving DEF DirectorySteps
  <1>6. CASE Goes("raised") BY <1>1, <1>2, <1>6, Raising DEF ReportUploaded
  <1> QED BY <1>4, <1>5, <1>6 DEF ReportUploaded

(* A sealed job lists every file, so that the result cannot be refused. *)
LEMMA ReportFailedKeeps ==
  ASSUME ClientInv, ReportFailed
  PROVE  ClientInv'
  <1>1. /\ main.at = "failed" /\ main.i \in Paths /\ Sealed(server)
        /\ Request = [op |-> "result", p |-> main.i, status |-> "failed", n |-> main.n]
    BY DEF ReportFailed, ClientInv, Informed, DirectoryKnown, Request
  <1>2. PICK result \in {"ok", "refused"} : Call(Request, main.n, result) BY DEF ReportFailed
  <1>3. Sound(server) /\ Proper(server, Request) /\ ServerMoves /\ faulty' \in BOOLEAN
    BY <1>1, <1>2, MainCalls DEF Ended
  <1>4. Outcome(server, Request) = "ok"
    <2>1. server.entry[main.i] # "none" BY <1>1, <1>3 DEF Sound, Listed
    <2> QED BY <1>1, <2>1 DEF Outcome, Accepts
  <1>5. result = "ok" BY <1>2, <1>4 DEF Call
  <1>6. Known(server', main.i) BY <1>1, <1>2, <1>3, <1>5, AcceptedCall DEF Known
  <1> QED BY <1>1, <1>3, <1>6, NextFileKeeps DEF ReportFailed

LEMMA FinishJobKeeps ==
  ASSUME ClientInv, FinishJob
  PROVE  ClientInv'
  <1>1. main.at = "finish" /\ Call(Request, main.n, "ok") /\ Goes("returned") /\ Request = [op |-> "finish"]
    BY DEF FinishJob, Does, Request
  <1>2. /\ Sound(server) /\ Proper(server, Request) /\ ServerMoves /\ Over /\ faulty' \in BOOLEAN /\ main \in Main
        /\ main.i \in Nat /\ main.what = "directory"
    BY <1>1, MainCalls DEF Ended, ClientInv, TypeOK, Main, StepsApart, DirectorySteps
  <1>3. server'.job = "completed" BY <1>1, <1>2, AcceptedCall
  <1>4. main' = [main EXCEPT !.at = "returned", !.n = 1, !.i = main.i] BY <1>1, <1>2 DEF Goes, Main
  <1>5. Arrives("returned", main.i)
    BY <1>2, <1>3, <1>4
    DEF Arrives, FinishJob, ClientInv, TypeOK, FileSteps, DirectorySteps, DownloadSteps
  <1> QED BY <1>2, <1>5, Moving DEF Ended

-----------------------------------------------------------------------------
(* A download. *)

LEMMA StreamKeeps ==
  ASSUME ClientInv, Stream
  PROVE  ClientInv'
  <1>1. main.at = "stream" /\ Call(Request, main.n, "ok") /\ Goes("returned") BY DEF Stream, Does
  <1>2. /\ ServerMoves /\ Over /\ faulty' \in BOOLEAN /\ main \in Main
        /\ main.i \in Nat /\ main.what = "download" /\ server.size \in Nat
    BY <1>1, MainCalls, TypesOfServer DEF Ended, ClientInv, TypeOK, Main, StepsApart, DownloadSteps
  <1>3. dest' = [b \in Bytes(server.size) |-> b]
    <2>1. server.object = [i \in 1 .. server.size |-> i - 1]
      BY <1>2 DEF ClientInv, Informed, DownloadKnown, WholeFile
    <2>2. \A b \in Bytes(server.size) : server.object[b + 1] = b BY <1>2, <2>1 DEF Bytes
    <2> QED BY <2>2 DEF Stream
  <1>4. main' = [main EXCEPT !.at = "returned", !.n = 1, !.i = main.i] BY <1>1, <1>2 DEF Goes, Main
  <1>5. Arrives("returned", main.i)
    BY <1>2, <1>3, <1>4 DEF Arrives, Stream, ClientInv, TypeOK, FileSteps, DirectorySteps, DownloadSteps
  <1> QED BY <1>2, <1>5, Moving DEF Ended

LEMMA ProbeKeeps ==
  ASSUME ClientInv, Probe
  PROVE  ClientInv'
  <1>1. main.at = "probe" /\ Call(Request, main.n, "ok") /\ Request = [op |-> "range", first |-> 0, last |-> 0]
    BY DEF Probe, Does, Request
  <1>2. /\ ServerMoves /\ Over /\ faulty' \in BOOLEAN /\ main \in Main /\ Sound(server) /\ Proper(server, Request)
        /\ main.what = "download" /\ server.size \in Nat
    BY <1>1, MainCalls, TypesOfServer DEF Ended, ClientInv, TypeOK, Main, StepsApart, DownloadSteps
  <1>3. server.size > 0
    <2>1. Accepts(server, Request) BY <1>1, <1>2, AcceptedCall
    <2> QED BY <1>1, <2>1 DEF Accepts, Satisfiable
  <1>4. 1 \in 1 .. MaxAttempts * MaxAttempts BY AttemptsBound
  <1>5. main' = [main EXCEPT !.at = "ranges", !.n = 1]
    <2>1. server.size # 0 BY <1>2, <1>3
    <2>2. (IF server.size = 0 THEN "returned" ELSE "ranges") = "ranges" BY <2>1
    <2>3. Goes("ranges") BY <2>2 DEF Probe
    <2> QED BY <2>3 DEF Goes
  <1>6. Least(main.width, server.size) \in 1 .. server.size
    <2>1. main.width \in Concurrency \union {1} BY <1>2 DEF Main
    <2>2. \A k \in Concurrency \union {1} : k \in Nat \ {0} OBVIOUS
    <2>3. main.width \in Nat \ {0} BY <2>1, <2>2
    <2> QED BY <1>2, <1>3, <2>3 DEF Least
  <1>7. /\ worker' \in Seq(Worker) /\ Len(worker') \in 1 .. server.size
        /\ \A i \in DOMAIN worker' : worker'[i].at = "send"
    BY <1>6, StartedThreads DEF Probe
  <1>8. dest' \in [Bytes(server.size) -> {Hole}] BY DEF Probe
  <1>9. PoolMoves("ranges")
    <2>1. Bytes(server.size) \subseteq Nat BY <1>2 DEF Bytes
    <2>2. /\ main' \in Main /\ main'.at = "ranges" /\ main'.what = main.what /\ main'.run = main.run
      BY <1>2, <1>4, <1>5 DEF Main, DownloadSteps
    <2> QED BY <1>2, <1>7, <1>8, <2>1, <2>2 DEF PoolMoves, Probe
  <1>10. TypeOK' /\ StepsApart' /\ PoolJoined' /\ SessionsLeft' /\ DirectoryKnown' /\ server'.size = server.size
    BY <1>2, <1>9, PoolTypes
  <1>11. FileKnown' BY <1>9 DEF FileKnown, PoolMoves
  <1>12. DownloadKnown'
    <2>1. server'.object = WholeFile(server'.size)
      BY <1>2, ObjectStays DEF ClientInv, Informed, DownloadKnown, ServerMoves
    <2> QED BY <1>2, <1>3, <1>7, <1>8, <1>9, <1>10, <2>1 DEF DownloadKnown, PoolMoves
  <1> QED BY <1>2, <1>10, <1>11, <1>12 DEF ClientInv, Informed, ServerMoves

LEMMA RangeReadKeeps ==
  ASSUME ClientInv, NEW i \in DOMAIN worker, RangeRead(i)
  PROVE  ClientInv'
  <1>1. main.at = "ranges" /\ main \in Main /\ main.what = "download" /\ server.size \in Nat
    BY TypesOfServer DEF RangeRead, ClientInv, TypeOK, StepsApart, DownloadSteps
  <1>2. PICK result \in {"ok", "refused", "exhausted", "broken"} :
          /\ Call(RangeRequest(i), 1, result)
          /\ worker' = [worker EXCEPT ![i].at = IF result = "ok" THEN "ok" ELSE "failed"]
          /\ dest' = IF result = "ok" THEN Written(RangeRequest(i)) ELSE dest
    BY DEF RangeRead
  <1>3. WorkerRequest(i) = RangeRequest(i) BY <1>1 DEF WorkerRequest
  <1>4. ServerMoves /\ faulty' \in BOOLEAN BY <1>1, <1>2, <1>3, WorkerCalls
  <1>5. /\ worker' \in Seq(Worker) /\ Len(worker') = Len(worker) /\ DOMAIN worker' = DOMAIN worker
        /\ \A j \in DOMAIN worker : worker'[j].at = IF j = i THEN IF result = "ok" THEN "ok" ELSE "failed" ELSE worker[j].at
    BY <1>2, ThreadEnds
  <1>6. /\ server.object = [k \in 1 .. server.size |-> k - 1]
        /\ server.size > 0 /\ Len(worker) \in 1 .. server.size
        /\ dest \in [Bytes(server.size) -> Bytes(server.size) \union {Hole}]
        /\ \A j \in DOMAIN worker : worker[j].at = "ok" => \A b \in RangeOf(j) : dest[b] = b
    BY <1>1 DEF ClientInv, Informed, DownloadKnown, WholeFile
  <1>7. \A b \in Bytes(server.size) : server.object[b + 1] = b BY <1>1, <1>6 DEF Bytes
  <1>8. RangeOf(i) = Served(RangeRequest(i).first, RangeRequest(i).last, server.size) BY DEF RangeOf, RangeRequest
  <1>9. worker \in Seq(Worker) /\ DOMAIN worker = 1 .. Len(worker) BY DEF ClientInv, TypeOK
  <1>10. \A j \in DOMAIN worker : RangeOf(j) \subseteq Bytes(server.size)
    <2> SUFFICES ASSUME NEW j \in DOMAIN worker, NEW b \in RangeOf(j) PROVE b \in Bytes(server.size) OBVIOUS
    <2>1. Satisfiable(RangeStart(server.size, Len(worker), j), RangeEnd(server.size, Len(worker), j), server.size)
      BY <1>1, <1>6, <1>9, RangesAreTheObject
    <2>2. server.size \div Len(worker) \in Nat
      <3>1. server.size \in Nat /\ Len(worker) \in Nat \ {0} BY <1>1, <1>6
      <3> QED BY <3>1, Blocks
    <2>3. 0 <= RangeStart(server.size, Len(worker), j) /\ RangeStart(server.size, Len(worker), j) \in Int
      <3>1. j - 1 \in Nat BY <1>9
      <3>2. 0 * (server.size \div Len(worker)) <= (j - 1) * (server.size \div Len(worker))
            /\ (j - 1) * (server.size \div Len(worker)) \in Int
        BY <2>2, <3>1, Monotone
      <3> QED BY <2>2, <3>2 DEF RangeStart
    <2>4. RangeEnd(server.size, Len(worker), j) \in Int BY <1>1, <1>9, <2>2, OneMore DEF RangeEnd
    <2> QED BY <1>1, <2>3, <2>4 DEF RangeOf, Served, Least, Bytes
  <1>11. /\ dest' \in [Bytes(server.size) -> Bytes(server.size) \union {Hole}]
         /\ \A b \in Bytes(server.size) : dest'[b] = IF result = "ok" /\ b \in RangeOf(i) THEN b ELSE dest[b]
    <2>1. CASE result = "ok"
      <3>1. dest' = [b \in Bytes(server.size) |-> IF b \in RangeOf(i) THEN server.object[b + 1] ELSE dest[b]]
        BY <1>2, <1>6, <1>8, <2>1 DEF Written
      <3> QED BY <1>6, <1>7, <2>1, <3>1
    <2>2. CASE result # "ok" BY <1>2, <1>6, <2>2
    <2> QED BY <2>1, <2>2
  <1>12. PoolMoves("ranges")
    <2>1. Bytes(server.size) \subseteq Nat BY <1>1 DEF Bytes
    <2> QED BY <1>1, <1>4, <1>5, <1>11, <2>1 DEF PoolMoves, RangeRead
  <1>13. TypeOK' /\ StepsApart' /\ PoolJoined' /\ SessionsLeft' /\ DirectoryKnown' /\ server'.size = server.size
    BY <1>1, <1>4, <1>12, PoolTypes
  <1>14. FileKnown' BY <1>12 DEF FileKnown, PoolMoves
  <1>15. DownloadKnown'
    <2>1. \A j \in DOMAIN worker : RangeOf(j)' = RangeOf(j) BY <1>5, <1>13 DEF RangeOf
    <2>2. ASSUME NEW j \in DOMAIN worker', worker'[j].at = "ok", NEW b \in RangeOf(j)' PROVE dest'[b] = b
      <3>1. b \in RangeOf(j) /\ b \in Bytes(server.size) BY <1>5, <1>10, <2>1, <2>2
      <3>2. CASE j = i BY <1>5, <1>11, <2>2, <3>1, <3>2
      <3>3. CASE j # i BY <1>5, <1>6, <1>11, <2>2, <3>1, <3>3
      <3> QED BY <3>2, <3>3
    <2>3. main'.at = "ranges" /\ main'.what = "download" BY <1>1, <1>12 DEF PoolMoves
    <2>4. server'.object = WholeFile(server'.size)
      BY <1>1, <1>4, ObjectStays DEF ClientInv, Informed, DownloadKnown, ServerMoves
    <2> QED BY <1>5, <1>6, <1>11, <1>13, <2>2, <2>3, <2>4 DEF DownloadKnown
  <1> QED BY <1>4, <1>13, <1>14, <1>15 DEF ClientInv, Informed, ServerMoves

LEMMA JoinRangesKeeps ==
  ASSUME ClientInv, JoinRanges
  PROVE  ClientInv'
  <1>1. main.at = "ranges" /\ Over /\ ServerMoves /\ server' = server BY Unmoved DEF JoinRanges
  <1>2. CASE Goes("raised") BY <1>1, <1>2, Raising DEF JoinRanges, ClientInv, TypeOK
  <1>3. CASE AllOk /\ Goes("returned")
    <2>1. main.i \in Nat /\ main \in Main /\ main.what = "download" /\ server.size \in Nat
      BY <1>1, TypesOfServer DEF ClientInv, TypeOK, Main, StepsApart, DownloadSteps
    <2>2. /\ server.size > 0 /\ Len(worker) \in 1 .. server.size /\ worker \in Seq(Worker)
          /\ dest \in [Bytes(server.size) -> Bytes(server.size) \union {Hole}]
          /\ \A i \in DOMAIN worker : worker[i].at = "ok" => \A b \in RangeOf(i) : dest[b] = b
      BY <1>1 DEF ClientInv, Informed, DownloadKnown, TypeOK
    <2>3. ASSUME NEW b \in Bytes(server.size) PROVE dest[b] = b
      <3>1. \E i \in 1 .. Len(worker) : b \in RangeOf(i) BY <2>1, <2>2, RangesAreTheObject DEF RangeOf
      <3>2. PICK i \in DOMAIN worker : b \in RangeOf(i) BY <2>2, <3>1
      <3> QED BY <1>3, <2>2, <3>2 DEF AllOk
    <2>4. dest = [b \in Bytes(server.size) |-> b] BY <2>2, <2>3
    <2>5. main' = [main EXCEPT !.at = "returned", !.n = 1, !.i = main.i] BY <1>3, <2>1 DEF Goes, Main
    <2>6. Arrives("returned", main.i)
      BY <2>1, <2>4, <2>5
      DEF Arrives, JoinRanges, ClientInv, TypeOK, FileSteps, DirectorySteps, DownloadSteps
    <2> QED BY <1>1, <2>1, <2>6, Moving DEF Ended
  <1> QED BY <1>2, <1>3 DEF JoinRanges


-----------------------------------------------------------------------------
(* The specification. *)

LEMMA InitKnows == Init => ClientInv
  <1> SUFFICES ASSUME Init PROVE ClientInv OBVIOUS
  <1>1. PICK size \in Sizes, threshold \in Thresholds \union {LocalThreshold}, k \in Concurrency \union {1},
             what \in {"file", "directory", "download"}, backend \in Backends,
             unsafe \in {{}, Paths \intersect {MaxFiles}}, renamed \in {{}, Paths \intersect {MaxFiles}} :
          /\ what # "directory" => unsafe = {} /\ renamed = {}
          /\ what # "download"  => k = 1
          /\ what # "file"      => threshold = LocalThreshold
          /\ server = [NewServer(size, threshold, backend, unsafe, renamed) EXCEPT
                         !.object = IF what = "download" THEN WholeFile(size) ELSE None]
          /\ main = [at |-> CASE what = "file" -> "config"
                              [] what = "directory" -> "job"
                              [] OTHER -> IF k > 1 THEN "probe" ELSE "stream",
                     what |-> what, i |-> 1, sid |-> None, n |-> 1, width |-> k, run |-> 1]
          /\ late = {} /\ worker = NoWorkers /\ cached = None /\ dest = <<>> /\ faulty = FALSE
    BY DEF Init
  <1>2. /\ size \in Nat /\ unsafe \in SUBSET Paths /\ renamed \in SUBSET Paths
        /\ backend \in {"local", "s3"}
    OBVIOUS
  <1>3. TotalParts(size, PartSize) \in Nat BY <1>2, SomeParts
  <1>4. /\ server = [size |-> size, threshold |-> threshold, backend |-> backend,
                     unsafe |-> unsafe, renamed |-> renamed, writing |-> {},
                     session |-> [s \in Sids |-> "none"],
                     parts   |-> [s \in Sids |-> [p \in 1 .. TotalParts(size, PartSize) |-> None]],
                     object  |-> IF what = "download" THEN WholeFile(size) ELSE None,
                     job     |-> "none",
                     entry   |-> [f \in Paths |-> "none"],
                     stored  |-> {}]
    BY <1>1 DEF NewServer
  <1>5. Sound(server)
    <2>1. server \in Servers(size)
      BY <1>2, <1>4 DEF Servers, Sessions, JobStates, EntryStates
    <2> QED BY <1>2, <1>4, <2>1, ObjectsApart DEF Sound, Sealed, Parts, Clean
  <1>6. /\ main \in Main /\ main.i = 1 /\ main.run = 1 /\ main.what = what
        /\ main.at \in {"config", "job", "probe", "stream"}
        /\ main.at = "config" <=> what = "file"
        /\ main.at = "job" <=> what = "directory"
    <2>1. 1 \in 1 .. MaxAttempts * MaxAttempts BY AttemptsBound
    <2>2. 1 \in 1 .. MaxRuns OBVIOUS
    <2>3. CASE what = "file"
      <3>1. main = [at |-> "config", what |-> what, i |-> 1, sid |-> None, n |-> 1, width |-> k, run |-> 1]
        BY <1>1, <2>3
      <3> QED BY <2>1, <2>2, <2>3, <3>1 DEF Main, FileSteps
    <2>4. CASE what = "directory"
      <3>1. main = [at |-> "job", what |-> what, i |-> 1, sid |-> None, n |-> 1, width |-> k, run |-> 1]
        BY <1>1, <2>4
      <3> QED BY <2>1, <2>2, <2>4, <3>1 DEF Main, DirectorySteps
    <2>5. CASE what = "download"
      <3>1. PICK at \in {"probe", "stream"} :
              main = [at |-> at, what |-> what, i |-> 1, sid |-> None, n |-> 1, width |-> k, run |-> 1]
        BY <1>1, <2>5
      <3> QED BY <2>1, <2>2, <2>5, <3>1 DEF Main, DownloadSteps
    <2> QED BY <2>3, <2>4, <2>5
  <1>7. worker \in Seq(Worker) /\ DOMAIN worker = {} /\ DOMAIN dest = {} BY <1>1 DEF NoWorkers
  <1>8. TypeOK BY <1>1, <1>4, <1>5, <1>6, <1>7, TypesOfServer DEF TypeOK, JobStates, Sessions
  <1>9. LateIsProper /\ StepsApart /\ PoolJoined
    BY <1>1, <1>6, <1>7
    DEF LateIsProper, StepsApart, PoolJoined, Over, FileSteps, DirectorySteps, DownloadSteps
  <1>10. SessionsLeft
    <2>1. 1 \in Sids /\ Fresh(server) = Sids BY <1>4 DEF Sids, Fresh
    <2> QED BY <1>6, <2>1 DEF SessionsLeft
  <1>11. FileKnown /\ DirectoryKnown BY <1>6 DEF FileKnown, DirectoryKnown
  <1>12. DownloadKnown BY <1>4, <1>6 DEF DownloadKnown
  <1> QED BY <1>5, <1>8, <1>9, <1>10, <1>11, <1>12 DEF ClientInv, Informed

LEMMA NextKnows == ClientInv /\ [Next]_vars => ClientInv'
  <1> SUFFICES ASSUME ClientInv, [Next]_vars PROVE ClientInv' OBVIOUS
  <1>1. CASE UNCHANGED vars
    <2>1. Waits BY <1>1, Standing DEF vars
    <2>2. ServerMoves /\ Fresh(server)' = Fresh(server) BY <1>1, Unmoved DEF vars
    <2> QED BY <2>1, <2>2, WaitingKeeps DEF ServerMoves
  <1>2. ASSUME NEW i \in DOMAIN worker, PartSent(i) \/ RetryPart(i) \/ RangeRead(i) PROVE ClientInv'
    BY <1>2, PartSentKeeps, RetryPartKeeps, RangeReadKeeps
  <1>3. CASE \/ RetryMain \/ Raises \/ ReadThreshold \/ ConfigBreaks \/ CreateUpload \/ JoinParts
             \/ CompleteUpload \/ UploadFile
    BY <1>3, RetryMainKeeps, RaisesKeeps, ReadThresholdKeeps, ConfigBreaksKeeps, CreateUploadKeeps,
       JoinPartsKeeps, StoredKeeps
  <1>4. CASE PrepareJob \/ StoreFile \/ ReportUploaded \/ ReportFailed \/ FinishJob
    BY <1>4, PrepareJobKeeps, StoreFileKeeps, ReportUploadedKeeps, ReportFailedKeeps, FinishJobKeeps
  <1>5. CASE Stream \/ Probe \/ JoinRanges BY <1>5, StreamKeeps, ProbeKeeps, JoinRangesKeeps
  <1>6. CASE Again \/ OpenLate \/ ServeLate \/ ChangeThreshold
    BY <1>6, AgainKeeps, OpenLateKeeps, ServeLateKeeps, ChangeThresholdKeeps
  <1> QED BY <1>1, <1>2, <1>3, <1>4, <1>5, <1>6 DEF Next, ClientStep

LEMMA AlwaysKnows == Spec => []ClientInv
BY InitKnows, NextKnows, PTL DEF Spec

(* What a step of the client does to the server is the service of a request.      *)
LEMMA StepServes ==
  ASSUME ClientInv, ClientStep
  PROVE  /\ server' = server \/ \E m : Proper(server, m) /\ server' = After(server, m)
         /\ late' = late \/ faulty'
         /\ faulty => faulty'
  <1> DEFINE Good == /\ server' = server \/ \E m : Proper(server, m) /\ server' = After(server, m)
                     /\ late' = late \/ faulty'
                     /\ faulty => faulty'
  <1> SUFFICES Good OBVIOUS
  <1>1. ASSUME NEW m, NEW n, NEW result, Call(m, n, result), Proper(server, m) PROVE Good
    BY <1>1 DEF Call, Unavailable, GivenUp
  <1>2. ASSUME NEW m, NEW n, Retry(m, n) PROVE Good
    <2>1. Unavailable(m) BY <1>2 DEF Retry
    <2> QED BY <2>1 DEF Unavailable, GivenUp
  <1>3. CASE UNCHANGED <<server, late>> /\ (faulty' \/ faulty' = faulty) BY <1>3
  <1> HIDE DEF Good
  <1>4. ASSUME NEW i \in DOMAIN worker, PartSent(i) \/ RetryPart(i) \/ RangeRead(i) PROVE Good
    <2>1. CASE RetryPart(i) BY <1>2, <2>1 DEF RetryPart
    <2>2. CASE PartSent(i) \/ RangeRead(i)
      <3>1. Proper(server, WorkerRequest(i)) BY <2>2, WorkerRequestIsProper DEF PartSent, RangeRead
      <3>2. \E n, result : Call(WorkerRequest(i), n, result)
        <4>1. CASE PartSent(i) BY <4>1 DEF PartSent
        <4>2. CASE RangeRead(i)
          <5>1. WorkerRequest(i) = RangeRequest(i) BY <4>2 DEF RangeRead, WorkerRequest
          <5> QED BY <4>2, <5>1 DEF RangeRead
        <4> QED BY <2>2, <4>1, <4>2
      <3> QED BY <1>1, <3>1, <3>2
    <2> QED BY <1>4, <2>1, <2>2
  <1>5. CASE RetryMain
    <2>1. Retry(Request, main.n) BY <1>5 DEF RetryMain
    <2> QED BY <1>2, <2>1
  <1>6. CASE JoinParts \/ JoinRanges BY <1>3, <1>6 DEF JoinParts, JoinRanges
  <1>7. CASE \/ Raises \/ ReadThreshold \/ ConfigBreaks \/ CreateUpload \/ CompleteUpload \/ UploadFile
             \/ PrepareJob \/ StoreFile \/ ReportUploaded \/ ReportFailed \/ FinishJob \/ Stream \/ Probe
    <2>1. main.at \notin Ended \union {"parts", "ranges"}
      BY <1>7 DEF Raises, ReadThreshold, ConfigBreaks, CreateUpload, CompleteUpload, UploadFile, PrepareJob,
                  StoreFile, ReportUploaded, ReportFailed, FinishJob, Stream, Probe, Does, Ended
    <2>2. Proper(server, Request) BY <2>1, RequestIsProper
    <2>3. \/ UNCHANGED <<server, late>> /\ (faulty' \/ faulty' = faulty)
          \/ \E n, result : Call(Request, n, result)
      BY <1>7 DEF Raises, ReadThreshold, ConfigBreaks, CreateUpload, CompleteUpload, UploadFile, PrepareJob,
                  StoreFile, ReportUploaded, ReportFailed, FinishJob, Stream, Probe, Does
    <2>4. CASE \E n, result : Call(Request, n, result)
      <3>1. PICK n, result : Call(Request, n, result) BY <2>4
      <3> QED BY <1>1, <2>2, <3>1
    <2> QED BY <1>3, <2>3, <2>4
  <1> QED BY <1>4, <1>5, <1>6, <1>7 DEF ClientStep

(* Only a call that was not answered leaves a request that may write later.       *)
FaultsShow == late # {} \/ ~Clean(server) => faulty

LEMMA ServedCleanly ==
  ASSUME NEW sv, Sound(sv), NEW m, Proper(sv, m), Clean(sv)
  PROVE  Clean(After(sv, m))
  <1> DEFINE sw == After(sv, m)
  <1>1. sv \in Servers(sv.size) /\ sv.size \in Nat BY DEF Sound
  <1>2. Serves(sv, m, sw) BY AfterServes
  <1> HIDE DEF sw
  <1>3. CASE /\ m.op = "complete" /\ sv.session[m.s] = "open" /\ \A p \in Parts(sv) : sv.parts[m.s][p] # None
             /\ sw = [sv EXCEPT !.session[m.s] = "completed", !.object = Assembled(sv, m.s)]
    <2>1. Assembled(sv, m.s) = WholeFile(sv.size) BY <1>3, AssembledIsFile DEF Proper, Clean
    <2>2. sw.object = WholeFile(sv.size) /\ sw.writing = sv.writing BY <1>1, <1>3, <2>1 DEF Servers
    <2> QED BY <1>1, <2>2, ObjectsApart DEF Clean, sw
  <1>4. CASE m.op = "upload" /\ sw = [sv EXCEPT !.object = Put(sv)]
    <2>1. Put(sv) = WholeFile(sv.size) BY PutIsFile DEF Clean
    <2>2. sw.object = WholeFile(sv.size) /\ sw.writing = sv.writing BY <1>1, <1>4, <2>1 DEF Servers
    <2> QED BY <1>1, <2>2, ObjectsApart DEF Clean, sw
  <1>5. CASE sw.object = sv.object /\ sw.writing \subseteq sv.writing BY <1>5 DEF Clean, sw
  <1>6. CASE sw = sv BY <1>5, <1>6
  <1>7. CASE m.op = "part" /\ sw = [sv EXCEPT !.parts[m.s][m.p] = m.bytes, !.writing = @ \ {<<m.s, m.p>>}]
    BY <1>1, <1>5, <1>7 DEF Servers
  <1>8. ASSUME NEW session, sw = [sv EXCEPT !.session = session] PROVE Clean(After(sv, m))
    BY <1>1, <1>5, <1>8 DEF Servers
  <1>9. ASSUME NEW job, NEW entry, sw = [sv EXCEPT !.job = job, !.entry = entry] PROVE Clean(After(sv, m))
    BY <1>1, <1>5, <1>9 DEF Servers
  <1>10. ASSUME NEW job, sw = [sv EXCEPT !.job = job] PROVE Clean(After(sv, m))
    BY <1>1, <1>5, <1>10 DEF Servers
  <1>11. ASSUME NEW entry, sw = [sv EXCEPT !.entry = entry] PROVE Clean(After(sv, m))
    BY <1>1, <1>5, <1>11 DEF Servers
  <1>12. ASSUME NEW stored, sw = [sv EXCEPT !.stored = stored] PROVE Clean(After(sv, m))
    BY <1>1, <1>5, <1>12 DEF Servers
  <1> QED BY <1>2, <1>3, <1>4, <1>6, <1>7, <1>8, <1>9, <1>10, <1>11, <1>12 DEF Serves

LEMMA FaultsShown ==
  ASSUME ClientInv, FaultsShow, [Next]_vars
  PROVE  FaultsShow'
  <1>1. Sound(server) /\ server \in Servers(server.size) BY DEF ClientInv, Sound
  <1>2. CASE UNCHANGED vars BY <1>2 DEF vars, FaultsShow, Clean
  <1>3. CASE ClientStep
    <2>1. Clean(server) => Clean(server') BY <1>1, <1>3, StepServes, ServedCleanly
    <2> QED BY <1>3, <2>1, StepServes DEF FaultsShow
  <1>4. CASE Again BY <1>4 DEF Again, FaultsShow, Clean
  <1>5. CASE OpenLate \/ ServeLate BY <1>5 DEF OpenLate, ServeLate, FaultsShow
  <1>6. CASE ChangeThreshold
    <2>1. server'.object = server.object /\ server'.writing = server.writing
      BY <1>1, <1>6 DEF ChangeThreshold, Servers
    <2> QED BY <1>6, <2>1 DEF ChangeThreshold, FaultsShow, Clean
  <1> QED BY <1>2, <1>3, <1>4, <1>5, <1>6 DEF Next

LEMMA AlwaysShown == Spec => []FaultsShow
  <1>1. Init => FaultsShow
    <2> SUFFICES ASSUME Init PROVE FaultsShow OBVIOUS
    <2>1. PICK size \in Sizes : server.object \in {None, WholeFile(size)} /\ server.writing = {} /\ late = {}
      BY DEF Init, NewServer
    <2> QED BY <2>1, ObjectsApart DEF FaultsShow, Clean
  <1>2. ClientInv /\ FaultsShow /\ [Next]_vars => FaultsShow' BY FaultsShown
  <1> QED BY <1>1, <1>2, AlwaysKnows, PTL DEF Spec

(* The state of the client and the server has the form of the code's, whatever   *)
(* is lost, retried or served late.                                             *)
THEOREM TypeCorrect == Spec => []TypeOK
  <1>1. ClientInv => TypeOK BY DEF ClientInv
  <1> QED BY <1>1, AlwaysKnows, PTL

(* upload_large_file and upload_file: a file upload that returns has stored the  *)
(* file, for every size, part size and number of attempts; only on the local     *)
(* store, after a call that was not answered, may bytes of it be missing.        *)
THEOREM ReturnedFileSafe == Spec => []ReturnedFileIsStored
  <1>1. ClientInv /\ FaultsShow => ReturnedFileIsStored
    <2> SUFFICES ASSUME ClientInv, FaultsShow, main.at = "returned", main.what = "file"
                 PROVE  \/ server.object = WholeFile(server.size)
                        \/ server.object = Torn /\ server.backend = "local" /\ faulty
      BY DEF ReturnedFileIsStored
    <2>1. server.object # None BY DEF ClientInv, Informed, FileKnown
    <2>2. server.object \in {None, WholeFile(server.size), Torn} BY DEF ClientInv, Sound, Servers
    <2>3. server.object = Torn => server.backend = "local" /\ faulty
      BY DEF ClientInv, Sound, Clean, FaultsShow
    <2> QED BY <2>1, <2>2, <2>3
  <1> QED BY <1>1, AlwaysKnows, AlwaysShown, PTL

(* upload_directory: a directory upload that returns has stored every file and   *)
(* completed the job, for every number of files and size of a batch.            *)
THEOREM ReturnedDirectorySafe == Spec => []ReturnedDirectoryIsStored
  <1>1. ClientInv => ReturnedDirectoryIsStored
    BY DEF ClientInv, Informed, DirectoryKnown, Sound, ReturnedDirectoryIsStored
  <1> QED BY <1>1, AlwaysKnows, PTL

(* UploadClient.download: a download that returns has the object, for every size *)
(* and number of threads.                                                      *)
THEOREM ReturnedDownloadSafe == Spec => []ReturnedDownloadIsWhole
  <1>1. ClientInv => ReturnedDownloadIsWhole BY DEF ClientInv, Informed, DownloadKnown, ReturnedDownloadIsWhole
  <1> QED BY <1>1, AlwaysKnows, PTL

(* ThreadPoolExecutor's shutdown: no thread outlives the call, for any number.   *)
THEOREM PoolSafe == Spec => []ThreadsJoined
  <1>1. ClientInv => ThreadsJoined BY DEF ClientInv, PoolJoined, ThreadsJoined, Ended
  <1> QED BY <1>1, AlwaysKnows, PTL


-----------------------------------------------------------------------------
(* Without faults, and with names the server takes, no call is refused. *)

Undisturbed ==
  /\ ~faulty /\ main.run = 1
  /\ main.what = "directory" => Paths # {} /\ server.unsafe \union server.renamed = {}
  /\ main.what = "download" => server.size # 0 \/ main.width <= 1

FileCourse ==
  /\ main.at \in {"config", "create", "upload", "parts", "complete"} => server.object = None
  /\ main.at \in {"parts", "complete"} => server.session[main.sid] = "open"
  /\ main.at = "parts" => \A i \in DOMAIN worker : worker[i].at = "ok" => server.parts[main.sid][i] # None
  /\ main.at = "complete" => \A p \in Parts(server) : server.parts[main.sid][p] # None

UpTo(n) == {f \in Paths : f <= n}

DirectoryCourse ==
  main.at \in DirectorySteps =>
    /\ main.at = "job" => server.job = "none" /\ Listed(server) = {}
    /\ main.at = "entries" => /\ Collecting(server) /\ main.i <= Batches /\ main.i # 0
                              /\ Listed(server) = UpTo((main.i - 1) * Batch)
    /\ main.at = "manifest" => Collecting(server) /\ Listed(server) = Paths
    /\ main.at = "retry" => server.job = "ready"
    /\ main.at \in {"ids", "file", "uploaded", "finish"} => server.job = "uploading"
    /\ main.at \in {"job", "entries", "manifest", "retry", "ids"} => server.stored = {}
    /\ main.at = "file" => server.stored = UpTo(main.i - 1)
    /\ main.at = "uploaded" => server.stored = UpTo(main.i)
    /\ \A f \in Paths : server.entry[f] # "failed"

OnCourse ==
  /\ late = {} /\ main.at \notin {"raised", "failed"}
  /\ FileCourse /\ DirectoryCourse
  /\ main.at = "probe" => main.width > 1
  /\ main.at \in {"parts", "ranges"} => \A i \in DOMAIN worker : worker[i].at # "failed"

(* What a call does when nothing goes wrong on the way. *)
LEMMA UndisturbedCall ==
  ASSUME NEW m, NEW n, NEW result, Outcome(server, m) = "ok", ~faulty', Call(m, n, result)
  PROVE  result = "ok" /\ server' = After(server, m) /\ late' = late
BY DEF Call, Unavailable, GivenUp

LEMMA UndisturbedRetry ==
  ASSUME NEW m, NEW n, Outcome(server, m) = "ok", ~faulty', Retry(m, n)
  PROVE  FALSE
BY DEF Retry, Unavailable, GivenUp

LEMMA MainIsServed ==
  ASSUME ClientInv, FaultsShow, Undisturbed, OnCourse, main.at \notin Ended \union {"parts", "ranges"}
  PROVE  Outcome(server, Request) = "ok" /\ Accepts(server, Request)
  <1>1. main.at \in {"config", "create", "complete", "upload", "job", "entries", "manifest", "retry", "ids",
                     "file", "uploaded", "finish", "probe", "stream"}
    BY DEF ClientInv, TypeOK, Main, FileSteps, DirectorySteps, DownloadSteps, OnCourse
  <1>2. CASE main.at = "complete"
    <2>1. Request = [op |-> "complete", s |-> main.sid] BY <1>2 DEF Request
    <2>2. Accepts(server, Request) BY <1>2, <2>1 DEF Accepts, Completable, OnCourse, FileCourse
    <2>3. ~Taken(server, main.sid) BY <1>2 DEF Taken, OnCourse, FileCourse
    <2>4. server.writing = {} BY DEF FaultsShow, Clean, Undisturbed
    <2> QED BY <2>1, <2>2, <2>3, <2>4 DEF Outcome
  <1>3. CASE main.at \in {"config", "create", "upload", "stream"}
    <2>1. Request = [op |-> main.at] BY <1>3 DEF Request
    <2>2. Accepts(server, Request) BY <1>3, <2>1 DEF Accepts, OnCourse, FileCourse
    <2> QED BY <1>3, <2>1, <2>2 DEF Outcome
  <1>4. CASE main.at \in {"job", "manifest", "retry", "ids", "finish"}
    <2>1. Request = [op |-> main.at] BY <1>4 DEF Request
    <2>2. Accepts(server, Request)
      BY <1>4, <2>1
      DEF Accepts, OnCourse, DirectoryCourse, DirectorySteps, ManifestMatches, Finishable, Undisturbed,
          ClientInv, StepsApart
    <2> QED BY <1>4, <2>1, <2>2 DEF Outcome
  <1>5. CASE main.at = "entries"
    <2> DEFINE paths == {f \in Paths : (main.i - 1) * Batch < f /\ f <= main.i * Batch}
    <2>1. Request = [op |-> "entries", paths |-> paths] BY <1>5 DEF Request
    <2>2. main.i \in Nat /\ (main.i - 1) * Batch \in Int
      <3>1. main.i \in Nat BY DEF ClientInv, TypeOK, Main
      <3> QED BY <3>1, OneMore
    <2>3. paths \intersect UpTo((main.i - 1) * Batch) = {} BY <2>2 DEF UpTo, Paths
    <2>4. /\ Collecting(server) /\ Listed(server) = UpTo((main.i - 1) * Batch) /\ server.unsafe = {}
      BY <1>5 DEF OnCourse, DirectoryCourse, DirectorySteps, Undisturbed, ClientInv, StepsApart
    <2> HIDE DEF paths
    <2>5. Accepts(server, Request) BY <2>1, <2>3, <2>4 DEF Accepts, Addable
    <2> QED BY <2>1, <2>5 DEF Outcome
  <1>6. CASE main.at = "file"
    <2>1. Request = [op |-> "file", p |-> main.i] BY <1>6 DEF Request
    <2>2. main.i \in Nat /\ server.stored = UpTo(main.i - 1)
      BY <1>6 DEF ClientInv, TypeOK, Main, OnCourse, DirectoryCourse, DirectorySteps
    <2>3. main.i \notin server.stored BY <2>2 DEF UpTo
    <2>4. Accepts(server, Request) BY <2>1, <2>3 DEF Accepts
    <2> QED BY <2>1, <2>4 DEF Outcome
  <1>7. CASE main.at = "uploaded"
    <2>1. Request = [op |-> "result", p |-> main.i, status |-> "uploaded", n |-> main.n] BY <1>7 DEF Request
    <2>2. server.entry[main.i] # "none" BY <1>7 DEF ClientInv, Informed, DirectoryKnown, Sound, Listed
    <2>3. Accepts(server, Request) BY <2>1, <2>2 DEF Accepts
    <2> QED BY <2>1, <2>3 DEF Outcome
  <1>8. CASE main.at = "probe"
    <2>1. Request = [op |-> "range", first |-> 0, last |-> 0] BY <1>8 DEF Request
    <2>2. server.size > 0
      <3>1. main.what = "download" /\ main.width > 1 /\ main.width \in Concurrency \union {1} /\ server.size \in Nat
        BY <1>8, TypesOfServer DEF ClientInv, StepsApart, DownloadSteps, OnCourse, TypeOK, Main
      <3>2. \A k \in Concurrency \union {1} : k > 1 => ~(k <= 1) OBVIOUS
      <3>3. ~(main.width <= 1) BY <3>1, <3>2
      <3>4. server.size # 0 BY <3>1, <3>3 DEF Undisturbed
      <3> QED BY <3>1, <3>4
    <2>3. Satisfiable(0, 0, server.size) BY <2>2, TypesOfServer DEF Satisfiable, ClientInv
    <2>4. Accepts(server, Request) BY <2>1, <2>3 DEF Accepts
    <2> QED BY <2>1, <2>4 DEF Outcome
  <1> QED BY <1>1, <1>2, <1>3, <1>4, <1>5, <1>6, <1>7, <1>8

LEMMA WorkerIsServed ==
  ASSUME ClientInv, OnCourse, main.at \in {"parts", "ranges"}, NEW i \in DOMAIN worker
  PROVE  Outcome(server, WorkerRequest(i)) = "ok" /\ Accepts(server, WorkerRequest(i))
  <1>1. CASE main.at = "parts"
    <2>1. WorkerRequest(i) = [op |-> "part", s |-> main.sid, p |-> i, bytes |-> PartBytes(server.size, PartSize, i)]
      BY <1>1 DEF WorkerRequest
    <2>2. Accepts(server, WorkerRequest(i)) BY <1>1, <2>1 DEF Accepts, OnCourse, FileCourse
    <2> QED BY <2>1, <2>2 DEF Outcome
  <1>2. CASE main.at = "ranges"
    <2> DEFINE first == RangeStart(server.size, Len(worker), i)
               last  == RangeEnd(server.size, Len(worker), i)
    <2>1. WorkerRequest(i) = [op |-> "range", first |-> first, last |-> last]
      BY <1>2 DEF WorkerRequest, RangeRequest
    <2>2. Satisfiable(first, last, server.size)
      <3>1. /\ server.size \in Nat \ {0} /\ Len(worker) \in 1 .. server.size /\ worker \in Seq(Worker)
            /\ i \in 1 .. Len(worker)
        BY <1>2, TypesOfServer DEF ClientInv, Informed, DownloadKnown, TypeOK
      <3> QED BY <3>1, RangesAreTheObject
    <2> HIDE DEF first, last
    <2>3. Accepts(server, WorkerRequest(i)) BY <2>1, <2>2 DEF Accepts
    <2> QED BY <2>1, <2>3 DEF Outcome
  <1> QED BY <1>1, <1>2


(* The fields an accepted request changes, and those it does not. *)
LEMMA AcceptedEffect ==
  ASSUME Sound(server), NEW m, Proper(server, m), Outcome(server, m) = "ok", server' = After(server, m)
  PROVE  /\ m.op \in {"config", "ids", "range", "stream"} => server' = server
         /\ m.op = "create" => server'.object = server.object
         /\ m.op = "part" => /\ server'.object = server.object /\ server'.session = server.session
                             /\ \A s \in Sids : \A p \in Parts(server) :
                                  s # m.s \/ p # m.p => server'.parts[s][p] = server.parts[s][p]
         /\ m.op = "job" /\ server.job = "none" =>
              server'.job = "created" /\ server'.entry = server.entry /\ server'.stored = server.stored
         /\ m.op = "entries" =>
              /\ server'.job = "manifest_uploading" /\ server'.stored = server.stored
              /\ \A f \in Paths : server'.entry[f] = IF f \in m.paths THEN "pending" ELSE server.entry[f]
         /\ m.op = "manifest" =>
              server'.job = "ready" /\ server'.entry = server.entry /\ server'.stored = server.stored
         /\ m.op = "retry" =>
              server'.job = "uploading" /\ server'.entry = server.entry /\ server'.stored = server.stored
         /\ m.op = "file" =>
              /\ server'.job = server.job /\ server'.entry = server.entry
              /\ server'.stored = server.stored \union {m.p}
         /\ m.op = "result" =>
              /\ server'.job = server.job /\ server'.stored = server.stored
              /\ \A f \in Paths : f # m.p => server'.entry[f] = server.entry[f]
              /\ server'.entry[m.p] = m.status
  <1>0. server \in Servers(server.size) BY DEF Sound
  <1>1. Accepts(server, m) BY DEF Outcome
  <1>2. CASE m.op \in {"config", "ids", "range", "stream"} BY <1>2 DEF After
  <1>3. CASE m.op \in {"create", "part"}
    <2>1. CASE m.op = "create" BY <1>0, <2>1 DEF After, Servers
    <2>2. CASE m.op = "part"
      <3>1. m.s \in Sids /\ m.p \in Parts(server) BY <2>2 DEF Proper
      <3>2. server' = [server EXCEPT !.parts[m.s][m.p] = m.bytes, !.writing = @ \ {<<m.s, m.p>>}]
        BY <2>2 DEF After
      <3>3. /\ server'.parts = [server.parts EXCEPT ![m.s][m.p] = m.bytes]
            /\ server'.object = server.object /\ server'.session = server.session
        BY <1>0, <3>2 DEF Servers
      <3> QED BY <1>0, <2>2, <3>1, <3>3 DEF Servers, Parts
    <2> QED BY <1>3, <2>1, <2>2
  <1>4. CASE m.op \in {"job", "manifest", "retry", "file"} BY <1>0, <1>4 DEF After, Servers
  <1>5. CASE m.op = "entries"
    <2>1. server' = [server EXCEPT !.job = "manifest_uploading",
                       !.entry = [f \in Paths |-> IF f \in m.paths THEN "pending" ELSE server.entry[f]]]
      BY <1>5 DEF After
    <2> QED BY <1>0, <1>5, <2>1 DEF Servers
  <1>6. CASE m.op = "result" BY <1>0, <1>6 DEF After, Servers, Proper
  <1> QED BY <1>2, <1>3, <1>4, <1>5, <1>6

(* The steps in question, with what they have done. *)
LEMMA CallOnCourse ==
  ASSUME ClientInv, FaultsShow, Undisturbed, OnCourse, ~faulty', main.at \notin Ended \union {"parts", "ranges"}
  PROVE  /\ \A result : Call(Request, main.n, result) =>
              /\ result = "ok" /\ server' = After(server, Request) /\ late' = {}
              /\ Proper(server, Request) /\ Outcome(server, Request) = "ok" /\ Sound(server)
         /\ ~Retry(Request, main.n)
  <1>1. Outcome(server, Request) = "ok" /\ Proper(server, Request) /\ Sound(server) /\ late = {}
    BY MainIsServed, RequestIsProper DEF ClientInv, OnCourse
  <1> QED BY <1>1, UndisturbedCall, UndisturbedRetry

LEMMA FileOnCourse ==
  ASSUME ClientInv, FaultsShow, Undisturbed, OnCourse, ~faulty', main.run = 1,
         \/ ReadThreshold \/ CreateUpload \/ CompleteUpload \/ UploadFile
  PROVE  OnCourse'
  <1>1. main \in Main /\ main.at \in {"config", "create", "complete", "upload"}
    BY DEF ClientInv, TypeOK, ReadThreshold, CreateUpload, CompleteUpload, UploadFile, Does
  <1>2. main.at \notin Ended \union {"parts", "ranges"} BY <1>1 DEF Ended
  <1>3. CASE ReadThreshold
    <2>1. server' = server /\ late' = {}
      <3>1. CASE UNCHANGED <<server, late, cached, faulty>> BY <3>1 DEF OnCourse
      <3>2. CASE \E result \in {"ok", "exhausted"} : Call(Request, main.n, result)
        <4>1. Request = [op |-> "config"] BY <1>3 DEF ReadThreshold, Request
        <4> QED BY <1>2, <3>2, <4>1, CallOnCourse, AcceptedEffect
      <3> QED BY <1>3, <3>1, <3>2 DEF ReadThreshold
    <2>2. main'.at \in {"create", "upload"} BY <1>1, <1>3 DEF ReadThreshold, ByThreshold, Main
    <2> QED BY <1>1, <2>1, <2>2 DEF OnCourse, FileCourse, DirectoryCourse, DirectorySteps
  <1>4. CASE CreateUpload
    <2>1. Request = [op |-> "create"] /\ main.at = "create" /\ Call(Request, main.n, "ok")
      BY <1>4 DEF CreateUpload, Does, Request
    <2>2. /\ server' = After(server, Request) /\ late' = {} /\ Proper(server, Request)
          /\ Outcome(server, Request) = "ok" /\ Sound(server)
      BY <1>2, <2>1, CallOnCourse
    <2>3. server'.object = None BY <2>1, <2>2, AcceptedEffect DEF OnCourse, FileCourse
    <2>4. ~IsProxy(server) => server'.session[NewSession(server)] = "open" BY <2>1, <2>2, AcceptedCall
    <2>5. CASE IsProxy(server)
      <3>1. main'.at = "upload" BY <1>1, <1>4, <2>5 DEF CreateUpload, Main
      <3> QED BY <2>2, <2>3, <3>1 DEF OnCourse, FileCourse, DirectoryCourse, DirectorySteps
    <2>6. CASE ~IsProxy(server)
      <3>1. main'.at = "parts" /\ main'.sid = NewSession(server) BY <1>1, <1>4, <2>6 DEF CreateUpload, Main
      <3>2. \A i \in DOMAIN worker' : worker'[i].at = "send"
        <4>1. TotalParts(server.size, PartSize) \in Nat BY SomeParts, TypesOfServer DEF ClientInv
        <4> QED BY <1>4, <2>6, <4>1, StartedThreads DEF CreateUpload
      <3> QED BY <2>2, <2>3, <2>4, <2>6, <3>1, <3>2 DEF OnCourse, FileCourse, DirectoryCourse, DirectorySteps
    <2> QED BY <2>5, <2>6
  <1>5. CASE CompleteUpload \/ UploadFile
    <2>1. Call(Request, main.n, "ok") /\ Goes("returned") BY <1>5 DEF CompleteUpload, UploadFile, Does
    <2>2. late' = {} BY <1>2, <2>1, CallOnCourse
    <2>3. main'.at = "returned" BY <1>1, <2>1 DEF Goes, Main
    <2> QED BY <2>2, <2>3 DEF OnCourse, FileCourse, DirectoryCourse, DirectorySteps
  <1> QED BY <1>3, <1>4, <1>5

LEMMA PartOnCourse ==
  ASSUME ClientInv, OnCourse, ~faulty', NEW i \in DOMAIN worker, PartSent(i)
  PROVE  OnCourse'
  <1>1. main.at = "parts" /\ main \in Main /\ main' = main BY DEF PartSent, ClientInv, TypeOK
  <1>2. PICK result \in {"ok", "refused", "exhausted", "broken"} :
          /\ Call(WorkerRequest(i), worker[i].n, result)
          /\ worker' = [worker EXCEPT ![i].at = IF result = "ok" THEN "ok" ELSE "failed"]
    BY DEF PartSent
  <1>3. /\ WorkerRequest(i) = [op |-> "part", s |-> main.sid, p |-> i, bytes |-> PartBytes(server.size, PartSize, i)]
        /\ Proper(server, WorkerRequest(i)) /\ Outcome(server, WorkerRequest(i)) = "ok" /\ Sound(server)
    BY <1>1, WorkerRequestIsProper, WorkerIsServed DEF WorkerRequest, ClientInv
  <1>4. result = "ok" /\ server' = After(server, WorkerRequest(i)) /\ late' = late
    BY <1>2, <1>3, UndisturbedCall
  <1>5. /\ server'.object = server.object /\ server'.session = server.session
        /\ \A s \in Sids : \A p \in Parts(server) : s # main.sid \/ p # i => server'.parts[s][p] = server.parts[s][p]
        /\ server'.parts[main.sid][i] = PartBytes(server.size, PartSize, i)
    BY <1>2, <1>3, <1>4, AcceptedEffect, AcceptedCall
  <1>6. server'.parts[main.sid][i] # None
    <2>1. i \in Parts(server) /\ server.size \in Nat BY <1>3, TypesOfServer DEF Proper
    <2>2. PartBytes(server.size, PartSize, i) \in Seq(Int) BY <2>1, PartsOfFile DEF Parts
    <2> QED BY <1>5, <2>2
  <1>7. /\ DOMAIN worker' = DOMAIN worker
        /\ \A j \in DOMAIN worker : worker'[j].at = IF j = i THEN "ok" ELSE worker[j].at
    BY <1>2, <1>4, ThreadEnds
  <1>8. main.sid \in Sids /\ DOMAIN worker = Parts(server)
    BY <1>1 DEF ClientInv, Informed, FileKnown, TypeOK, Parts
  <1> QED BY <1>1, <1>4, <1>5, <1>6, <1>7, <1>8 DEF OnCourse, FileCourse, DirectoryCourse, DirectorySteps

LEMMA JoinOnCourse ==
  ASSUME ClientInv, OnCourse, JoinParts \/ JoinRanges
  PROVE  OnCourse'
  <1>1. /\ main.at \in {"parts", "ranges"} /\ main \in Main /\ worker \in Seq(Worker)
        /\ server' = server /\ late' = late /\ Over
    BY DEF JoinParts, JoinRanges, ClientInv, TypeOK
  <1>2. AllOk
    <2>1. \A i \in DOMAIN worker : worker[i].at \in {"send", "ok", "failed"}
      <3>1. \A i \in DOMAIN worker : worker[i] \in Worker BY <1>1
      <3> QED BY <3>1 DEF Worker
    <2> QED BY <1>1, <2>1 DEF OnCourse, Over, AllOk
  <1>3. CASE JoinParts
    <2>1. main'.at = "complete" /\ main'.sid = main.sid BY <1>1, <1>2, <1>3 DEF JoinParts, Goes, Main
    <2>2. DOMAIN worker = Parts(server) /\ main.at = "parts"
      BY <1>3 DEF JoinParts, ClientInv, Informed, FileKnown, TypeOK, Parts
    <2> QED BY <1>1, <1>2, <2>1, <2>2 DEF OnCourse, FileCourse, DirectoryCourse, DirectorySteps, AllOk
  <1>4. CASE JoinRanges
    <2>1. main'.at = "returned" BY <1>1, <1>2, <1>4 DEF JoinRanges, Goes, Main
    <2> QED BY <1>1, <2>1 DEF OnCourse, FileCourse, DirectoryCourse, DirectorySteps
  <1> QED BY <1>3, <1>4


LEMMA PrepareOnCourse ==
  ASSUME ClientInv, FaultsShow, Undisturbed, OnCourse, ~faulty', PrepareJob
  PROVE  OnCourse'
  <1>1. /\ main.at \in {"job", "entries", "manifest", "retry", "ids"} /\ Call(Request, main.n, "ok")
        /\ main \in Main /\ main.i \in Nat /\ main.what = "directory"
    BY DEF PrepareJob, ClientInv, TypeOK, Main, StepsApart, DirectorySteps
  <1>2. /\ server' = After(server, Request) /\ late' = {} /\ Proper(server, Request)
        /\ Outcome(server, Request) = "ok" /\ Sound(server)
    BY <1>1, CallOnCourse DEF Ended
  <1>3. DirectoryCourse /\ main.at \in DirectorySteps BY <1>1 DEF OnCourse, DirectorySteps
  <1>4. /\ main'.at = NextStep
        /\ main'.i = IF NextStep = main.at THEN main.i + 1 ELSE 1
    BY <1>1 DEF PrepareJob, Main
  <1> DEFINE Course(at, i) ==
         /\ at = "entries" => /\ Collecting(server') /\ i <= Batches /\ i # 0
                              /\ Listed(server') = UpTo((i - 1) * Batch)
         /\ at = "manifest" => Collecting(server') /\ Listed(server') = Paths
         /\ at = "retry" => server'.job = "ready"
         /\ at \in {"ids", "file"} => server'.job = "uploading"
         /\ server'.stored = {} /\ \A f \in Paths : server'.entry[f] # "failed"
  <1>5. ASSUME NextStep \in {"entries", "manifest", "retry", "ids", "file"}, Course(NextStep, main'.i),
               NextStep = "file" => main'.i = 1
        PROVE  OnCourse'
    <2>1. UpTo(0) = {} BY DEF UpTo, Paths
    <2>2. NextStep = "file" => server'.stored = UpTo(main'.i - 1) BY <1>5, <2>1
    <2>3. DirectoryCourse' BY <1>4, <1>5, <2>2 DEF DirectoryCourse
    <2>4. FileCourse' BY <1>4, <1>5 DEF FileCourse
    <2> QED BY <1>2, <1>4, <1>5, <2>3, <2>4 DEF OnCourse
  <1>6. Batches \in Nat \ {0} /\ MaxFiles <= Batches * Batch
    <2>1. MaxFiles \in Nat \ {0} /\ Batch \in Nat \ {0} BY <1>1 DEF Undisturbed, Paths
    <2>2. Batches = TotalParts(MaxFiles, Batch) BY <2>1, AllFiles DEF Batches, TotalParts
    <2> QED BY <2>1, <2>2, TotalPartsFit
  <1>7. CASE main.at = "job"
    <2>1. Request = [op |-> "job"] /\ NextStep = "entries" BY <1>6, <1>7 DEF Request, NextStep
    <2>2. server.job = "none" /\ Listed(server) = {} /\ server.stored = {} /\ \A f \in Paths : server.entry[f] # "failed"
      BY <1>3, <1>7 DEF DirectoryCourse
    <2>3. server'.job = "created" /\ server'.entry = server.entry /\ server'.stored = server.stored
      BY <1>2, <2>1, <2>2, AcceptedEffect
    <2>4. UpTo((1 - 1) * Batch) = {}
      <3>1. (1 - 1) * Batch = 0 BY Monotone
      <3> QED BY <3>1 DEF UpTo, Paths
    <2>5. main'.i = 1 BY <1>4, <1>7, <2>1
    <2> QED BY <1>5, <1>6, <2>1, <2>2, <2>3, <2>4, <2>5 DEF Collecting, Listed
  <1>8. CASE main.at = "entries"
    <2> DEFINE paths == {f \in Paths : (main.i - 1) * Batch < f /\ f <= main.i * Batch}
    <2>1. Request = [op |-> "entries", paths |-> paths] BY <1>8 DEF Request
    <2>2. /\ server'.job = "manifest_uploading" /\ server'.stored = server.stored
          /\ \A f \in Paths : server'.entry[f] = IF f \in paths THEN "pending" ELSE server.entry[f]
      <3>1. Request.op = "entries" /\ Request.paths = paths BY <2>1
      <3> HIDE DEF paths
      <3>2. Sound(server) /\ Proper(server, Request) /\ Outcome(server, Request) = "ok" /\ server' = After(server, Request)
        BY <1>2
      <3>3. /\ server'.job = "manifest_uploading" /\ server'.stored = server.stored
            /\ \A f \in Paths : server'.entry[f] = IF f \in Request.paths THEN "pending" ELSE server.entry[f]
        BY <3>1, <3>2, AcceptedEffect
      <3> QED BY <3>1, <3>3
    <2>3. /\ main.i <= Batches /\ main.i # 0 /\ server.stored = {}
          /\ Listed(server) = UpTo((main.i - 1) * Batch) /\ \A f \in Paths : server.entry[f] # "failed"
      BY <1>3, <1>8 DEF DirectoryCourse
    <2>4. (main.i - 1) * Batch \in Int /\ main.i * Batch \in Int /\ (main.i - 1) * Batch <= main.i * Batch
      <3>1. main.i - 1 \in Int /\ Batch \in Nat BY <1>1
      <3> QED BY <1>1, <3>1, Monotone
    <2>5. Listed(server') = UpTo(main.i * Batch)
      <3>1. \A f \in Paths : server.entry[f] # "none" <=> f <= (main.i - 1) * Batch BY <2>3 DEF Listed, UpTo
      <3>2. \A f \in Paths : server'.entry[f] # "none" <=> f <= main.i * Batch
        <4> SUFFICES ASSUME NEW f \in Paths PROVE server'.entry[f] # "none" <=> f <= main.i * Batch OBVIOUS
        <4>1. f \in Int BY DEF Paths
        <4>2. f \in paths <=> (main.i - 1) * Batch < f /\ f <= main.i * Batch OBVIOUS
        <4> HIDE DEF paths
        <4> QED BY <2>2, <2>4, <3>1, <4>1, <4>2
      <3> QED BY <3>2 DEF Listed, UpTo
    <2>6. \A f \in Paths : server'.entry[f] # "failed" BY <2>2, <2>3
    <2> HIDE DEF paths
    <2>7. CASE main.i < Batches
      <3>1. NextStep = "entries" BY <1>8, <2>7 DEF NextStep
      <3>2. main'.i = main.i + 1 BY <1>4, <1>8, <3>1
      <3>3. main'.i <= Batches /\ main'.i # 0 /\ main'.i - 1 = main.i BY <1>1, <1>6, <2>7, <3>2
      <3> QED BY <1>5, <2>2, <2>3, <2>5, <2>6, <3>1, <3>3 DEF Collecting
    <2>8. CASE ~(main.i < Batches)
      <3>1. NextStep = "manifest" BY <1>8, <2>8 DEF NextStep
      <3>2. main.i = Batches BY <1>1, <1>6, <2>3, <2>8
      <3>3. UpTo(main.i * Batch) = Paths BY <1>6, <2>4, <3>2 DEF UpTo, Paths
      <3> QED BY <1>5, <2>2, <2>3, <2>5, <2>6, <3>1, <3>3 DEF Collecting
    <2> QED BY <2>7, <2>8
  <1>9. CASE main.at = "manifest"
    <2>1. Request = [op |-> "manifest"] /\ NextStep = "retry" BY <1>9 DEF Request, NextStep
    <2>2. server'.job = "ready" /\ server'.entry = server.entry /\ server'.stored = server.stored
      BY <1>2, <2>1, AcceptedEffect
    <2> QED BY <1>3, <1>5, <1>9, <2>1, <2>2 DEF DirectoryCourse
  <1>10. CASE main.at = "retry"
    <2>1. Request = [op |-> "retry"] /\ NextStep = "ids" BY <1>10 DEF Request, NextStep
    <2>2. server'.job = "uploading" /\ server'.entry = server.entry /\ server'.stored = server.stored
      BY <1>2, <2>1, AcceptedEffect
    <2> QED BY <1>3, <1>5, <1>10, <2>1, <2>2 DEF DirectoryCourse
  <1>11. CASE main.at = "ids"
    <2>1. Request = [op |-> "ids"] /\ NextStep \in {"ids", "file"} BY <1>11 DEF Request, NextStep
    <2>2. server' = server BY <1>2, <2>1, AcceptedEffect
    <2>3. NextStep = "file" => main'.i = 1 BY <1>4, <1>11
    <2> QED BY <1>3, <1>5, <1>11, <2>1, <2>2, <2>3 DEF DirectoryCourse
  <1> QED BY <1>1, <1>7, <1>8, <1>9, <1>10, <1>11

LEMMA StoreOnCourse ==
  ASSUME ClientInv, FaultsShow, Undisturbed, OnCourse, ~faulty', StoreFile
  PROVE  OnCourse'
  <1>1. /\ main.at = "file" /\ main \in Main /\ main.i \in Paths /\ Request = [op |-> "file", p |-> main.i]
        /\ main.i \in Nat
    BY DEF StoreFile, ClientInv, TypeOK, Main, Informed, DirectoryKnown, Request
  <1>2. Call(Request, main.n, "ok") /\ Goes("uploaded")
    <2>1. main.i \notin server.renamed
      BY <1>1 DEF Undisturbed, ClientInv, StepsApart, DirectorySteps
    <2> QED BY <1>1, <2>1, CallOnCourse DEF StoreFile, Ended
  <1>3. /\ server' = After(server, Request) /\ late' = {} /\ Proper(server, Request)
        /\ Outcome(server, Request) = "ok" /\ Sound(server)
    BY <1>1, <1>2, CallOnCourse DEF Ended
  <1>4. server'.job = server.job /\ server'.entry = server.entry /\ server'.stored = server.stored \union {main.i}
    BY <1>1, <1>3, AcceptedEffect
  <1>5. /\ server.job = "uploading" /\ server.stored = UpTo(main.i - 1) /\ \A f \in Paths : server.entry[f] # "failed"
    BY <1>1 DEF OnCourse, DirectoryCourse, DirectorySteps
  <1>6. UpTo(main.i - 1) \union {main.i} = UpTo(main.i) BY <1>1 DEF UpTo, Paths
  <1>7. main'.at = "uploaded" /\ main'.i = main.i BY <1>1, <1>2 DEF Goes, Main
  <1>8. DirectoryCourse' BY <1>4, <1>5, <1>6, <1>7 DEF DirectoryCourse
  <1> QED BY <1>3, <1>7, <1>8 DEF OnCourse, FileCourse

LEMMA ReportOnCourse ==
  ASSUME ClientInv, FaultsShow, Undisturbed, OnCourse, ~faulty', ReportUploaded
  PROVE  OnCourse'
  <1>1. /\ main.at = "uploaded" /\ main \in Main /\ main.i \in Nat
        /\ Request = [op |-> "result", p |-> main.i, status |-> "uploaded", n |-> main.n]
    BY DEF ReportUploaded, ClientInv, TypeOK, Main, Request
  <1>2. Call(Request, main.n, "ok") /\ NextFile BY <1>1, CallOnCourse DEF ReportUploaded, Ended
  <1>3. /\ server' = After(server, Request) /\ late' = {} /\ Proper(server, Request)
        /\ Outcome(server, Request) = "ok" /\ Sound(server)
    BY <1>1, <1>2, CallOnCourse DEF Ended
  <1>4. /\ server'.job = server.job /\ server'.stored = server.stored
        /\ \A f \in Paths : f # main.i => server'.entry[f] = server.entry[f]
        /\ server'.entry[main.i] = "uploaded"
    BY <1>1, <1>3, AcceptedEffect
  <1>5. /\ server.job = "uploading" /\ server.stored = UpTo(main.i) /\ \A f \in Paths : server.entry[f] # "failed"
    BY <1>1 DEF OnCourse, DirectoryCourse, DirectorySteps
  <1>6. /\ main'.at \in {"file", "finish"}
        /\ main'.at = "file" => main'.i = main.i + 1
    BY <1>1, <1>2 DEF NextFile, Main
  <1>7. \A f \in Paths : server'.entry[f] # "failed" BY <1>4, <1>5
  <1>8. main'.at = "file" => server'.stored = UpTo(main'.i - 1)
    <2> SUFFICES ASSUME main'.at = "file" PROVE server'.stored = UpTo(main'.i - 1) OBVIOUS
    <2>1. \A k, i \in Nat : k = i + 1 => k - 1 = i OBVIOUS
    <2>2. main'.i = main.i + 1 /\ main.i \in Nat BY <1>1, <1>6
    <2>3. main'.i \in Nat BY <2>2
    <2>4. main'.i - 1 = main.i BY <2>1, <2>2, <2>3
    <2> QED BY <1>4, <1>5, <2>4
  <1>9. DirectoryCourse' BY <1>4, <1>5, <1>6, <1>7, <1>8 DEF DirectoryCourse
  <1> QED BY <1>3, <1>6, <1>9 DEF OnCourse, FileCourse

LEMMA EndOnCourse ==
  ASSUME ClientInv, FaultsShow, Undisturbed, OnCourse, ~faulty', FinishJob \/ Stream \/ Probe
  PROVE  OnCourse'
  <1>1. main \in Main /\ main.at \in {"finish", "stream", "probe"} /\ Call(Request, main.n, "ok")
    BY DEF FinishJob, Stream, Probe, Does, ClientInv, TypeOK
  <1>2. late' = {} BY <1>1, CallOnCourse DEF Ended
  <1>3. CASE Probe
    <2>1. main'.at \in {"returned", "ranges"} BY <1>1, <1>3 DEF Probe, Goes, Main
    <2>2. \A i \in DOMAIN worker' : worker'[i].at = "send"
      <3>1. main.width \in Concurrency \union {1} /\ server.size \in Nat
        BY <1>1, TypesOfServer DEF Main, ClientInv
      <3>2. \A k \in Concurrency \union {1} : k \in Nat OBVIOUS
      <3>3. Least(main.width, server.size) \in Nat BY <3>1, <3>2 DEF Least
      <3> QED BY <1>3, <3>3, StartedThreads DEF Probe
    <2> QED BY <1>2, <2>1, <2>2 DEF OnCourse, FileCourse, DirectoryCourse, DirectorySteps
  <1>4. CASE FinishJob \/ Stream
    <2>1. main'.at = "returned" BY <1>1, <1>4 DEF FinishJob, Stream, Goes, Main
    <2> QED BY <1>2, <2>1 DEF OnCourse, FileCourse, DirectoryCourse, DirectorySteps
  <1> QED BY <1>3, <1>4

LEMMA RangeOnCourse ==
  ASSUME ClientInv, OnCourse, ~faulty', NEW i \in DOMAIN worker, RangeRead(i)
  PROVE  OnCourse'
  <1>1. main.at = "ranges" /\ main \in Main /\ main' = main BY DEF RangeRead, ClientInv, TypeOK
  <1>2. PICK result \in {"ok", "refused", "exhausted", "broken"} :
          /\ Call(RangeRequest(i), 1, result)
          /\ worker' = [worker EXCEPT ![i].at = IF result = "ok" THEN "ok" ELSE "failed"]
    BY DEF RangeRead
  <1>3. WorkerRequest(i) = RangeRequest(i) BY <1>1 DEF WorkerRequest
  <1>4. result = "ok" /\ late' = late BY <1>1, <1>2, <1>3, WorkerIsServed, UndisturbedCall
  <1>5. /\ DOMAIN worker' = DOMAIN worker
        /\ \A j \in DOMAIN worker : worker'[j].at = IF j = i THEN "ok" ELSE worker[j].at
    BY <1>2, <1>4, ThreadEnds
  <1> QED BY <1>1, <1>4, <1>5 DEF OnCourse, FileCourse, DirectoryCourse, DirectorySteps


(* What no step changes, and what none takes back. *)
Steady ==
  /\ main'.what = main.what /\ main'.width = main.width
  /\ main'.run = main.run \/ Again
  /\ server'.size = server.size /\ server'.unsafe = server.unsafe /\ server'.renamed = server.renamed
  /\ faulty => faulty'

LEMMA NextSteadily ==
  ASSUME ClientInv, [Next]_vars
  PROVE  Steady
  <1>1. main \in Main /\ server \in Servers(server.size) /\ Sound(server) BY DEF ClientInv, TypeOK, Sound
  <1>2. CASE UNCHANGED vars BY <1>2 DEF vars, Steady
  <1>3. CASE Again BY <1>1, <1>3 DEF Again, Main, Steady
  <1>4. CASE ServeLate BY <1>4, LateServed DEF ServeLate, Grown, Steady
  <1>5. CASE OpenLate BY <1>1, <1>5 DEF OpenLate, Opened, Servers, Steady
  <1>6. CASE ChangeThreshold BY <1>1, <1>6 DEF ChangeThreshold, Servers, Steady
  <1>7. CASE ClientStep
    <2>1. main'.what = main.what /\ main'.width = main.width /\ main'.run = main.run
      BY <1>1, <1>7
      DEF ClientStep, RetryMain, Raises, ReadThreshold, ByThreshold, ConfigBreaks, CreateUpload, JoinParts,
          CompleteUpload, UploadFile, PrepareJob, StoreFile, ReportUploaded, ReportFailed, NextFile, FinishJob,
          Stream, Probe, JoinRanges, PartSent, RetryPart, RangeRead, Goes, Main
    <2>2. ASSUME NEW m, Proper(server, m), server' = After(server, m) PROVE Grown(server, server')
      BY <1>1, <2>2, AfterServes, ServedIsSound
    <2>3. Grown(server, server') BY <1>1, <1>7, <2>2, StepServes, TypesOfServer
    <2> QED BY <1>7, <2>1, <2>3, StepServes DEF Grown, Steady
  <1> QED BY <1>2, <1>3, <1>4, <1>5, <1>6, <1>7 DEF Next

LEMMA CourseKept ==
  ASSUME ClientInv, FaultsShow, Undisturbed => OnCourse, [Next]_vars, Undisturbed'
  PROVE  OnCourse'
  <1>1. Steady BY NextSteadily
  <1>2. ~faulty' /\ main'.run = 1 BY DEF Undisturbed
  <1>3. ~Again
    <2> SUFFICES ASSUME Again PROVE FALSE OBVIOUS
    <2>1. main \in Main BY DEF ClientInv, TypeOK
    <2>2. main.run \in Nat \ {0} /\ main'.run = main.run + 1 BY <2>1 DEF Again, Main
    <2> QED BY <1>2, <2>2
  <1>4. Undisturbed /\ OnCourse BY <1>1, <1>2, <1>3 DEF Undisturbed, Steady
  <1>5. CASE UNCHANGED vars
    <2>1. main' = main /\ server' = server /\ late' = late /\ worker' = worker BY <1>5 DEF vars
    <2> QED BY <1>4, <2>1 DEF OnCourse, FileCourse, DirectoryCourse, UpTo, Collecting, Listed, Parts
  <1>6. CASE ServeLate \/ OpenLate BY <1>4, <1>6 DEF ServeLate, OpenLate, OnCourse
  <1>7. CASE ChangeThreshold
    <2>1. server \in Servers(server.size) BY DEF ClientInv, Sound
    <2>2. /\ main' = main /\ late' = late /\ worker' = worker
          /\ server'.session = server.session /\ server'.parts = server.parts /\ server'.object = server.object
          /\ server'.size = server.size
      BY <1>7, <2>1 DEF ChangeThreshold, Servers
    <2>3. main.at \in {"config", "create"} BY <1>7 DEF ChangeThreshold
    <2> QED BY <1>4, <2>2, <2>3 DEF OnCourse, FileCourse, DirectoryCourse, DirectorySteps
  <1>8. CASE RetryMain
    <2>1. main.at \notin Ended \union {"parts", "ranges"} /\ Retry(Request, main.n) BY <1>8 DEF RetryMain
    <2> QED BY <1>2, <1>4, <2>1, CallOnCourse
  <1>9. CASE Raises \/ ConfigBreaks
    <2>1. /\ main.at \notin Ended \union {"parts", "ranges"} /\ main.at # "failed"
          /\ \E result \in {"refused", "exhausted", "broken"} : Call(Request, main.n, result)
      BY <1>4, <1>9 DEF Raises, ConfigBreaks, Ended, OnCourse
    <2> QED BY <1>2, <1>4, <2>1, CallOnCourse
  <1>10. CASE ReportFailed BY <1>4, <1>10 DEF ReportFailed, OnCourse
  <1>11. ASSUME NEW i \in DOMAIN worker, RetryPart(i) PROVE FALSE
    <2>1. main.at = "parts" /\ Retry(WorkerRequest(i), worker[i].n) BY <1>11 DEF RetryPart
    <2>2. Outcome(server, WorkerRequest(i)) = "ok" BY <1>4, <2>1, WorkerIsServed
    <2> QED BY <1>2, <2>1, <2>2, UndisturbedRetry
  <1>12. CASE ReadThreshold \/ CreateUpload \/ CompleteUpload \/ UploadFile
    BY <1>2, <1>4, <1>12, FileOnCourse DEF Undisturbed
  <1>13. CASE PrepareJob \/ StoreFile \/ ReportUploaded
    BY <1>2, <1>4, <1>13, PrepareOnCourse, StoreOnCourse, ReportOnCourse
  <1>14. CASE FinishJob \/ Stream \/ Probe BY <1>2, <1>4, <1>14, EndOnCourse
  <1>15. CASE JoinParts \/ JoinRanges BY <1>4, <1>15, JoinOnCourse
  <1>16. ASSUME NEW i \in DOMAIN worker, PartSent(i) \/ RangeRead(i) PROVE OnCourse'
    BY <1>2, <1>4, <1>16, PartOnCourse, RangeOnCourse
  <1> QED
    BY <1>3, <1>5, <1>6, <1>7, <1>8, <1>9, <1>10, <1>11, <1>12, <1>13, <1>14, <1>15, <1>16
    DEF Next, ClientStep

LEMMA InitOnCourse == Init => OnCourse
  <1> SUFFICES ASSUME Init PROVE OnCourse OBVIOUS
  <1>1. PICK size \in Sizes, threshold \in Thresholds \union {LocalThreshold}, k \in Concurrency \union {1},
             what \in {"file", "directory", "download"}, backend \in Backends,
             unsafe \in {{}, Paths \intersect {MaxFiles}}, renamed \in {{}, Paths \intersect {MaxFiles}} :
          /\ what # "directory" => unsafe = {} /\ renamed = {}
          /\ what # "download"  => k = 1
          /\ what # "file"      => threshold = LocalThreshold
          /\ server = [NewServer(size, threshold, backend, unsafe, renamed) EXCEPT
                         !.object = IF what = "download" THEN WholeFile(size) ELSE None]
          /\ main = [at |-> CASE what = "file" -> "config"
                              [] what = "directory" -> "job"
                              [] OTHER -> IF k > 1 THEN "probe" ELSE "stream",
                     what |-> what, i |-> 1, sid |-> None, n |-> 1, width |-> k, run |-> 1]
          /\ late = {} /\ worker = NoWorkers /\ cached = None /\ dest = <<>> /\ faulty = FALSE
    BY DEF Init
  <1>2. /\ server.object = IF what = "download" THEN WholeFile(size) ELSE None
        /\ server.job = "none" /\ server.stored = {} /\ \A f \in Paths : server.entry[f] = "none"
    BY <1>1 DEF NewServer
  <1>3. CASE what = "file"
    <2>1. main.at = "config" BY <1>1, <1>3
    <2> QED BY <1>1, <1>2, <1>3, <2>1 DEF OnCourse, FileCourse, DirectoryCourse, DirectorySteps
  <1>4. CASE what = "directory"
    <2>1. main.at = "job" BY <1>1, <1>4
    <2> QED BY <1>1, <1>2, <2>1 DEF OnCourse, FileCourse, DirectoryCourse, Listed
  <1>5. CASE what = "download" /\ k > 1
    <2>1. main.at = "probe" /\ main.width = k BY <1>1, <1>5
    <2> QED BY <1>1, <1>5, <2>1 DEF OnCourse, FileCourse, DirectoryCourse, DirectorySteps
  <1>6. CASE what = "download" /\ ~(k > 1)
    <2>1. main.at = "stream" BY <1>1, <1>6
    <2> QED BY <1>1, <2>1 DEF OnCourse, FileCourse, DirectoryCourse, DirectorySteps
  <1> QED BY <1>1, <1>3, <1>4, <1>5, <1>6

(* upload_large_file, upload_directory and download raise only after a fault,    *)
(* but for the calls that RaisesOnlyAfterFaults names: a directory without        *)
(* entries or with names that the server refuses or normalization changes, a      *)
(* parallel download of an empty object, and a repeated upload.                   *)
THEOREM RaisesSafe == Spec => []RaisesOnlyAfterFaults
  <1>1. Init => (Undisturbed => OnCourse) BY InitOnCourse
  <1>2. ClientInv /\ FaultsShow /\ (Undisturbed => OnCourse) /\ [Next]_vars => (Undisturbed => OnCourse)'
    BY CourseKept
  <1>3. ClientInv /\ (Undisturbed => OnCourse) => RaisesOnlyAfterFaults
    <2> SUFFICES ASSUME ClientInv, Undisturbed => OnCourse, main.at = "raised", ~faulty, main.run = 1
                 PROVE  \/ main.what = "directory" /\ (Paths = {} \/ server.unsafe \union server.renamed # {})
                        \/ main.what = "download" /\ server.size = 0 /\ main.width > 1
      BY DEF RaisesOnlyAfterFaults
    <2>1. ~Undisturbed BY DEF OnCourse
    <2>2. CASE main.what = "download"
      <3>1. server.size = 0 /\ ~(main.width <= 1) BY <2>1, <2>2 DEF Undisturbed
      <3>2. main.width \in Concurrency \union {1} BY DEF ClientInv, TypeOK, Main
      <3>3. \A k \in Concurrency \union {1} : ~(k <= 1) => k > 1 OBVIOUS
      <3>4. main.width > 1 BY <3>1, <3>2, <3>3
      <3> QED BY <2>2, <3>1, <3>4
    <2>3. CASE main.what # "download" BY <2>1, <2>3 DEF Undisturbed
    <2> QED BY <2>2, <2>3
  <1> QED BY <1>1, <1>2, <1>3, AlwaysKnows, AlwaysShown, PTL DEF Spec


-----------------------------------------------------------------------------
(* The contract of the sessions.  SdkServer is a server of whole transactions;   *)
(* that it keeps the contract MultipartUpload keeps ties the two together.      *)

(* The session that has become the file, if one has: a file that upload_file     *)
(* has stored belongs to none.                                                 *)
Owners(sv) == {s \in Sids : sv.session[s] = "completed"}
Owner(sv) == IF Owners(sv) = {} THEN None ELSE CHOOSE s \in Sids : Owners(sv) = {s}

(* The client never sees whether a session in progress is a proxy one.          *)
PhaseOf(sv) == [s \in Sids |-> IF sv.session[s] = "proxy" THEN "open" ELSE sv.session[s]]

Contract == INSTANCE UploadContract WITH
              Sessions <- Sids, None <- None, phase <- PhaseOf(server), owner <- Owner(server)

(* Whatever the client loses, repeats or gives up, the sessions it opens keep     *)
(* the promise of the API: none is opened or completed twice, and no second one   *)
(* ever becomes the file, although the client retries complete around itself.     *)
SessionsKeepContract == Contract!Spec

AtMostOne(sv) == \A s, t \in Owners(sv) : s = t

LEMMA OwnerOf ==
  ASSUME NEW sv, NEW s, Owners(sv) = {s}
  PROVE  s \in Sids /\ Owner(sv) = s
  <1>1. s \in Sids BY DEF Owners
  <1>2. \E t \in Sids : Owners(sv) = {t} BY <1>1
  <1>3. Owners(sv) = {CHOOSE t \in Sids : Owners(sv) = {t}} BY <1>2
  <1>4. (CHOOSE t \in Sids : Owners(sv) = {t}) = s BY <1>3
  <1>5. Owners(sv) # {} OBVIOUS
  <1> QED BY <1>1, <1>4, <1>5 DEF Owner

(* Of all that a request may do, this is what concerns the sessions.             *)
SessionMoves(sv, sw) ==
  \/ sw.session = sv.session
  \/ \E s \in Sids, kind \in {"proxy", "open"} :
       sv.session[s] = "none" /\ sw.session = [sv.session EXCEPT ![s] = kind]
  \/ \E s \in Sids : /\ sv.session[s] = "open" /\ sv.object = None
                     /\ sw.session = [sv.session EXCEPT ![s] = "completed"]

LEMMA SessionsServed ==
  ASSUME NEW sv, Sound(sv), NEW m, Proper(sv, m)
  PROVE  SessionMoves(sv, After(sv, m))
  <1> DEFINE sw == After(sv, m)
  <1>t. sv \in Servers(sv.size) BY DEF Sound
  <1>1. CASE m.op = "create" /\ Outcome(sv, m) = "ok"
    <2>1. sw = [sv EXCEPT !.session[NewSession(sv)] = IF IsProxy(sv) THEN "proxy" ELSE "open"]
      BY <1>1 DEF After
    <2>2. NewSession(sv) \in Sids /\ sv.session[NewSession(sv)] = "none"
      BY <1>1, NewSessionIsFirst DEF Proper, Fresh
    <2> QED BY <1>t, <2>1, <2>2 DEF Servers, SessionMoves
  <1>2. CASE m.op = "complete" /\ sv.session[m.s] = "open" /\ Outcome(sv, m) = "ok"
    <2>1. sw = [sv EXCEPT !.session[m.s] = "completed", !.object = Assembled(sv, m.s)]
      BY <1>2 DEF After
    <2>2. Accepts(sv, m) BY <1>2 DEF Outcome
    <2>3. sv.object = None
      <3>1. ~ Taken(sv, m.s) BY <1>2, <2>2 DEF Outcome
      <3> QED BY <1>2, <3>1 DEF Taken
    <2>4. m.s \in Sids BY <1>2 DEF Proper
    <2> QED BY <1>2, <1>t, <2>1, <2>3, <2>4 DEF Servers, SessionMoves
  <1>3. CASE Serves(sv, m, sw) /\ (Outcome(sv, m) # "ok" \/ m.op \notin {"create", "complete"}
                                  \/ (m.op = "complete" /\ sv.session[m.s] # "open"))
    <2>1. CASE Outcome(sv, m) # "ok" BY <2>1 DEF After, SessionMoves
    <2>2. CASE m.op \notin {"create", "complete"} BY <1>3, <2>2, <1>t DEF Serves, Servers, SessionMoves
    <2>3. CASE m.op = "complete" /\ sv.session[m.s] # "open" BY <2>3 DEF After, SessionMoves
    <2> QED BY <1>3, <2>1, <2>2, <2>3
  <1> QED BY <1>1, <1>2, <1>3, AfterServes

(* Only requests move the sessions.                                            *)
LEMMA SessionsMove ==
  ASSUME ClientInv, [Next]_vars
  PROVE  server'.session = server.session \/ SessionMoves(server, server')
  <1>1. Sound(server) /\ server \in Servers(server.size) BY DEF ClientInv, Sound
  <1>2. CASE UNCHANGED vars BY <1>2 DEF vars
  <1>3. CASE ServeLate
    <2>1. PICK closed, m : /\ Sound(closed) /\ Proper(closed, m) /\ server' = After(closed, m)
                           /\ closed.session = server.session /\ closed.object = server.object
      BY <1>3, LateServed
    <2>2. SessionMoves(closed, server') BY <2>1, SessionsServed
    <2> QED BY <2>1, <2>2 DEF SessionMoves
  <1>4. CASE OpenLate BY <1>1, <1>4 DEF OpenLate, Opened, Servers
  <1>5. CASE ChangeThreshold BY <1>1, <1>5 DEF ChangeThreshold, Servers
  <1>6. CASE Again BY <1>6 DEF Again
  <1>7. CASE ClientStep
    <2>1. CASE server' = server BY <2>1
    <2>2. ASSUME NEW m, Proper(server, m), server' = After(server, m) PROVE SessionMoves(server, server')
      BY <1>1, <2>2, SessionsServed
    <2> QED BY <1>7, <2>1, <2>2, StepServes
  <1> QED BY <1>2, <1>3, <1>4, <1>5, <1>6, <1>7 DEF Next

LEMMA ContractStep ==
  ASSUME ClientInv, AtMostOne(server), [Next]_vars
  PROVE  AtMostOne(server') /\ [Contract!Next]_<<PhaseOf(server), Owner(server)>>
  <1>t. Sound(server) /\ server.session \in [Sids -> Sessions] BY TypesOfServer DEF ClientInv
  <1>1. CASE server'.session = server.session
    <2>1. Owners(server') = Owners(server) /\ PhaseOf(server') = PhaseOf(server)
      BY <1>1 DEF Owners, PhaseOf
    <2>2. Owner(server') = Owner(server) BY <2>1 DEF Owner
    <2> QED BY <2>1, <2>2 DEF AtMostOne
  <1>2. ASSUME NEW s \in Sids, NEW kind \in {"proxy", "open"},
               server.session[s] = "none", server'.session = [server.session EXCEPT ![s] = kind]
        PROVE  AtMostOne(server') /\ [Contract!Next]_<<PhaseOf(server), Owner(server)>>
    <2>1. Owners(server') = Owners(server)
      BY <1>t, <1>2 DEF Owners
    <2>2. Owner(server') = Owner(server) BY <2>1 DEF Owner
    <2>3. PhaseOf(server)[s] = "none" /\ PhaseOf(server') = [PhaseOf(server) EXCEPT ![s] = "open"]
      BY <1>t, <1>2 DEF PhaseOf
    <2>4. Contract!Open(s) BY <2>2, <2>3 DEF Contract!Open
    <2> QED BY <2>1, <2>4 DEF Contract!Next, AtMostOne
  <1>3. ASSUME NEW s \in Sids, server.session[s] = "open", server.object = None,
               server'.session = [server.session EXCEPT ![s] = "completed"]
        PROVE  AtMostOne(server') /\ [Contract!Next]_<<PhaseOf(server), Owner(server)>>
    <2>1. Owners(server) = {}
      <3>1. server.size \in Nat /\ WholeFile(server.size) # None
        <4>1. server.size \in Nat BY <1>t DEF Sound
        <4>2. WholeFile(server.size) \in Seq(Int) BY <4>1 DEF WholeFile
        <4> QED BY <4>1, <4>2
      <3> QED BY <1>3, <1>t, <3>1 DEF Sound, Owners
    <2>2. Owners(server') = {s}
      BY <1>t, <1>3, <2>1 DEF Owners
    <2>3. Owner(server) = None /\ Owner(server') = s
      BY <2>1, <2>2, OwnerOf DEF Owner
    <2>4. PhaseOf(server)[s] = "open" /\ PhaseOf(server') = [PhaseOf(server) EXCEPT ![s] = "completed"]
      BY <1>t, <1>3 DEF PhaseOf
    <2>5. Contract!Complete(s) BY <2>3, <2>4 DEF Contract!Complete
    <2> QED BY <2>2, <2>5 DEF Contract!Next, AtMostOne
  <1>4. CASE SessionMoves(server, server') BY <1>1, <1>2, <1>3, <1>4 DEF SessionMoves
  <1> QED BY <1>1, <1>4, SessionsMove

(* The server the SDK meets implements the same contract of sessions as the       *)
(* handlers of the service do (ContractImplemented of MultipartUploadProofs).     *)
THEOREM SdkKeepsContract == Spec => SessionsKeepContract
  <1>1. Init => AtMostOne(server) /\ Contract!Init
    <2> SUFFICES ASSUME Init PROVE AtMostOne(server) /\ Contract!Init OBVIOUS
    <2>1. \A s \in Sids : server.session[s] = "none" BY DEF Init, NewServer
    <2>2. Owners(server) = {} BY <2>1 DEF Owners
    <2>3. PhaseOf(server) = [s \in Sids |-> "none"] BY <2>1 DEF PhaseOf
    <2> QED BY <2>2, <2>3 DEF AtMostOne, Owner, Contract!Init
  <1>2. ClientInv /\ AtMostOne(server) /\ [Next]_vars
        => AtMostOne(server)' /\ [Contract!Next]_<<PhaseOf(server), Owner(server)>>
    BY ContractStep
  <1> QED BY <1>1, <1>2, AlwaysKnows, PTL DEF Spec, SessionsKeepContract, Contract!Spec


-----------------------------------------------------------------------------
(* Why calls end.  EveryCallEnds needs fairness; what makes it true is that the   *)
(* steps of a call count down, which is a property of each step.               *)

(* Files, batches and pages behind the one at hand. *)
FilesAfter(i) == IF i < MaxFiles THEN MaxFiles - i ELSE 0
BatchesAfter(i) == IF i < Batches THEN Batches - i ELSE 0
PagesAfter(i) == IF i < Pages THEN Pages - i ELSE 0

(* How many calls a method makes at most from a step on, for a directory at its   *)
(* i-th batch, page or file: one call for each batch of entries and page of ids,  *)
(* three for each file.                                                        *)
CallsFrom(at, i) ==
  CASE at \in Ended -> 0
    [] at \in {"upload", "complete", "stream", "ranges", "finish"} -> 1
    [] at \in {"parts", "probe"} -> 2
    [] at = "create"   -> 3
    [] at = "config"   -> 4
    [] at = "failed"   -> 3 * FilesAfter(i) + 2
    [] at = "uploaded" -> 3 * FilesAfter(i) + 3
    [] at = "file"     -> 3 * FilesAfter(i) + 4
    [] at = "ids"      -> 3 * MaxFiles + PagesAfter(i) + 2
    [] at = "retry"    -> 3 * MaxFiles + Pages + 3
    [] at = "manifest" -> 3 * MaxFiles + Pages + 4
    [] at = "entries"  -> 3 * MaxFiles + Pages + BatchesAfter(i) + 5
    [] at = "job"      -> 3 * MaxFiles + Pages + Batches + 6

CallsLeft == CallsFrom(main.at, main.i)

(* The attempts that are left of the call at hand, or of those of the threads. *)
AttemptsLeft ==
  IF main.at \in {"parts", "ranges"}
  THEN {a \in (DOMAIN worker) \X (1 .. MaxAttempts * MaxAttempts) :
          worker[a[1]].at = "send" /\ worker[a[1]].n <= a[2]}
  ELSE {n \in 1 .. MaxAttempts * MaxAttempts : main.n <= n}

Nearer ==
  \/ CallsLeft' < CallsLeft
  \/ CallsLeft' = CallsLeft /\ Cardinality(AttemptsLeft') < Cardinality(AttemptsLeft)

(* Each step of an upload or download leaves fewer calls, or fewer attempts of    *)
(* the calls it makes: no answer, lost answer or dead thread sets it back, and     *)
(* nobody else does.  Only the caller starts again.                            *)
CallsAdvance ==
  [][/\ ClientStep => Nearer
     /\ ~ClientStep => Again \/ UNCHANGED <<main, worker>>]_vars

LEMMA CallsTable ==
  ASSUME NEW i \in Nat
  PROVE  /\ CallsFrom("returned", i) = 0 /\ CallsFrom("raised", i) = 0
         /\ CallsFrom("upload", i) = 1 /\ CallsFrom("complete", i) = 1 /\ CallsFrom("stream", i) = 1
         /\ CallsFrom("ranges", i) = 1 /\ CallsFrom("finish", i) = 1
         /\ CallsFrom("parts", i) = 2 /\ CallsFrom("probe", i) = 2
         /\ CallsFrom("create", i) = 3 /\ CallsFrom("config", i) = 4
         /\ CallsFrom("failed", i) = 3 * FilesAfter(i) + 2
         /\ CallsFrom("uploaded", i) = 3 * FilesAfter(i) + 3
         /\ CallsFrom("file", i) = 3 * FilesAfter(i) + 4
         /\ CallsFrom("ids", i) = 3 * MaxFiles + PagesAfter(i) + 2
         /\ CallsFrom("retry", i) = 3 * MaxFiles + Pages + 3
         /\ CallsFrom("manifest", i) = 3 * MaxFiles + Pages + 4
         /\ CallsFrom("entries", i) = 3 * MaxFiles + Pages + BatchesAfter(i) + 5
         /\ CallsFrom("job", i) = 3 * MaxFiles + Pages + Batches + 6
BY DEF CallsFrom, Ended

LEMMA CountsAreNat ==
  ASSUME NEW i \in Nat
  PROVE  /\ MaxFiles \in Nat /\ Batches \in Nat /\ Pages \in Nat
         /\ FilesAfter(i) \in Nat /\ BatchesAfter(i) \in Nat /\ PagesAfter(i) \in Nat
         /\ BatchesAfter(i) <= Batches /\ PagesAfter(i) <= Pages
  <1>1. MaxFiles \in Nat /\ Batch \in Nat \ {0} /\ PageSize \in Nat \ {0} OBVIOUS
  <1>2. MaxFiles + Batch - 1 \in Nat /\ MaxFiles + PageSize - 1 \in Nat BY <1>1
  <1>3. (MaxFiles + Batch - 1) \div Batch \in Nat /\ (MaxFiles + PageSize - 1) \div PageSize \in Nat
    BY <1>1, <1>2, Blocks
  <1>4. Batches \in Nat /\ Pages \in Nat BY <1>3, AllFiles DEF Batches, Pages
  <1> QED BY <1>1, <1>4 DEF FilesAfter, BatchesAfter, PagesAfter

(* What is left after one more. *)
LEMMA OneLess ==
  ASSUME NEW i \in Nat, NEW n \in Nat, i < n
  PROVE  /\ (IF i + 1 < n THEN n - (i + 1) ELSE 0) + 1 = (IF i < n THEN n - i ELSE 0)
         /\ (IF i + 1 < n THEN n - (i + 1) ELSE 0) \in Nat
OBVIOUS

(* A step that goes on to a later call. *)
LEMMA MovesOn ==
  ASSUME main.i \in Nat, NEW at, main'.at = at, main'.i = main.i,
         CallsFrom(at, main.i) < CallsFrom(main.at, main.i)
  PROVE  Nearer
BY DEF Nearer, CallsLeft

LEMMA RaisingIsNearer ==
  ASSUME ClientInv, main.at \notin Ended, Goes("raised") \/ Goes("returned")
  PROVE  Nearer
  <1>1. main \in Main /\ main.i \in Nat BY DEF ClientInv, TypeOK, Main
  <1>2. PICK at \in Ended : Goes(at) BY DEF Ended
  <1>3. main'.at = at /\ main'.i = main.i BY <1>1, <1>2 DEF Goes, Main
  <1>4. main.at \in {"config", "create", "parts", "complete", "upload", "job", "entries", "manifest", "retry",
                     "ids", "file", "uploaded", "failed", "finish", "probe", "ranges", "stream"}
    BY <1>1 DEF Main, FileSteps, DirectorySteps, DownloadSteps
  <1>5. CallsFrom(main.at, main.i) \in Nat /\ CallsFrom(main.at, main.i) > 0
    <2>1. /\ MaxFiles \in Nat /\ Batches \in Nat /\ Pages \in Nat
          /\ FilesAfter(main.i) \in Nat /\ BatchesAfter(main.i) \in Nat /\ PagesAfter(main.i) \in Nat
      BY <1>1, CountsAreNat
    <2>2. CASE main.at \in {"config", "create", "parts", "complete", "upload", "finish", "probe", "ranges", "stream"}
      BY <1>1, <2>2, CallsTable
    <2>0. \A m, p, b \in Nat : \A k \in 2 .. 6 :
            3 * m + k \in Nat \ {0} /\ 3 * m + p + k \in Nat \ {0} /\ 3 * m + p + b + k \in Nat \ {0}
      OBVIOUS
    <2>3. CASE main.at \in {"file", "uploaded", "failed"}
      <3>1. PICK k \in 2 .. 6 : CallsFrom(main.at, main.i) = 3 * FilesAfter(main.i) + k
        BY <1>1, <2>3, CallsTable
      <3> QED BY <2>0, <2>1, <3>1
    <2>4. CASE main.at \in {"job", "entries", "manifest", "retry", "ids"}
      <3>1. CASE main.at \in {"ids", "retry", "manifest"}
        <4>1. PICK k \in 2 .. 6, p \in {Pages, PagesAfter(main.i)} : CallsFrom(main.at, main.i) = 3 * MaxFiles + p + k
          BY <1>1, <3>1, CallsTable
        <4>2. p \in Nat BY <2>1
        <4> QED BY <2>0, <2>1, <4>1, <4>2
      <3>2. CASE main.at = "entries"
        <4>1. CallsFrom(main.at, main.i) = 3 * MaxFiles + Pages + BatchesAfter(main.i) + 5
          BY <1>1, <3>2, CallsTable
        <4> QED BY <2>0, <2>1, <4>1
      <3>3. CASE main.at = "job"
        <4>1. CallsFrom(main.at, main.i) = 3 * MaxFiles + Pages + Batches + 6 BY <1>1, <3>3, CallsTable
        <4> QED BY <2>0, <2>1, <4>1
      <3> QED BY <2>4, <3>1, <3>2, <3>3
    <2> QED BY <1>4, <2>2, <2>3, <2>4
  <1>6. CallsFrom(at, main.i) = 0 BY <1>1, CallsTable DEF Ended
  <1> QED BY <1>1, <1>3, <1>5, <1>6, MovesOn

(* A step that uses up an attempt. *)
LEMMA UsesUp ==
  ASSUME main'.at = main.at, main'.i = main.i,
         NEW a, AttemptsLeft' \subseteq AttemptsLeft, a \in AttemptsLeft, a \notin AttemptsLeft',
         IsFiniteSet(AttemptsLeft)
  PROVE  Nearer
  <1>1. /\ IsFiniteSet(AttemptsLeft') /\ Cardinality(AttemptsLeft') <= Cardinality(AttemptsLeft)
        /\ Cardinality(AttemptsLeft) = Cardinality(AttemptsLeft') => AttemptsLeft = AttemptsLeft'
    BY FS_Subset
  <1>2. Cardinality(AttemptsLeft') \in Nat /\ Cardinality(AttemptsLeft) \in Nat
    BY <1>1, FS_CardinalityType
  <1>3. AttemptsLeft # AttemptsLeft' OBVIOUS
  <1>4. Cardinality(AttemptsLeft') < Cardinality(AttemptsLeft) BY <1>1, <1>2, <1>3
  <1>5. CallsLeft' = CallsLeft BY DEF CallsLeft
  <1> QED BY <1>4, <1>5 DEF Nearer

LEMMA AttemptsAreFinite ==
  ASSUME ClientInv
  PROVE  IsFiniteSet(AttemptsLeft)
  <1> DEFINE numbers == 1 .. MaxAttempts * MaxAttempts
  <1>1. MaxAttempts * MaxAttempts \in Int BY AttemptsBound
  <1>2. IsFiniteSet(numbers) BY <1>1, FS_Interval
  <1>3. IsFiniteSet(DOMAIN worker)
    <2>1. worker \in Seq(Worker) BY DEF ClientInv, TypeOK
    <2>2. DOMAIN worker = 1 .. Len(worker) /\ Len(worker) \in Int BY <2>1
    <2> QED BY <2>2, FS_Interval
  <1>4. IsFiniteSet((DOMAIN worker) \X numbers) BY <1>2, <1>3, FS_Product
  <1>5. AttemptsLeft \in SUBSET ((DOMAIN worker) \X numbers) \/ AttemptsLeft \in SUBSET numbers
    BY DEF AttemptsLeft
  <1> HIDE DEF numbers
  <1> QED BY <1>2, <1>4, <1>5, FS_Subset

(* A thread that sends once more, or is done. *)
LEMMA ThreadIsNearer ==
  ASSUME ClientInv, NEW i \in DOMAIN worker, main.at \in {"parts", "ranges"}, main' = main,
         worker[i].at = "send", worker'[i].at # "send" \/ worker'[i].n = worker[i].n + 1,
         DOMAIN worker' = DOMAIN worker, \A j \in DOMAIN worker : j # i => worker'[j] = worker[j]
  PROVE  Nearer
  <1>1. worker[i].n \in 1 .. MaxAttempts * MaxAttempts
    <2>1. worker \in Seq(Worker) BY DEF ClientInv, TypeOK
    <2>2. worker[i] \in Worker BY <2>1
    <2> QED BY <2>2 DEF Worker
  <1>2. MaxAttempts * MaxAttempts \in Nat BY AttemptsBound
  <1>3. <<i, worker[i].n>> \in AttemptsLeft BY <1>1, <1>2 DEF AttemptsLeft
  <1>4. <<i, worker[i].n>> \notin AttemptsLeft' BY <1>1, <1>2 DEF AttemptsLeft
  <1>5. ASSUME NEW a \in AttemptsLeft' PROVE a \in AttemptsLeft
    <2>1. /\ a \in (DOMAIN worker) \X (1 .. MaxAttempts * MaxAttempts)
          /\ worker'[a[1]].at = "send" /\ worker'[a[1]].n <= a[2]
      BY <1>5 DEF AttemptsLeft
    <2>2. a[1] # i => worker'[a[1]] = worker[a[1]] BY <2>1
    <2>3. CASE a[1] # i BY <2>1, <2>2, <2>3 DEF AttemptsLeft
    <2>4. CASE a[1] = i
      <3>1. worker[i].n <= a[2] BY <1>1, <1>2, <2>1, <2>4
      <3> QED BY <2>1, <2>4, <3>1 DEF AttemptsLeft
    <2> QED BY <2>3, <2>4
  <1> QED BY <1>3, <1>4, <1>5, AttemptsAreFinite, UsesUp

LEMMA RetryMainIsNearer ==
  ASSUME ClientInv, RetryMain
  PROVE  Nearer
  <1>1. main \in Main /\ main.n \in 1 .. MaxAttempts * MaxAttempts BY DEF ClientInv, TypeOK, Main
  <1>2. Attempts(Request.op) \in 1 .. MaxAttempts * MaxAttempts /\ MaxAttempts * MaxAttempts \in Nat
    BY AttemptsBound
  <1>3. main.n < Attempts(Request.op) BY DEF RetryMain, Retry
  <1>4. main' = [main EXCEPT !.n = main.n + 1] BY <1>3 DEF RetryMain
  <1>5. main'.n = main.n + 1 /\ main'.at = main.at /\ main'.i = main.i BY <1>1, <1>4 DEF Main
  <1>6. main.at \notin {"parts", "ranges"} BY DEF RetryMain
  <1>7. /\ AttemptsLeft = {n \in 1 .. MaxAttempts * MaxAttempts : main.n <= n}
        /\ AttemptsLeft' = {n \in 1 .. MaxAttempts * MaxAttempts : main'.n <= n}
    BY <1>5, <1>6 DEF AttemptsLeft
  <1>8. main.n \in AttemptsLeft /\ main.n \notin AttemptsLeft' /\ AttemptsLeft' \subseteq AttemptsLeft
    BY <1>1, <1>2, <1>5, <1>7
  <1> QED BY <1>5, <1>8, AttemptsAreFinite, UsesUp

LEMMA ThreadStepIsNearer ==
  ASSUME ClientInv, NEW i \in DOMAIN worker, PartSent(i) \/ RetryPart(i) \/ RangeRead(i)
  PROVE  Nearer
  <1>1. worker \in Seq(Worker) /\ worker[i] \in Worker BY DEF ClientInv, TypeOK
  <1>2. main.at \in {"parts", "ranges"} /\ main' = main /\ worker[i].at = "send"
    BY DEF PartSent, RetryPart, RangeRead
  <1>3. CASE PartSent(i) \/ RangeRead(i)
    <2>1. PICK at \in {"ok", "failed"} : worker' = [worker EXCEPT ![i].at = at]
      BY <1>3 DEF PartSent, RangeRead
    <2>2. worker'[i].at # "send" /\ DOMAIN worker' = DOMAIN worker
          /\ \A j \in DOMAIN worker : j # i => worker'[j] = worker[j]
      BY <1>1, <2>1 DEF Worker
    <2> QED BY <1>2, <2>2, ThreadIsNearer
  <1>4. CASE RetryPart(i)
    <2>1. WorkerRequest(i).op = "part" BY <1>4 DEF RetryPart, WorkerRequest
    <2>2. worker[i].n < Attempts("part") BY <1>4, <2>1 DEF RetryPart, Retry
    <2>3. worker' = [worker EXCEPT ![i].n = worker[i].n + 1] BY <1>4, <2>2 DEF RetryPart
    <2>4. worker'[i].n = worker[i].n + 1 /\ DOMAIN worker' = DOMAIN worker
          /\ \A j \in DOMAIN worker : j # i => worker'[j] = worker[j]
      BY <1>1, <2>3 DEF Worker
    <2> QED BY <1>2, <2>4, ThreadIsNearer
  <1> QED BY <1>3, <1>4

LEMMA FileIsNearer ==
  ASSUME ClientInv, \/ ReadThreshold \/ CreateUpload \/ JoinParts \/ CompleteUpload \/ UploadFile
                    \/ FinishJob \/ Stream \/ Probe \/ JoinRanges
  PROVE  Nearer
  <1>1. main \in Main /\ main.i \in Nat BY DEF ClientInv, TypeOK, Main
  <1>2. CASE ReadThreshold
    <2>1. main.at = "config" /\ main'.at \in {"create", "upload"} /\ main'.i = main.i
      BY <1>1, <1>2 DEF ReadThreshold, ByThreshold, Main
    <2> QED BY <1>1, <2>1, CallsTable, MovesOn
  <1>3. CASE CreateUpload
    <2>1. main.at = "create" /\ main'.at \in {"parts", "upload"} /\ main'.i = main.i
      BY <1>1, <1>3 DEF CreateUpload, Does, Main
    <2> QED BY <1>1, <2>1, CallsTable, MovesOn
  <1>4. CASE JoinParts
    <2>1. main.at = "parts" /\ main'.at \in {"complete", "raised"} /\ main'.i = main.i
      BY <1>1, <1>4 DEF JoinParts, Goes, Main
    <2> QED BY <1>1, <2>1, CallsTable, MovesOn
  <1>5. CASE Probe
    <2>1. main.at = "probe" /\ main'.at \in {"ranges", "returned"} /\ main'.i = main.i
      BY <1>1, <1>5 DEF Probe, Does, Goes, Main
    <2> QED BY <1>1, <2>1, CallsTable, MovesOn
  <1>6. CASE CompleteUpload \/ UploadFile \/ FinishJob \/ Stream \/ JoinRanges
    <2>1. main.at \notin Ended /\ (Goes("returned") \/ Goes("raised"))
      BY <1>6 DEF CompleteUpload, UploadFile, FinishJob, Stream, JoinRanges, Does, Ended
    <2> QED BY <2>1, RaisingIsNearer
  <1> QED BY <1>2, <1>3, <1>4, <1>5, <1>6

LEMMA NextFileIsNearer ==
  ASSUME ClientInv, main.at \in {"uploaded", "failed"}, NextFile
  PROVE  Nearer
  <1>1. main \in Main /\ main.i \in Nat BY DEF ClientInv, TypeOK, Main
  <1>2. MaxFiles \in Nat /\ FilesAfter(main.i) \in Nat BY <1>1, CountsAreNat
  <1>3. CASE main.i < Cardinality(Paths)
    <2>1. main'.at = "file" /\ main'.i = main.i + 1 BY <1>1, <1>3 DEF NextFile, Main
    <2>2. FilesAfter(main.i + 1) + 1 = FilesAfter(main.i)
      <3>1. main.i \in Nat /\ MaxFiles \in Nat /\ main.i < MaxFiles BY <1>1, <1>2, <1>3, AllFiles
      <3> QED BY <3>1, OneLess DEF FilesAfter
    <2>3. CallsFrom("file", main.i + 1) = 3 * FilesAfter(main.i + 1) + 4 BY <1>1, CallsTable
    <2>4. /\ main.at = "uploaded" => CallsFrom(main.at, main.i) = 3 * FilesAfter(main.i) + 3
          /\ main.at = "failed" => CallsFrom(main.at, main.i) = 3 * FilesAfter(main.i) + 2
      BY <1>1, CallsTable
    <2>5. FilesAfter(main.i + 1) \in Nat
      <3>1. main.i + 1 \in Nat BY <1>1
      <3> QED BY <3>1, CountsAreNat
    <2>6. CallsFrom("file", main.i + 1) < CallsFrom(main.at, main.i)
      BY <1>2, <2>2, <2>3, <2>4, <2>5
    <2> QED BY <2>1, <2>6 DEF Nearer, CallsLeft
  <1>4. CASE ~(main.i < Cardinality(Paths))
    <2>1. main'.at = "finish" /\ main'.i = main.i BY <1>1, <1>4 DEF NextFile, Main
    <2>2. /\ CallsFrom("finish", main.i) = 1
          /\ main.at = "uploaded" => CallsFrom(main.at, main.i) = 3 * FilesAfter(main.i) + 3
          /\ main.at = "failed" => CallsFrom(main.at, main.i) = 3 * FilesAfter(main.i) + 2
      BY <1>1, CallsTable
    <2>3. CallsFrom("finish", main.i) < CallsFrom(main.at, main.i) BY <1>2, <2>2
    <2> QED BY <1>1, <2>1, <2>3, MovesOn
  <1> QED BY <1>3, <1>4

LEMMA DirectoryIsNearer ==
  ASSUME ClientInv, PrepareJob \/ StoreFile \/ ReportUploaded \/ ReportFailed
  PROVE  Nearer
  <1>1. main \in Main /\ main.i \in Nat BY DEF ClientInv, TypeOK, Main
  <1>2. /\ MaxFiles \in Nat /\ Batches \in Nat /\ Pages \in Nat
        /\ FilesAfter(main.i) \in Nat /\ BatchesAfter(main.i) \in Nat /\ PagesAfter(main.i) \in Nat
    BY <1>1, CountsAreNat
  <1>3. CASE PrepareJob
    <2>0. \A m, p, b, c \in Nat : b + 1 = c => /\ 3 * m + p + b + 5 < 3 * m + p + c + 5
                                            /\ 3 * m + b + 2 < 3 * m + c + 2
      OBVIOUS
    <2>1. CASE main.at = "entries" /\ main.i < Batches
      <3>1. NextStep = "entries" BY <2>1 DEF NextStep
      <3>2. main'.at = "entries" /\ main'.i = main.i + 1 BY <1>1, <1>3, <2>1, <3>1 DEF PrepareJob, Main
      <3>3. BatchesAfter(main.i + 1) + 1 = BatchesAfter(main.i) /\ BatchesAfter(main.i + 1) \in Nat
        <4>1. main.i \in Nat /\ Batches \in Nat /\ main.i < Batches BY <1>1, <1>2, <2>1
        <4> QED BY <4>1, OneLess DEF BatchesAfter
      <3>4. /\ CallsFrom("entries", main.i + 1) = 3 * MaxFiles + Pages + BatchesAfter(main.i + 1) + 5
            /\ CallsFrom("entries", main.i) = 3 * MaxFiles + Pages + BatchesAfter(main.i) + 5
        BY <1>1, CallsTable
      <3>5. CallsFrom("entries", main.i + 1) < CallsFrom("entries", main.i) BY <1>2, <2>0, <3>3, <3>4
      <3> QED BY <2>1, <3>2, <3>5 DEF Nearer, CallsLeft
    <2>2. CASE main.at = "ids" /\ main.i < Pages
      <3>1. NextStep = "ids" BY <2>2 DEF NextStep
      <3>2. main'.at = "ids" /\ main'.i = main.i + 1 BY <1>1, <1>3, <2>2, <3>1 DEF PrepareJob, Main
      <3>3. PagesAfter(main.i + 1) + 1 = PagesAfter(main.i) /\ PagesAfter(main.i + 1) \in Nat
        <4>1. main.i \in Nat /\ Pages \in Nat /\ main.i < Pages BY <1>1, <1>2, <2>2
        <4> QED BY <4>1, OneLess DEF PagesAfter
      <3>4. /\ CallsFrom("ids", main.i + 1) = 3 * MaxFiles + PagesAfter(main.i + 1) + 2
            /\ CallsFrom("ids", main.i) = 3 * MaxFiles + PagesAfter(main.i) + 2
        BY <1>1, CallsTable
      <3>5. CallsFrom("ids", main.i + 1) < CallsFrom("ids", main.i) BY <1>2, <2>0, <3>3, <3>4
      <3> QED BY <2>2, <3>2, <3>5 DEF Nearer, CallsLeft
    <2>3. CASE ~(main.at = "entries" /\ main.i < Batches) /\ ~(main.at = "ids" /\ main.i < Pages)
      <3>1. /\ main.at = "job" => NextStep \in {"entries", "manifest"}
            /\ main.at = "entries" => NextStep = "manifest"
            /\ main.at = "manifest" => NextStep = "retry"
            /\ main.at = "retry" => NextStep = "ids"
            /\ main.at = "ids" => NextStep = "file"
        BY <2>3 DEF NextStep
      <3>2. main.at \in {"job", "entries", "manifest", "retry", "ids"} BY <1>3 DEF PrepareJob
      <3>3. NextStep # main.at BY <3>1, <3>2
      <3>4. main'.at = NextStep /\ main'.i = 1 BY <1>1, <1>3, <3>3 DEF PrepareJob, Main
      <3>5. /\ FilesAfter(1) \in Nat /\ (MaxFiles # 0 => FilesAfter(1) + 1 <= MaxFiles)
            /\ BatchesAfter(1) \in Nat /\ BatchesAfter(1) <= Batches
            /\ PagesAfter(1) \in Nat /\ PagesAfter(1) <= Pages
        <4>1. 1 \in Nat OBVIOUS
        <4>2. MaxFiles # 0 => FilesAfter(1) + 1 <= MaxFiles BY <1>2 DEF FilesAfter
        <4> QED BY <4>1, <4>2, CountsAreNat
      <3>6. /\ CallsFrom("entries", 1) = 3 * MaxFiles + Pages + BatchesAfter(1) + 5
            /\ CallsFrom("file", 1) = 3 * FilesAfter(1) + 4
            /\ CallsFrom("manifest", 1) = 3 * MaxFiles + Pages + 4
            /\ CallsFrom("retry", 1) = 3 * MaxFiles + Pages + 3
            /\ CallsFrom("ids", 1) = 3 * MaxFiles + PagesAfter(1) + 2
        BY CallsTable
      <3>7. /\ CallsFrom("job", main.i) = 3 * MaxFiles + Pages + Batches + 6
            /\ CallsFrom("entries", main.i) = 3 * MaxFiles + Pages + BatchesAfter(main.i) + 5
            /\ CallsFrom("manifest", main.i) = 3 * MaxFiles + Pages + 4
            /\ CallsFrom("retry", main.i) = 3 * MaxFiles + Pages + 3
            /\ CallsFrom("ids", main.i) = 3 * MaxFiles + PagesAfter(main.i) + 2
        BY <1>1, CallsTable
      <3>8. main.at = "ids" => MaxFiles # 0
        BY DEF ClientInv, Informed, DirectoryKnown, Sound, Paths
      <3>9. CallsFrom(NextStep, 1) < CallsFrom(main.at, main.i)
        <4>0. \A m, p, q, b, c, f \in Nat :
                /\ b <= c => 3 * m + p + b + 5 < 3 * m + p + c + 6
                /\ 3 * m + p + 4 < 3 * m + p + b + 6 /\ 3 * m + p + 4 < 3 * m + p + b + 5
                /\ 3 * m + p + 3 < 3 * m + p + 4
                /\ q <= p => 3 * m + q + 2 < 3 * m + p + 3
                /\ f + 1 <= m => 3 * f + 4 < 3 * m + q + 2
          OBVIOUS
        <4>1. CASE main.at = "job"
          <5>1. /\ 3 * MaxFiles + Pages + BatchesAfter(1) + 5 < 3 * MaxFiles + Pages + Batches + 6
                /\ 3 * MaxFiles + Pages + 4 < 3 * MaxFiles + Pages + Batches + 6
            BY <1>2, <3>5, <4>0
          <5> QED BY <3>1, <3>6, <3>7, <4>1, <5>1
        <4>2. CASE main.at = "entries"
          <5>1. 3 * MaxFiles + Pages + 4 < 3 * MaxFiles + Pages + BatchesAfter(main.i) + 5 BY <1>2, <4>0
          <5> QED BY <3>1, <3>6, <3>7, <4>2, <5>1
        <4>3. CASE main.at = "manifest" BY <1>2, <3>1, <3>6, <3>7, <4>0, <4>3
        <4>4. CASE main.at = "retry"
          <5>1. 3 * MaxFiles + PagesAfter(1) + 2 < 3 * MaxFiles + Pages + 3 BY <1>2, <3>5, <4>0
          <5> QED BY <3>1, <3>6, <3>7, <4>4, <5>1
        <4>5. CASE main.at = "ids"
          <5>1. 3 * FilesAfter(1) + 4 < 3 * MaxFiles + PagesAfter(main.i) + 2 BY <1>2, <3>5, <3>8, <4>0, <4>5
          <5> QED BY <3>1, <3>6, <3>7, <4>5, <5>1
        <4> QED BY <3>2, <4>1, <4>2, <4>3, <4>4, <4>5
      <3> QED BY <3>4, <3>9 DEF Nearer, CallsLeft
    <2> QED BY <2>1, <2>2, <2>3
  <1>4. CASE StoreFile
    <2>1. main.at = "file" BY <1>4 DEF StoreFile
    <2>2. CASE Goes("raised") BY <2>1, <2>2, RaisingIsNearer DEF Ended
    <2>3. CASE Goes("uploaded") \/ Goes("failed")
      <3>1. main'.at \in {"uploaded", "failed"} /\ main'.i = main.i BY <1>1, <2>3 DEF Goes, Main
      <3>2. /\ CallsFrom("file", main.i) = 3 * FilesAfter(main.i) + 4
            /\ CallsFrom("uploaded", main.i) = 3 * FilesAfter(main.i) + 3
            /\ CallsFrom("failed", main.i) = 3 * FilesAfter(main.i) + 2
        BY <1>1, CallsTable
      <3>3. \A f \in Nat : 3 * f + 2 < 3 * f + 4 /\ 3 * f + 3 < 3 * f + 4 OBVIOUS
      <3>4. CASE main'.at = "uploaded" BY <1>1, <1>2, <2>1, <3>1, <3>2, <3>3, <3>4, MovesOn
      <3>5. CASE main'.at = "failed" BY <1>1, <1>2, <2>1, <3>1, <3>2, <3>3, <3>5, MovesOn
      <3> QED BY <3>1, <3>4, <3>5
    <2> QED BY <1>4, <2>2, <2>3 DEF StoreFile
  <1>5. CASE ReportUploaded \/ ReportFailed
    <2>1. main.at \in {"uploaded", "failed"} BY <1>5 DEF ReportUploaded, ReportFailed
    <2>2. CASE NextFile BY <2>1, <2>2, NextFileIsNearer
    <2>3. CASE Goes("raised") BY <2>1, <2>3, RaisingIsNearer DEF Ended
    <2>4. CASE main.at = "uploaded" /\ Goes("failed")
      <3>1. main'.at = "failed" /\ main'.i = main.i BY <1>1, <2>4 DEF Goes, Main
      <3>2. /\ CallsFrom("uploaded", main.i) = 3 * FilesAfter(main.i) + 3
            /\ CallsFrom("failed", main.i) = 3 * FilesAfter(main.i) + 2
        BY <1>1, CallsTable
      <3>3. CallsFrom("failed", main.i) < CallsFrom(main.at, main.i) BY <1>2, <2>4, <3>2
      <3> QED BY <1>1, <3>1, <3>3, MovesOn
    <2> QED BY <1>5, <2>2, <2>3, <2>4 DEF ReportUploaded, ReportFailed
  <1> QED BY <1>3, <1>4, <1>5

LEMMA StepIsNearer ==
  ASSUME ClientInv, ClientStep
  PROVE  Nearer
  <1>1. CASE Raises \/ ConfigBreaks
    <2>1. main.at \notin Ended /\ Goes("raised") BY <1>1 DEF Raises, ConfigBreaks, Ended
    <2> QED BY <2>1, RaisingIsNearer
  <1> QED BY <1>1, RetryMainIsNearer, ThreadStepIsNearer, FileIsNearer, DirectoryIsNearer DEF ClientStep

(* Every upload and download is bounded: by three calls for each file, one for   *)
(* each batch of entries, one for each page of ids and six more, of at most       *)
(* MaxAttempts * MaxAttempts attempts each (by each thread of the pool, where      *)
(* there is one).                                                              *)
THEOREM CallsAreBounded == Spec => CallsAdvance
  <1> DEFINE Good == /\ ClientStep => Nearer
                     /\ ~ClientStep => Again \/ UNCHANGED <<main, worker>>
  <1>1. ClientInv /\ [Next]_vars => [Good]_vars
    BY StepIsNearer DEF Next, OpenLate, ServeLate, ChangeThreshold
  <1> HIDE DEF Good
  <1>2. Spec => [][Good]_vars BY <1>1, AlwaysKnows, PTL DEF Spec
  <1> QED BY <1>2, PTL DEF CallsAdvance, Good
=============================================================================
