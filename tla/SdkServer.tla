------------------------------ MODULE SdkServer ------------------------------
(***************************************************************************)
(* The API as the Python SDK meets it: what each request answers and what it *)
(* leaves behind, as functions of the server's state.  A request is served   *)
(* in one step here; MultipartUpload and DirectoryJob take the handlers       *)
(* apart.  What a client that gives a request up can still meet is kept: on   *)
(* the local store the request goes on writing a file that others read or     *)
(* write.  One object key for files, one directory job, and no other client.  *)
(***************************************************************************)
EXTENDS PartLayout, Sequences, FiniteSets, SequencesExt

CONSTANTS
  PartSize,    \* part_size the client asks for
  MaxSessions, \* bound: upload sessions
  MaxFiles,    \* bound: files of the directory
  None

Sids  == 1 .. MaxSessions  \* in the order of creation
Paths == 1 .. MaxFiles     \* in the order of the walk

ASSUME ServerAssumption ==
  /\ PartSize \in Nat \ {0}
  /\ MaxSessions \in Nat /\ MaxFiles \in Nat
  /\ None \notin Int \union Seq(Int)

(* The server's state: size is that of the file the client uploads, or of the *)
(* object it downloads; object is the sequence of the positions stored.        *)
(* unsafe are the names only the server refuses ("~", control characters, two   *)
(* names that become one); renamed those that the normalization in the walk     *)
(* changes.  writing tells which files of the local store are cut short just    *)
(* now, because a request the client has given up has opened and not yet        *)
(* written them: <<s, p>> is part p of session s, <<s, 0>> and <<0, 0>> the      *)
(* object's temporary file, opened by the completion of s or by an upload.       *)
NewServer(size, threshold, backend, unsafe, renamed) ==
  [size |-> size, threshold |-> threshold, backend |-> backend,
   unsafe |-> unsafe, renamed |-> renamed, writing |-> {},
   session |-> [s \in Sids |-> "none"],
   parts   |-> [s \in Sids |-> [p \in 1 .. TotalParts(size, PartSize) |-> None]],
   object  |-> None,
   job     |-> "none",
   entry   |-> [f \in Paths |-> "none"],
   stored  |-> {}]

Parts(server) == 1 .. TotalParts(server.size, PartSize)
Fresh(server) == {s \in Sids : server.session[s] = "none"}
NewSession(server) == CHOOSE s \in Fresh(server) : \A t \in Fresh(server) : s <= t

(* A byte that is not there, and an object some of whose bytes are not. *)
Hole == -1
Torn == <<Hole>>

(* The temporary file of the object belongs to all its writers. *)
SharesTemporary(server) == \E s \in Sids \union {0} : <<s, 0>> \in server.writing

(* What complete_multipart_upload makes of the parts, in order of number, and   *)
(* put_object of the file.  A completion compares neither sizes nor digests      *)
(* with what it reads.                                                          *)
Assembled(server, s) ==
  IF SharesTemporary(server) \/ \E p \in Parts(server) : <<s, p>> \in server.writing
  THEN Torn
  ELSE FlattenSeq(server.parts[s])

Put(server) == IF SharesTemporary(server) THEN Torn ELSE WholeFile(server.size)

(* upload_mode "automatic": a file over the threshold gets a multipart upload. *)
IsProxy(server) == server.size <= server.threshold

Listed(server) == {f \in Paths : server.entry[f] # "none"}
Collecting(server) == server.job \in {"created", "manifest_uploading"}

-----------------------------------------------------------------------------
(* The requests that are served; the others are refused with a 4xx, or, when  *)
(* the completed session's object is already another session's file, with a   *)
(* 500 (the INSERT breaks the unique key and nothing handles it).             *)

Completable(server, s) ==
  \/ server.session[s] = "completed"
  \/ \A p \in Parts(server) : server.parts[s][p] # None

Taken(server, s) == server.session[s] # "completed" /\ server.object # None

(* add_entries: no path twice, and only before the manifest is complete. *)
Addable(server, paths) ==
  Collecting(server) /\ paths \intersect (Listed(server) \union server.unsafe) = {}

(* manifest/complete: there are entries, and the client's hash and counts are  *)
(* those of all its files.                                                    *)
ManifestMatches(server) ==
  Collecting(server) /\ Listed(server) # {} /\ Listed(server) = Paths

(* complete of the job: a completed one is answered as it is; a "ready" one    *)
(* cannot be finalized; a failed entry refuses.                               *)
Finishable(server) ==
  \/ server.job = "completed"
  \/ server.job = "uploading" /\ \A f \in Paths : server.entry[f] # "failed"

Accepts(server, m) ==
  CASE m.op = "create"   -> server.object = None
    [] m.op = "part"     -> server.session[m.s] = "open"
    [] m.op = "complete" -> Completable(server, m.s)
    [] m.op = "upload"   -> server.object = None
    [] m.op = "range"    -> Satisfiable(m.first, m.last, server.size)
    [] m.op = "entries"  -> Addable(server, m.paths)
    [] m.op = "manifest" -> ManifestMatches(server)
    [] m.op = "retry"    -> server.job = "ready"
    [] m.op = "file"     -> m.p \notin server.stored
    [] m.op = "result"   -> server.entry[m.p] # "none"
    [] m.op = "finish"   -> Finishable(server)
    [] OTHER             -> TRUE

(* "ok", "refused" (an error the client does not retry) or "error" (a 5xx); or  *)
(* it "waits": another completion of the session has its row.                 *)
Outcome(server, m) ==
  IF m.op = "complete" /\ <<m.s, 0>> \in server.writing THEN "waits"
  ELSE IF ~Accepts(server, m) THEN "refused"
  ELSE IF m.op = "complete" /\ Taken(server, m.s) THEN "error"
  ELSE "ok"

(* What a request that is served leaves behind. *)
After(server, m) ==
  IF Outcome(server, m) # "ok" THEN server ELSE
  CASE m.op = "create"   -> [server EXCEPT !.session[NewSession(server)] =
                               IF IsProxy(server) THEN "proxy" ELSE "open"]
    [] m.op = "part"     -> [server EXCEPT !.parts[m.s][m.p] = m.bytes,
                               !.writing = @ \ {<<m.s, m.p>>}]
    [] m.op = "complete" /\ server.session[m.s] = "open" ->
         [server EXCEPT !.session[m.s] = "completed", !.object = Assembled(server, m.s)]
    [] m.op = "upload"   -> [server EXCEPT !.object = Put(server)]
    [] m.op = "job"      -> [server EXCEPT !.job = IF @ = "none" THEN "created" ELSE @]
    [] m.op = "entries"  -> [server EXCEPT !.job = "manifest_uploading",
                               !.entry = [f \in Paths |-> IF f \in m.paths THEN "pending" ELSE @[f]]]
    [] m.op = "manifest" -> [server EXCEPT !.job = "ready"]
    [] m.op = "retry"    -> [server EXCEPT !.job = "uploading"]
    [] m.op = "file"     -> [server EXCEPT !.stored = @ \union {m.p}]
    [] m.op = "result"   -> [server EXCEPT !.entry[m.p] = m.status]
    [] m.op = "finish"   -> [server EXCEPT !.job = "completed"]
    [] OTHER             -> server

-----------------------------------------------------------------------------
(* A request that nobody waits for any more on the local store: its file is     *)
(* opened, which empties it, and written in a later step, or never.            *)

FileOf(m) ==
  CASE m.op = "part"     -> <<m.s, m.p>>
    [] m.op = "complete" -> <<m.s, 0>>
    [] m.op = "upload"   -> <<0, 0>>

Opens(server, m) ==
  /\ server.backend = "local" /\ m.op \in {"part", "complete", "upload"}
  /\ Outcome(server, m) = "ok"
  /\ m.op = "complete" => server.session[m.s] = "open"

Opened(server, m) == [server EXCEPT !.writing = @ \union {FileOf(m)}]

(* The request is over, and so is its writing. *)
Closed(server, m) ==
  IF m.op \in {"part", "complete", "upload"} THEN [server EXCEPT !.writing = @ \ {FileOf(m)}]
  ELSE server
=============================================================================
