------------------------------ MODULE SdkClient ------------------------------
(***************************************************************************)
(* The Python SDK over a network: Client.upload of a file or a directory and *)
(* UploadClient.download (sdk/pyuploadx/client.py, multipart.py,             *)
(* scheduler.py, retry.py) against the server of SdkServer.  A call may be   *)
(* answered by the server, or by a gateway (408, 429, 5xx), or break off;    *)
(* in the last two cases the request is still under way: the server serves it  *)
(* later, or never, or, on the local store, begins and ends to write later.    *)
(***************************************************************************)
EXTENDS SdkServer

CONSTANTS
  Sizes,        \* sizes of the file, in bytes
  Thresholds,   \* values of direct_upload_threshold_bytes
  LocalThreshold, \* large_file_threshold of the client
  Concurrency,  \* concurrency a download may be asked for
  Backends,     \* storage backends
  Batch,        \* entries of one request (500 in the code)
  PageSize,     \* entries of one page of the list of ids (1000 in the code)
  MaxAttempts,  \* max_attempts of retry (5 in the code)
  MaxRuns       \* bound: how often a failed upload is tried again

ASSUME ClientAssumption ==
  /\ Sizes \subseteq Nat /\ Thresholds \subseteq Nat /\ LocalThreshold \in Nat
  /\ Backends \subseteq {"local", "s3"}
  /\ {Batch, PageSize, MaxAttempts, MaxRuns} \subseteq Nat \ {0}
  /\ Concurrency \subseteq Nat \ {0}
  /\ MaxSessions >= MaxRuns

VARIABLES
  server,  \* the state SdkServer's functions are about
  late,    \* requests the client has given up and the server may still serve
  main,    \* the calling thread
  worker,  \* state of the threads of the pool, one for each part or range
  cached,  \* _server_threshold, None until it is read
  dest,    \* the downloaded file: a position, or Hole
  faulty   \* a call has not been answered by the server

vars == <<server, late, main, worker, cached, dest, faulty>>

Ended == {"returned", "raised"}

(* Steps of the three methods. *)
FileSteps == {"config", "create", "parts", "complete", "upload"}
DirectorySteps == {"job", "entries", "manifest", "retry", "ids", "file", "uploaded", "failed", "finish"}
DownloadSteps == {"probe", "ranges", "stream"}

(* Requests whose late service nobody notices: reads, and the creation of a     *)
(* session or a job that nobody then knows (the sweep expires the session).    *)
Forgotten == {"config", "ids", "range", "stream", "create", "job"}

(* at: the call being made; i: which batch or file; sid: the session; n: the  *)
(* attempt; width: concurrency of a download; run: how many uploads so far.   *)
Main == [at : FileSteps \union DirectorySteps \union DownloadSteps \union Ended,
         what : {"file", "directory", "download"}, i : Nat, sid : Sids \union {None},
         n : 1 .. MaxAttempts * MaxAttempts, width : Concurrency \union {1}, run : 1 .. MaxRuns]

NoWorkers == <<>>
Worker == [at : {"send", "ok", "failed"}, n : 1 .. MaxAttempts * MaxAttempts]
Started(k) == [i \in 1 .. k |-> [at |-> "send", n |-> 1]]

TypeOK ==
  /\ main \in Main
  /\ worker \in Seq(Worker)
  /\ cached \in (Thresholds \ {0}) \union {LocalThreshold, None}
  /\ DOMAIN dest \subseteq Nat /\ \A i \in DOMAIN dest : dest[i] \in Bytes(server.size) \union {Hole}
  /\ faulty \in BOOLEAN
  /\ server.job \in {"none", "created", "manifest_uploading", "ready", "uploading", "completed"}
  /\ server.session \in [Sids -> {"none", "proxy", "open", "completed"}]
  /\ \A m \in late : m.op \notin Forgotten

Init ==
  \E size \in Sizes, threshold \in Thresholds \union {LocalThreshold}, k \in Concurrency \union {1},
     what \in {"file", "directory", "download"}, backend \in Backends,
     unsafe \in {{}, Paths \intersect {MaxFiles}}, renamed \in {{}, Paths \intersect {MaxFiles}} :
    /\ what # "directory" => unsafe = {} /\ renamed = {}
    /\ what # "download"  => k = 1
    /\ what # "file"      => threshold = LocalThreshold
    /\ server = [NewServer(size, threshold, backend, unsafe, renamed) EXCEPT
                   !.object = IF what = "download" THEN WholeFile(size) ELSE None]
    /\ main = [at |-> CASE what = "file" -> "config"
                        [] what = "directory" -> "job"
                        [] OTHER -> IF k > 1 THEN "probe" ELSE "stream",
               what |-> what, i |-> 1, sid |-> None, n |-> 1, width |-> k, run |-> 1]
    /\ late = {} /\ worker = NoWorkers /\ cached = None /\ dest = <<>> /\ faulty = FALSE

-----------------------------------------------------------------------------
(* Requests. *)

RangeRequest(i) ==
  [op |-> "range",
   first |-> RangeStart(server.size, Len(worker), i),
   last  |-> RangeEnd(server.size, Len(worker), i)]

(* The attempt number tells two requests apart where serving both matters. *)
Request ==
  CASE main.at = "complete" -> [op |-> "complete", s |-> main.sid]
    [] main.at = "entries"  -> [op |-> "entries", paths |->
           {f \in Paths : (main.i - 1) * Batch < f /\ f <= main.i * Batch}]
    [] main.at = "file"     -> [op |-> "file", p |-> main.i]
    [] main.at \in {"uploaded", "failed"} ->
           [op |-> "result", p |-> main.i, status |-> main.at, n |-> main.n]
    [] main.at = "probe"    -> [op |-> "range", first |-> 0, last |-> 0]
    [] OTHER                -> [op |-> main.at]

WorkerRequest(i) ==
  IF main.at = "parts"
  THEN [op |-> "part", s |-> main.sid, p |-> i, bytes |-> PartBytes(server.size, PartSize, i)]
  ELSE RangeRequest(i)

(* _request retries by itself; the parts and the completion are retried around *)
(* it as well.  upload_file and the downloads use the HTTP client directly, and *)
(* what that returns or raises is not retried.                                 *)
Attempts(op) ==
  CASE op \in {"part", "complete"}       -> MaxAttempts * MaxAttempts
    [] op \in {"upload", "file", "range", "stream"} -> 1
    [] OTHER                             -> MaxAttempts

UnderWay(m) == late' = IF m.op \in Forgotten THEN late ELSE late \union {m}

GivenUp(m) == UnderWay(m) /\ faulty' = TRUE /\ UNCHANGED server

(* The answer is an error the client may retry: a gateway's, or the server's. *)
Unavailable(m) ==
  \/ GivenUp(m)
  \/ Outcome(server, m) = "error" /\ UNCHANGED <<server, late, faulty>>

(* How a call ends after attempt n. *)
Call(m, n, result) ==
  \/ /\ result \in {"ok", "refused"} /\ Outcome(server, m) = result
     /\ server' = After(server, m)
     /\ UNCHANGED <<late, faulty>>
  \/ result = "exhausted" /\ n = Attempts(m.op) /\ Unavailable(m)
  \/ result = "broken" /\ GivenUp(m)

\* Mutant: a call is repeated for as long as it fails.
RetryForEver(m, n) == Unavailable(m)

Retry(m, n) == n < Attempts(m.op) /\ Unavailable(m)

(* A request whose client has gone on begins to write on the local store. *)
OpenLate ==
  \E m \in late :
    /\ Opens(server, m)
    /\ server' = Opened(server, m)
    /\ UNCHANGED <<late, main, worker, cached, dest, faulty>>

(* A request whose client has gone on is served. *)
ServeLate ==
  \E m \in late :
    /\ server' = After(Closed(server, m), m)
    /\ late' = late \ {m}
    /\ UNCHANGED <<main, worker, cached, dest, faulty>>

RetryMain ==
  /\ main.at \notin Ended \union {"parts", "ranges"}
  /\ main.at = "config" => cached = None
  /\ Retry(Request, main.n)
  /\ main' = [main EXCEPT !.n = IF @ < Attempts(Request.op) THEN @ + 1 ELSE @]
  /\ UNCHANGED <<worker, cached, dest>>

Goes(at) == main' = [main EXCEPT !.at = at, !.n = 1]

(* The call of step `from' succeeds. *)
Does(from) == main.at = from /\ Call(Request, main.n, "ok")

(* Every other end of the call of step `from' leaves the method.  That of      *)
(* client-config is caught, unless the connection breaks.                      *)
Raises ==
  /\ main.at \notin Ended \union {"parts", "ranges", "config", "file", "uploaded"}
  /\ \E result \in (IF main.at = "failed" THEN {"exhausted", "broken"}
                    ELSE {"refused", "exhausted", "broken"}) : Call(Request, main.n, result)
  /\ Goes("raised")
  /\ UNCHANGED <<worker, cached, dest>>

-----------------------------------------------------------------------------
(* Client.upload of a file: _resolve_threshold, then upload_large_file or      *)
(* upload_file.  A threshold of 0 is taken for no threshold.                   *)

\* Mutant: a threshold of 0 is kept.
ResolvedAsRead(threshold) == threshold

Resolved(threshold) == IF threshold = 0 THEN LocalThreshold ELSE threshold

ByThreshold(threshold) ==
  main' = [main EXCEPT !.at = IF server.size > threshold THEN "create" ELSE "upload", !.n = 1]

ReadThreshold ==
  /\ main.at = "config"
  /\ \/ /\ cached # None
        /\ ByThreshold(cached)
        /\ UNCHANGED <<server, late, cached, faulty>>
     \/ /\ cached = None
        /\ \/ Call(Request, main.n, "ok") /\ cached' = Resolved(server.threshold)
           \/ Call(Request, main.n, "exhausted") /\ cached' = LocalThreshold
        /\ ByThreshold(cached')
  /\ UNCHANGED <<worker, dest>>

ConfigBreaks ==
  /\ main.at = "config" /\ cached = None
  /\ Call(Request, main.n, "broken")
  /\ Goes("raised")
  /\ UNCHANGED <<worker, cached, dest>>

(* create_upload; the session of an answer that was lost is never used.  A     *)
(* session the server has made a proxy one is left as it is.                   *)
CreateUpload ==
  /\ Does("create")
  /\ main' = [main EXCEPT !.at = IF IsProxy(server) THEN "upload" ELSE "parts",
                          !.n = 1, !.sid = NewSession(server)]
  /\ worker' = IF IsProxy(server) THEN NoWorkers ELSE Started(TotalParts(server.size, PartSize))
  /\ UNCHANGED <<cached, dest>>

(* One thread of the pool: a part that is refused is not sent again, and the   *)
(* other parts are sent all the same.                                          *)
PartSent(i) ==
  /\ main.at = "parts" /\ worker[i].at = "send"
  /\ \E result \in {"ok", "refused", "exhausted", "broken"} :
       /\ Call(WorkerRequest(i), worker[i].n, result)
       /\ worker' = [worker EXCEPT ![i].at = IF result = "ok" THEN "ok" ELSE "failed"]
  /\ UNCHANGED <<main, cached, dest>>

RetryPart(i) ==
  /\ main.at = "parts" /\ worker[i].at = "send"
  /\ Retry(WorkerRequest(i), worker[i].n)
  /\ worker' = [worker EXCEPT ![i].n = IF @ < Attempts("part") THEN @ + 1 ELSE @]
  /\ UNCHANGED <<main, cached, dest>>

Over == \A i \in DOMAIN worker : worker[i].at # "send"
AllOk == \A i \in DOMAIN worker : worker[i].at = "ok"

\* Mutant: the first failure leaves the method without waiting for the pool.
JoinPartsEarly ==
  /\ main.at = "parts"
  /\ \/ AllOk /\ Goes("complete")
     \/ (\E i \in DOMAIN worker : worker[i].at = "failed") /\ Goes("raised")
  /\ UNCHANGED <<server, late, worker, cached, dest, faulty>>

(* wait_all raises the first failure; shutdown waits for every thread first.   *)
JoinParts ==
  /\ main.at = "parts" /\ Over
  /\ Goes(IF AllOk THEN "complete" ELSE "raised")
  /\ UNCHANGED <<server, late, worker, cached, dest, faulty>>

CompleteUpload == Does("complete") /\ Goes("returned") /\ UNCHANGED <<worker, cached, dest>>

UploadFile == Does("upload") /\ Goes("returned") /\ UNCHANGED <<worker, cached, dest>>

(* The caller tries a failed upload again, with the same client or a new one.  *)
(* Nothing was saved of the first: it starts from the beginning.               *)
Again ==
  /\ main.at = "raised" /\ main.what = "file" /\ main.run < MaxRuns
  /\ main' = [main EXCEPT !.at = "config", !.n = 1, !.sid = None, !.run = @ + 1]
  /\ worker' = NoWorkers
  /\ cached' \in {cached, None}
  /\ UNCHANGED <<server, late, dest, faulty>>

(* PUT /v1/settings by somebody else. *)
ChangeThreshold ==
  /\ main.what = "file" /\ main.at \in {"config", "create"}
  /\ \E threshold \in Thresholds : server' = [server EXCEPT !.threshold = threshold]
  /\ UNCHANGED <<late, main, worker, cached, dest, faulty>>

-----------------------------------------------------------------------------
(* upload_directory: the job, the entries in batches, the manifest, ready to   *)
(* uploading, the ids of the entries page by page; then file by file the       *)
(* upload and its result; then the completion.                                *)

Batches == (Cardinality(Paths) + Batch - 1) \div Batch
Pages == (Cardinality(Paths) + PageSize - 1) \div PageSize

\* Mutant: the job is completed without having been moved to "uploading".
NextStepWithoutRetry ==
  CASE main.at = "job"      -> IF Batches = 0 THEN "manifest" ELSE "entries"
    [] main.at = "entries"  -> IF main.i < Batches THEN "entries" ELSE "manifest"
    [] main.at = "manifest" -> "ids"
    [] main.at = "ids"      -> IF main.i < Pages THEN "ids" ELSE "file"

NextStep ==
  CASE main.at = "job"      -> IF Batches = 0 THEN "manifest" ELSE "entries"
    [] main.at = "entries"  -> IF main.i < Batches THEN "entries" ELSE "manifest"
    [] main.at = "manifest" -> "retry"
    [] main.at = "retry"    -> "ids"
    [] main.at = "ids"      -> IF main.i < Pages THEN "ids" ELSE "file"

PrepareJob ==
  /\ main.at \in {"job", "entries", "manifest", "retry", "ids"}
  /\ Call(Request, main.n, "ok")
  /\ main' = [main EXCEPT !.at = NextStep, !.n = 1,
                          !.i = IF NextStep = main.at THEN @ + 1 ELSE 1]
  /\ UNCHANGED <<worker, cached, dest>>

(* The file is uploaded by upload_file.  A refusal, or a 5xx the server itself  *)
(* answers, makes the entry a failed one; a gateway's answer is not JSON, and   *)
(* what its parsing raises leaves the method, as a broken connection does.  So  *)
(* does a file that has gone since the walk, or that is not found because the    *)
(* entry has its normalized name.                                              *)
StoreFile ==
  /\ main.at = "file"
  /\ \/ /\ main.i \notin server.renamed
        /\ \/ Call(Request, main.n, "ok") /\ Goes("uploaded")
           \/ \E result \in {"refused", "exhausted"} : Call(Request, main.n, result) /\ Goes("failed")
           \/ \E result \in {"exhausted", "broken"} : Call(Request, main.n, result) /\ Goes("raised")
           \/ Goes("failed") /\ faulty' = TRUE /\ UNCHANGED <<server, late>>
     \/ /\ main.i \in server.renamed
        /\ Goes("failed") /\ UNCHANGED <<server, late, faulty>>
  /\ UNCHANGED <<worker, cached, dest>>

NextFile ==
  main' = IF main.i < Cardinality(Paths) THEN [main EXCEPT !.at = "file", !.n = 1, !.i = @ + 1]
          ELSE [main EXCEPT !.at = "finish", !.n = 1]

(* The result "uploaded": only when every attempt fails is the entry reported  *)
(* failed after all.  A refusal goes unnoticed.                                *)
ReportUploaded ==
  /\ main.at = "uploaded"
  /\ \/ \E result \in {"ok", "refused"} : Call(Request, main.n, result) /\ NextFile
     \/ Call(Request, main.n, "exhausted") /\ Goes("failed")
     \/ Call(Request, main.n, "broken") /\ Goes("raised")
  /\ UNCHANGED <<worker, cached, dest>>

\* Mutant: a file that could not be uploaded is passed over.
ReportFailedNot ==
  /\ main.at = "failed" /\ NextFile
  /\ UNCHANGED <<server, late, worker, cached, dest, faulty>>

(* The result "failed": again a refusal goes unnoticed.                        *)
ReportFailed ==
  /\ main.at = "failed"
  /\ \E result \in {"ok", "refused"} : Call(Request, main.n, result) /\ NextFile
  /\ UNCHANGED <<worker, cached, dest>>

FinishJob == Does("finish") /\ Goes("returned") /\ UNCHANGED <<worker, cached, dest>>

-----------------------------------------------------------------------------
(* download, sequential or (_stream_parallel) with a probe, then one thread    *)
(* for each range, writing at its offset of a file of the full length.         *)

Stream ==
  /\ Does("stream")
  /\ Goes("returned")
  /\ dest' = [i \in Bytes(server.size) |-> server.object[i + 1]]
  /\ UNCHANGED <<worker, cached>>

Probe ==
  /\ Does("probe")
  /\ Goes(IF server.size = 0 THEN "returned" ELSE "ranges")
  /\ dest' = [i \in Bytes(server.size) |-> Hole]
  /\ worker' = Started(Least(main.width, server.size))
  /\ UNCHANGED cached

Written(m) ==
  [i \in DOMAIN dest |->
     IF i \in Served(m.first, m.last, server.size) THEN server.object[i + 1] ELSE dest[i]]

RangeRead(i) ==
  /\ main.at = "ranges" /\ worker[i].at = "send"
  /\ \E result \in {"ok", "refused", "exhausted", "broken"} :
       /\ Call(RangeRequest(i), 1, result)
       /\ worker' = [worker EXCEPT ![i].at = IF result = "ok" THEN "ok" ELSE "failed"]
       /\ dest' = IF result = "ok" THEN Written(RangeRequest(i)) ELSE dest
  /\ UNCHANGED <<main, cached>>

JoinRanges ==
  /\ main.at = "ranges" /\ Over
  /\ Goes(IF AllOk THEN "returned" ELSE "raised")
  /\ UNCHANGED <<server, late, worker, cached, dest, faulty>>

-----------------------------------------------------------------------------

ClientStep ==
  \/ RetryMain \/ Raises
  \/ ReadThreshold \/ ConfigBreaks \/ CreateUpload \/ JoinParts \/ CompleteUpload \/ UploadFile
  \/ PrepareJob \/ StoreFile \/ ReportUploaded \/ ReportFailed \/ FinishJob
  \/ Stream \/ Probe \/ JoinRanges
  \/ \E i \in DOMAIN worker : PartSent(i) \/ RetryPart(i) \/ RangeRead(i)

Next == ClientStep \/ Again \/ OpenLate \/ ServeLate \/ ChangeThreshold

Spec == Init /\ [][Next]_vars

(* Every attempt has an end: the HTTP client's timeout is one.                 *)
FairSpec == Spec /\ WF_vars(ClientStep)

-----------------------------------------------------------------------------
(* Properties. *)

(* A file upload that returns has stored the client's file, each byte in its   *)
(* place, whatever was answered, lost, repeated or served late, by this upload *)
(* or one that failed before it (upload_large_file, upload_file).  Only on the  *)
(* local store, and only after a call that was not answered, may bytes be       *)
(* missing: the request that was given up was writing when the object was made. *)
ReturnedFileIsStored ==
  main.at = "returned" /\ main.what = "file" =>
    \/ server.object = WholeFile(server.size)
    \/ server.object = Torn /\ server.backend = "local" /\ faulty

(* upload_directory returns only when every file of the directory is stored    *)
(* and the job completed, although it reads neither the answers to its results *)
(* nor the entries (client.py:434-466).                                       *)
ReturnedDirectoryIsStored ==
  main.at = "returned" /\ main.what = "directory" =>
    server.stored = Paths /\ server.job = "completed"

(* A download that returns has written every byte of the object (the ranges of *)
(* _stream_parallel and parse_byte_range fit together).                        *)
ReturnedDownloadIsWhole ==
  main.at = "returned" /\ main.what = "download" =>
    dest = [i \in Bytes(server.size) |-> i]

(* No thread of the pool outlives the call that started it.                    *)
ThreadsJoined == main.at \in Ended => Over

(* An upload or download raises only after a fault, as long as the deployment   *)
(* allows what is sent (bucket, size, type, lifecycle, entries of a batch) and    *)
(* the walk succeeds.  The exceptions are a directory without entries, names     *)
(* that only the server refuses or that normalization changes, an empty object   *)
(* downloaded in parallel (the probe asks for its first byte), and a repeated    *)
(* upload.                                                                       *)
RaisesOnlyAfterFaults ==
  main.at = "raised" /\ ~faulty /\ main.run = 1 =>
    \/ main.what = "directory" /\ (Paths = {} \/ server.unsafe \union server.renamed # {})
    \/ main.what = "download" /\ server.size = 0 /\ main.width > 1

(* Every call of the SDK ends, however many of its requests fail.              *)
EveryCallEnds == (main.at \notin Ended) ~> (main.at \in Ended)
=============================================================================
