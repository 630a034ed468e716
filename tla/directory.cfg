SPECIFICATION FairSpec
CONSTANTS
  Paths = {p1, p2}
  Handlers = {w1, w2}
  Results = {"uploaded", "failed"}
  Crashes = TRUE
  None = None
INVARIANTS TypeOK CountersNeverExceedRows UploadingIsSealed
PROPERTIES CompletionIsClean ReopenedOnlyByStaleRequests EveryRequestEnds
CHECK_DEADLOCK FALSE
