--------------------------- MODULE WikiGeneration ---------------------------
(***************************************************************************)
(* The wiki generator worker: a source capture request (a node the user    *)
(* writes) is claimed, its URL fetched, a source node written and a job    *)
(* queued; a job is claimed under a lease, drafted by the language model,  *)
(* checkpointed, written to the target page and completed.  Deliveries     *)
(* crash and are repeated, leases expire under a live invocation, replies  *)
(* of the VFS are lost, and the user edits sources and pages meanwhile.    *)
(***************************************************************************)
EXTENDS Integers, Sequences, FiniteSets

CONSTANTS
    Sources,        \* the source paths a capture may take, in order of variant
    Roots,          \* the generation destinations a caller may ask for
    DefaultRoot,    \* the destination of a message that names none
    Hosts,          \* the hosts a URL or a redirect may name
    Blocked,        \* the hosts isBlockedHostname refuses
    MaxRedirects,
    FinalAttempt,   \* the delivery after which a message is dead-lettered
    MaxMessages,    \* bound: messages ever sent to the queue
    MaxDrafts,      \* bound: drafts the model ever returns
    MaxEdits,       \* bound: edits of the user to the sources and the page
    MaxFaults      \* bound: invocations that die and calls to a queue that fail

ASSUME GenerationAssumption == Sources \subseteq Nat \ {0} /\ MaxMessages \in Nat

VARIABLES
    source,     \* the etag of each source node, 0 when there is none
    jobs,       \* the row of source_jobs of each source path
    page,       \* the target page
    request,    \* the source capture request node
    queue,      \* the messages sent, by id
    work,       \* the invocation that processes a message
    drafts,     \* the drafts bought so far
    written,    \* ghost: the drafts written to the page, with the version they are of
    contacted,  \* ghost: the hosts requests were sent to
    edits, faults

vars == <<source, jobs, page, request, queue, work, drafts, written, contacted, edits, faults>>

Ids == 1 .. MaxMessages
Nobody == 0
Unobserved == -1
NoJob == [etag |-> 0, root |-> DefaultRoot, status |-> "none", owner |-> Nobody,
          expired |-> FALSE, draft |-> 0, seen |-> Unobserved]
NoMessage == [kind |-> "none", src |-> 0, etag |-> 0, root |-> DefaultRoot,
              request |-> FALSE, attempts |-> 0]

\* An invocation at a step of a job, at a step of a capture, and one that only has to settle.
JobStep(pc, draft, seen, resume) ==
    [pc |-> pc, draft |-> draft, seen |-> seen, resume |-> resume, stamp |-> 0, src |-> 0,
     disposition |-> "none"]
CaptureStep(pc, stamp, src) ==
    [pc |-> pc, draft |-> 0, seen |-> Unobserved, resume |-> FALSE, stamp |-> stamp, src |-> src,
     disposition |-> "none"]
Settling(disposition) ==
    [pc |-> "settle", draft |-> 0, seen |-> Unobserved, resume |-> FALSE, stamp |-> 0, src |-> 0,
     disposition |-> disposition]
Idle == CaptureStep("idle", 0, 0)

Unsettled == {"queued", "processing", "generated"}
Terminal == {"completed", "failed"}

----------------------------------------------------------------------------
(* The queue: sending, delivering and settling a message.                  *)

Free == {i \in Ids : queue[i].kind = "none" /\ \A j \in Ids : j < i => queue[j].kind # "none"}

Message(kind, src, etag, root, bound) ==
    [kind |-> kind, src |-> src, etag |-> etag, root |-> root, request |-> bound, attempts |-> 1]

Send(msg) == \E i \in Free : queue' = [queue EXCEPT ![i] = msg]

\* What a delivery is left with once its handler returned: it is settled later.
Settled(m, disposition) ==
    work' = [work EXCEPT ![m] = Settling(disposition)]

To(m, pc) == work' = [work EXCEPT ![m].pc = pc]

\* From the last attempt on, every delivery is handled alike.
Redelivered(m) == [queue EXCEPT ![m].attempts = IF @ < FinalAttempt THEN @ + 1 ELSE @]
Acked(m) == [queue EXCEPT ![m].kind = "gone"]

(* applyDisposition: acknowledge, send a delayed copy, retry, or dead-letter. *)
applyDisposition(m) ==
    /\ work[m].pc = "settle"
    /\ work' = [work EXCEPT ![m] = Idle]
    /\ \/ /\ UNCHANGED faults
          /\ CASE work[m].disposition = "reschedule" ->
                 \E i \in Free : queue' = [Acked(m) EXCEPT ![i] = [queue[m] EXCEPT !.attempts = 1]]
            [] work[m].disposition = "retry" /\ queue[m].attempts < FinalAttempt ->
                 queue' = Redelivered(m)
            [] OTHER -> queue' = Acked(m)
       \/ /\ work[m].disposition # "ack" /\ faults < MaxFaults
          /\ faults' = faults + 1 /\ queue' = Redelivered(m)
    /\ UNCHANGED <<source, jobs, page, request, drafts, written, contacted, edits>>

(* parseQueueMessageEnvelope refuses a message: it is acknowledged with no effect. *)
Malformed(m) ==
    /\ queue[m].kind = "malformed" /\ work[m].pc = "idle"
    /\ Settled(m, "ack")
    /\ UNCHANGED <<source, jobs, page, request, queue, drafts, written, contacted, edits, faults>>

(* The invocation dies: the queue delivers its message again. *)
Crash(m) ==
    /\ work[m].pc # "idle"
    /\ faults < MaxFaults
    /\ faults' = faults + 1
    /\ work' = [work EXCEPT ![m] = Idle]
    /\ queue' = Redelivered(m)
    /\ UNCHANGED <<source, jobs, page, request, drafts, written, contacted, edits>>

----------------------------------------------------------------------------
(* The job rows: every update is one conditional statement of the database. *)

Holds(m, statuses) ==
    LET j == jobs[queue[m].src]
    IN  j.etag = queue[m].etag /\ j.status \in statuses /\ j.owner = m

\* The row j with everything but its version and destination set.
Updated(j, status, owner, expired, draft, seen) ==
    [etag |-> j.etag, root |-> j.root, status |-> status, owner |-> owner, expired |-> expired,
     draft |-> draft, seen |-> seen]

Cleared(j, status) == Updated(j, status, Nobody, FALSE, 0, Unobserved)

QueuedJob(etag, root) ==
    [etag |-> etag, root |-> root, status |-> "queued", owner |-> Nobody, expired |-> FALSE,
     draft |-> 0, seen |-> Unobserved]

Claimable(m) ==
    LET j == jobs[queue[m].src]
    IN  /\ j.etag = queue[m].etag
        /\ j.root = queue[m].root
        /\ j.status \in Unsettled
        /\ j.owner = Nobody \/ j.expired

\* Mutant: a claim forgets that a draft was checkpointed.
ClaimedStatus_Forgets(j) == "processing"

ClaimedStatus(j) == IF j.status = "generated" THEN "generated" ELSE "processing"

checkpointGenerated(m) ==
    jobs' = [jobs EXCEPT ![queue[m].src] =
               Updated(@, "generated", @.owner, @.expired, work[m].draft, Unobserved)]

checkpointGeneratedTarget(m) ==
    jobs' = [jobs EXCEPT ![queue[m].src] =
               Updated(@, @.status, @.owner, @.expired, @.draft, page.stamp)]

releaseForRetry(m) ==
    jobs' = [jobs EXCEPT ![queue[m].src] =
               Updated(@, IF @.status = "generated" THEN "generated" ELSE "queued",
                       Nobody, FALSE, @.draft, @.seen)]

markFailed(m) == jobs' = [jobs EXCEPT ![queue[m].src] = Cleared(@, "failed")]

markCompleted(m) == jobs' = [jobs EXCEPT ![queue[m].src] = Cleared(@, "completed")]

(* upsertQueuedJob: a new version replaces the row; a failed one of the same destination is retried. *)
upsertQueuedJob(src, etag, root) ==
    IF jobs[src].etag # etag \/ (jobs[src].status = "failed" /\ jobs[src].root = root)
    THEN [jobs EXCEPT ![src] = QueuedJob(etag, root)]
    ELSE jobs

(* What enqueueSourceJob does after the reservation: "conflict", "skip" or "send". *)
Enqueue(rows, src, etag, root) ==
    IF rows[src].root # root THEN "conflict"
    ELSE IF rows[src].status = "completed" THEN "skip" ELSE "send"

----------------------------------------------------------------------------
(* The request node: every write carries the etag that was read.           *)

\* Mutant: the request is written over whatever happened to it meanwhile.
Unmoved_Ignored(m) == TRUE

Unmoved(m) == request.stamp = work[m].stamp

WriteRequest(status) ==
    request' = [status |-> status, stamp |-> request.stamp + 1, src |-> request.src]

(* markSourceCaptureRequestFailed leaves a completed request alone. *)
MayFail == request.status # "completed"

markSourceCaptureRequestFailed(m) ==
    IF queue[m].request /\ MayFail THEN WriteRequest("failed") ELSE UNCHANGED request

markSourceCaptureRequestCompleted(m) ==
    IF queue[m].request THEN WriteRequest("completed") ELSE UNCHANGED request

(* writeLatestRequestState: not over a request that is generating or settled. *)
writeLatestRequestState(status) ==
    IF request.status \in Terminal \cup {"generating"} THEN UNCHANGED request ELSE WriteRequest(status)

----------------------------------------------------------------------------
(* Processing a source message.                                            *)

(* handleSupersededSourceMessage: TRUE when the newer version's job stands for this message. *)
Supersedes(m) ==
    LET j == jobs[queue[m].src] IN j.etag # queue[m].etag /\ j.status \in Unsettled \cup {"completed"}

handleSupersededSourceMessage(m) ==
    LET j == jobs[queue[m].src]
    IN  IF j.etag # queue[m].etag /\ j.status = "completed"
        THEN markSourceCaptureRequestCompleted(m) ELSE UNCHANGED request

(* What claimSourceJob answers when it could not claim the row. *)
ClaimAnswer(m) ==
    LET j == jobs[queue[m].src]
    IN  CASE j.etag # queue[m].etag -> "superseded"
          [] j.etag = queue[m].etag /\ j.root # queue[m].root -> "destination_conflict"
          [] j.etag = queue[m].etag /\ j.root = queue[m].root /\ j.status \in Terminal -> j.status
          [] OTHER -> "busy"

(* artifactFromJob: a checkpointed row is resumed where the last owner left it. *)
artifactFromJob(j) ==
    JobStep(IF j.seen = Unobserved THEN "snapshot" ELSE "write", j.draft, j.seen, TRUE)

(* claimSourceJob and the answers that end the delivery at once. *)
ClaimSource(m) ==
    LET j == jobs[queue[m].src]
    IN  /\ queue[m].kind = "source" /\ work[m].pc = "idle"
        /\ \/ /\ Claimable(m)
              /\ jobs' = [jobs EXCEPT ![queue[m].src] =
                            Updated(j, ClaimedStatus(j), m, FALSE, j.draft, j.seen)]
              /\ work' = [work EXCEPT ![m] = IF ClaimedStatus(j) = "generated" THEN artifactFromJob(j)
                                             ELSE JobStep("claimed", 0, Unobserved, FALSE)]
              /\ UNCHANGED request
           \/ /\ ~Claimable(m)
              /\ UNCHANGED jobs
              /\ CASE ClaimAnswer(m) = "superseded" ->
                        handleSupersededSourceMessage(m) /\ Settled(m, "ack")
                   [] ClaimAnswer(m) = "destination_conflict" ->
                        Settled(m, "dead_letter") /\ UNCHANGED request
                   [] ClaimAnswer(m) = "completed" ->
                        markSourceCaptureRequestCompleted(m) /\ Settled(m, "ack")
                   [] ClaimAnswer(m) = "failed" ->
                        /\ markSourceCaptureRequestFailed(m)
                        /\ Settled(m, IF queue[m].attempts >= FinalAttempt THEN "dead_letter" ELSE "ack")
                   [] OTHER -> Settled(m, "reschedule") /\ UNCHANGED request
        /\ UNCHANGED <<source, page, queue, drafts, written, contacted, edits, faults>>

(* A permanent error, and the last attempt of any error, fail the job; otherwise it is released.
   Each of the three updates throws when the lease is lost: the delivery is then retried. *)
GenerationFails(m, permanent) ==
    /\ UNCHANGED <<source, page, queue, written, contacted, edits, faults>>
    /\ IF ~Holds(m, {"processing", "generated"})
       THEN Settled(m, "retry") /\ UNCHANGED <<jobs, request>>
       ELSE IF permanent \/ queue[m].attempts >= FinalAttempt
       THEN markFailed(m) /\ markSourceCaptureRequestFailed(m)
            /\ Settled(m, IF permanent THEN "ack" ELSE "dead_letter")
       ELSE releaseForRetry(m) /\ Settled(m, "retry") /\ UNCHANGED request

(* readRequiredSource and the version check, before anything is paid for. *)
ReadSource(m) ==
    /\ work[m].pc = "claimed"
    /\ \/ /\ source[queue[m].src] = queue[m].etag
          /\ To(m, "authorized")
          /\ UNCHANGED <<source, jobs, page, request, queue, written, contacted, edits, faults>>
       \/ /\ source[queue[m].src] # queue[m].etag /\ Supersedes(m)
          /\ handleSupersededSourceMessage(m)
          /\ Settled(m, "ack")
          /\ UNCHANGED <<source, jobs, page, queue, written, contacted, edits, faults>>
       \/ source[queue[m].src] # queue[m].etag /\ ~Supersedes(m) /\ GenerationFails(m, TRUE)
    /\ UNCHANGED drafts

(* What generateFromSource can fail with, step by step: the cost gate, the context search and its
   reranking, the request to the model, and the validation of the draft and of its size. *)
ensureExternalCostAllowed == {"ExternalCostGateError"}
loadContext == {"JevRefused", "JevRetryable", "SearchFailed"}
requestDeepSeekDraft == {"DeepSeekTimeout", "DeepSeekBusy", "DeepSeekRefused", "DeepSeekResponseError"}
extractDeepSeekResponseText == {"DeepSeekResponseError"}
normalizeDraftCandidate == {"DraftValidationError"}
validateDraftSources == {"DraftValidationError"}
renderGeneratedMarkdown == {"GeneratedArtifactError"}

isPermanentGenerationError(e) ==
    e \in {"ExternalCostGateError", "JevRefused", "DeepSeekRefused", "DeepSeekResponseError",
           "DraftValidationError", "GeneratedArtifactError"}

generateDraft(m) ==
    /\ work[m].pc = "authorized"
    /\ \/ /\ drafts < MaxDrafts
          /\ drafts' = drafts + 1
          /\ work' = [work EXCEPT ![m] = JobStep("drafted", drafts + 1, Unobserved, FALSE)]
          /\ UNCHANGED <<source, jobs, page, request, queue, written, contacted, edits, faults>>
       \/ /\ UNCHANGED drafts
          /\ \E e \in ensureExternalCostAllowed \cup loadContext \cup requestDeepSeekDraft
                    \cup extractDeepSeekResponseText \cup normalizeDraftCandidate
                    \cup validateDraftSources \cup renderGeneratedMarkdown :
                GenerationFails(m, isPermanentGenerationError(e))

Checkpoint(m) ==
    /\ work[m].pc = "drafted"
    /\ UNCHANGED drafts
    /\ \/ /\ Holds(m, {"processing"})
          /\ checkpointGenerated(m)
          /\ To(m, "snapshot")
          /\ UNCHANGED <<source, page, request, queue, written, contacted, edits, faults>>
       \/ ~Holds(m, {"processing"}) /\ GenerationFails(m, FALSE)

(* handleSourceCommitError: the checkpoint is kept; a conflict and the last attempt give up. *)
handleSourceCommitError(m, conflict) ==
    IF ~Holds(m, {"processing", "generated"})
    THEN Settled(m, "retry") /\ UNCHANGED <<jobs, request>>
    ELSE /\ releaseForRetry(m)
         /\ IF conflict \/ queue[m].attempts >= FinalAttempt
            THEN markSourceCaptureRequestFailed(m) /\ Settled(m, "dead_letter")
            ELSE UNCHANGED request /\ Settled(m, "retry")

(* hasMatchingSourceProvenance: the page is absent, or names this source. *)
ensureTargetCanBeWritten(m) == page.stamp = 0 \/ page.from = queue[m].src

SameContent(m) == page.stamp > 0 /\ page.draft = work[m].draft

(* captureGeneratedTargetSnapshot and, for a resumed job, recoverGeneratedTargetSnapshot. *)
Snapshot(m) ==
    /\ work[m].pc = "snapshot"
    /\ LET mayRecord == IF work[m].resume THEN page.stamp = 0 ELSE ensureTargetCanBeWritten(m)
       IN  \/ /\ work[m].resume /\ SameContent(m)
              /\ To(m, "write")
              /\ UNCHANGED <<jobs, request>>
           \/ /\ ~(work[m].resume /\ SameContent(m)) /\ ~mayRecord
              /\ handleSourceCommitError(m, TRUE)
           \/ /\ ~(work[m].resume /\ SameContent(m)) /\ mayRecord
              /\ IF Holds(m, {"generated"})
                 THEN /\ checkpointGeneratedTarget(m)
                      /\ work' = [work EXCEPT ![m] = JobStep("write", @.draft, page.stamp, @.resume)]
                      /\ UNCHANGED request
                 ELSE handleSourceCommitError(m, FALSE)
    /\ UNCHANGED <<source, page, queue, drafts, written, contacted, edits, faults>>

(* writeGeneratedPage: done when the page already has this content, else a write that expects the
   snapshot's etag; its reply may be lost after it was applied. *)
writeGeneratedPage(m) ==
    /\ work[m].pc = "write"
    /\ \/ /\ SameContent(m)
          /\ To(m, "complete")
          /\ UNCHANGED <<page, jobs, request, written>>
       \/ /\ ~SameContent(m) /\ (page.stamp # work[m].seen \/ ~ensureTargetCanBeWritten(m))
          /\ handleSourceCommitError(m, page.stamp # work[m].seen)
          /\ UNCHANGED <<page, written>>
       \/ /\ ~SameContent(m) /\ page.stamp = work[m].seen /\ ensureTargetCanBeWritten(m)
          /\ page' = [stamp |-> page.stamp + 1, draft |-> work[m].draft, from |-> queue[m].src]
          /\ written' = written \cup
               {[src |-> queue[m].src, etag |-> queue[m].etag, draft |-> work[m].draft]}
          /\ \/ To(m, "complete") /\ UNCHANGED <<jobs, request>>
             \/ handleSourceCommitError(m, FALSE)
       \/ /\ ~SameContent(m)
          /\ handleSourceCommitError(m, FALSE)
          /\ UNCHANGED <<page, written>>
    /\ UNCHANGED <<source, queue, drafts, contacted, edits, faults>>

(* markCompleted, with the reload that decides what a failed update meant. *)
Complete(m) ==
    LET j == jobs[queue[m].src]
    IN  /\ work[m].pc = "complete"
        /\ \/ Holds(m, {"generated"}) /\ markCompleted(m) /\ To(m, "request") /\ UNCHANGED request
           \/ /\ ~Holds(m, {"generated"})
              /\ \/ /\ j.etag = queue[m].etag /\ j.status = "completed"
                    /\ To(m, "request") /\ UNCHANGED <<jobs, request>>
                 \/ /\ ~(j.etag = queue[m].etag /\ j.status = "completed")
                    /\ handleSourceCommitError(m, FALSE)
           \/ Settled(m, "reschedule") /\ UNCHANGED <<jobs, request>>
        /\ UNCHANGED <<source, page, queue, drafts, written, contacted, edits, faults>>

(* The request's state follows the job; the log entry after it is best effort. *)
CompleteRequest(m) ==
    /\ work[m].pc = "request"
    /\ \/ markSourceCaptureRequestCompleted(m) /\ Settled(m, "ack")
       \/ /\ queue[m].request /\ UNCHANGED request
          /\ Settled(m, IF queue[m].attempts >= FinalAttempt THEN "reschedule" ELSE "retry")
    /\ UNCHANGED <<source, jobs, page, queue, drafts, written, contacted, edits, faults>>

LeaseExpires(s) ==
    /\ jobs[s].owner # Nobody /\ ~jobs[s].expired
    /\ jobs' = [jobs EXCEPT ![s].expired = TRUE]
    /\ UNCHANGED <<source, page, request, queue, work, drafts, written, contacted, edits, faults>>

----------------------------------------------------------------------------
(* Processing a source capture message.                                    *)

isBlockedHostname(host) == host \in Blocked

(* fetchUrlSource: each hop is checked before it is requested, the first one too. *)
Requested(hops) ==
    LET allowed == {n \in 1 .. Len(hops) : \A k \in 1 .. n : ~isBlockedHostname(hops[k])}
    IN  {hops[n] : n \in {k \in allowed : k <= MaxRedirects + 1}}

Fetches(hops) == Len(hops) <= MaxRedirects + 1 /\ \A n \in 1 .. Len(hops) : ~isBlockedHostname(hops[n])

(* shouldProcessSourceCaptureRequest; any time may pass, so a fetching request may be stale or not. *)
MayProcess == request.status \in {"queued", "source_written", "fetching"}
MayStop == request.status \notin {"queued", "source_written"}

(* claimSourceCaptureRequest; "fetching" is claimed again once it is stale (15 minutes). *)
ClaimCapture(m) ==
    /\ queue[m].kind = "capture" /\ work[m].pc = "idle"
    /\ \/ /\ MayProcess /\ request.status # "source_written"
          /\ WriteRequest("fetching")
          /\ work' = [work EXCEPT ![m] = CaptureStep("fetch", request.stamp + 1, 0)]
       \/ /\ request.status = "source_written"
          /\ work' = [work EXCEPT ![m] = CaptureStep("enqueue", request.stamp, request.src)]
          /\ UNCHANGED request
       \/ /\ MayStop
          /\ Settled(m, "ack") /\ UNCHANGED request
    /\ UNCHANGED <<source, jobs, page, queue, drafts, written, contacted, edits, faults>>

(* An error of the capture: the latest state decides whether the request fails. *)
CaptureFails(m) ==
    writeLatestRequestState("failed") /\ Settled(m, "ack")

(* An etag mismatch: another writer moved the request on; resume from source_written, else stop. *)
reprocessLatestIfRecoverable(m) ==
    /\ UNCHANGED request
    /\ IF request.status = "source_written"
       THEN work' = [work EXCEPT ![m] = CaptureStep("enqueue", request.stamp, request.src)]
       ELSE Settled(m, "ack")

(* The session check, the fetch, and writeFetchedSource at the first variant that is free. *)
Fetch(m) ==
    /\ work[m].pc = "fetch"
    /\ \/ CaptureFails(m) /\ UNCHANGED <<source, contacted>>
       \/ \E hops \in UNION {[1 .. n -> Hosts] : n \in 1 .. MaxRedirects + 2} :
            /\ contacted' = contacted \cup Requested(hops)
            /\ \/ CaptureFails(m) /\ UNCHANGED source
               \/ /\ Fetches(hops)
                  /\ \E s \in Sources :
                       /\ source[s] = 0
                       /\ \A t \in Sources : t < s => source[t] # 0
                       /\ source' = [source EXCEPT ![s] = 1]
                       /\ work' = [work EXCEPT ![m] = CaptureStep("record", @.stamp, s)]
                       /\ UNCHANGED request
    /\ UNCHANGED <<jobs, page, queue, drafts, written, edits, faults>>

RecordSource(m) ==
    /\ work[m].pc = "record"
    /\ IF Unmoved(m)
       THEN /\ request' = [status |-> "source_written", stamp |-> request.stamp + 1, src |-> work[m].src]
            /\ work' = [work EXCEPT ![m] = CaptureStep("enqueue", request.stamp + 1, @.src)]
       ELSE reprocessLatestIfRecoverable(m)
    /\ UNCHANGED <<source, jobs, page, queue, drafts, written, contacted, edits, faults>>

(* enqueueSourceJob: the reservation, then the message, in two steps. *)
Reserve(m) ==
    /\ work[m].pc = "enqueue"
    /\ jobs' = upsertQueuedJob(work[m].src, source[work[m].src], DefaultRoot)
    /\ LET next == Enqueue(jobs', work[m].src, source[work[m].src], DefaultRoot)
       IN  CASE next = "conflict" ->
                  IF Unmoved(m)
                  THEN WriteRequest("failed") /\ Settled(m, "ack")
                  ELSE reprocessLatestIfRecoverable(m)
             [] next = "skip" ->
                  IF Unmoved(m)
                  THEN WriteRequest("completed") /\ Settled(m, "ack")
                  ELSE reprocessLatestIfRecoverable(m)
             [] OTHER -> To(m, "send") /\ UNCHANGED request
    /\ UNCHANGED <<source, page, queue, drafts, written, contacted, edits, faults>>

SendJob(m) ==
    /\ work[m].pc = "send"
    /\ \/ /\ Send(Message("source", work[m].src, source[work[m].src], DefaultRoot, TRUE))
          /\ To(m, "generating") /\ UNCHANGED request
       \/ /\ UNCHANGED queue
          /\ IF Unmoved(m)
             THEN WriteRequest("failed") /\ Settled(m, "ack")
             ELSE reprocessLatestIfRecoverable(m)
    /\ UNCHANGED <<source, jobs, page, drafts, written, contacted, edits, faults>>

(* The last write of the capture: the job may already be done, and the request moved on. *)
Generating(m) ==
    /\ work[m].pc = "generating"
    /\ IF Unmoved(m)
       THEN WriteRequest("generating") /\ Settled(m, "ack")
       ELSE reprocessLatestIfRecoverable(m)
    /\ UNCHANGED <<source, jobs, page, queue, drafts, written, contacted, edits, faults>>

----------------------------------------------------------------------------
(* The callers and the user.                                               *)

(* The /source-capture endpoint sends a capture message; a message of no known shape may be queued too. *)
Trigger ==
    /\ \E kind \in {"capture", "malformed"} : Send(Message(kind, 0, 0, DefaultRoot, FALSE))
    /\ UNCHANGED <<source, jobs, page, request, work, drafts, written, contacted, edits, faults>>

(* runManual: the version must be the current one; dry runs write nothing. *)
runManual(s, root) ==
    /\ source[s] # 0
    /\ jobs' = upsertQueuedJob(s, source[s], root)
    /\ IF Enqueue(jobs', s, source[s], root) = "send"
       THEN Send(Message("source", s, source[s], root, FALSE)) ELSE UNCHANGED queue
    /\ UNCHANGED <<source, page, request, work, drafts, written, contacted, edits, faults>>

EditSource(s) ==
    /\ source[s] # 0 /\ edits < MaxEdits
    /\ edits' = edits + 1
    /\ source' = [source EXCEPT ![s] = @ + 1]
    /\ UNCHANGED <<jobs, page, request, queue, work, drafts, written, contacted, faults>>

(* The user writes the page: its provenance line is kept or not. *)
EditPage ==
    /\ edits < MaxEdits
    /\ edits' = edits + 1
    /\ \E from \in {0, page.from} : page' = [stamp |-> page.stamp + 1, draft |-> 0, from |-> from]
    /\ UNCHANGED <<source, jobs, request, queue, work, drafts, written, contacted, faults>>

Init ==
    /\ source = [s \in Sources |-> 0]
    /\ jobs = [s \in Sources |-> NoJob]
    /\ page = [stamp |-> 0, draft |-> 0, from |-> 0]
    /\ request = [status |-> "queued", stamp |-> 1, src |-> 0]
    /\ queue = [i \in Ids |-> NoMessage]
    /\ work = [i \in Ids |-> Idle]
    /\ drafts = 0 /\ written = {} /\ contacted = {} /\ edits = 0 /\ faults = 0

ProcessSource(m) ==
    \/ ClaimSource(m) \/ ReadSource(m) \/ generateDraft(m) \/ Checkpoint(m) \/ Snapshot(m)
    \/ writeGeneratedPage(m) \/ Complete(m) \/ CompleteRequest(m)

ProcessCapture(m) ==
    \/ ClaimCapture(m) \/ Fetch(m) \/ RecordSource(m) \/ Reserve(m) \/ SendJob(m) \/ Generating(m)

Next ==
    \/ \E m \in Ids : ProcessSource(m) \/ ProcessCapture(m) \/ Malformed(m) \/ applyDisposition(m) \/ Crash(m)
    \/ \E s \in Sources : LeaseExpires(s) \/ EditSource(s)
    \/ \E s \in Sources, root \in Roots : runManual(s, root)
    \/ Trigger \/ EditPage

Spec == Init /\ [][Next]_vars

----------------------------------------------------------------------------
(* However often its message is delivered and its lease taken over, a source version puts one draft
   on the page: a checkpointed draft is resumed, never bought and written again. *)
OneDraftPerVersion ==
    \A a, b \in written : a.src = b.src /\ a.etag = b.etag => a.draft = b.draft

(* "completed" is true: a completed job's draft was written, and a completed request has a source
   some version of which was. *)
CompletedIsWritten ==
    /\ \A s \in Sources :
         jobs[s].status = "completed" => \E w \in written : w.src = s /\ w.etag = jobs[s].etag
    /\ request.status = "completed" => written # {}

(* The fetch reaches no blocked host, neither directly nor by a redirect. *)
NoBlockedHost == contacted \cap Blocked = {}

(* Deliveries that race, expire or crash write one draft per source version, never report work that
   was not written, and fetch nothing from a blocked host. *)
GenerationIsSound == OneDraftPerVersion /\ CompletedIsWritten /\ NoBlockedHost

(* A request that was reported completed is never reopened or failed: not by the capture that still
   has to say "generating", not by a late failure of another delivery. *)
CompletedIsFinal == [][request.status = "completed" => request'.status = "completed"]_vars

=============================================================================
