--------------------------- MODULE ClipperCapture ---------------------------
(***************************************************************************)
(* Web page capture of the browser extension: the toolbar click handler of *)
(* the service worker, the reservation it keeps in memory and in one slot  *)
(* of the session storage, the task the offscreen document runs, and the   *)
(* result it sends back.  The service worker may be stopped between any    *)
(* two awaits and lose its memory; the storage and the offscreen document  *)
(* survive it.                                                             *)
(*                                                                         *)
(* A page stands for its normalized URL, a task id for a fresh UUID (they  *)
(* are handed out in order), and an etag for the version of a node.  Two   *)
(* pages may hash to the same path.  Sign-in, canister, page script and    *)
(* network errors are free.  The badge of the tab is modelled elsewhere.   *)
(***************************************************************************)
EXTENDS Integers, FiniteSets

CONSTANTS
  Pages,
  Path,         \* Pages -> path of the evidence source (8 hex digits of a hash)
  Databases,    \* writable databases the user may select
  MaxTasks,     \* clicks explored
  MaxVersions,  \* versions of a node explored
  MaxStops      \* stops of the service worker explored

VARIABLES
  handler,      \* task -> the click handler running in the service worker
  job,          \* task -> the offscreen task and its result
  active,       \* activeSourceCaptures: key -> entry, in memory
  slot,         \* the in-flight record of the session storage
  aged,         \* tasks whose reservation is past its two minutes
  stops,        \* stops of the service worker so far
  node          \* <<database, path>> -> [page, etag] or NoNode

vars == <<handler, job, active, slot, aged, stops, node>>

None == "none"
Tasks == 1..MaxTasks
Keys == Databases \X Pages
NoNode == [page |-> None, etag |-> 0]
NoEntry == [task |-> 0, pending |-> FALSE]
NoRecord == [key |-> <<None, None>>, task |-> 0]
Idle == [pc |-> "idle", page |-> None, database |-> None, queue |-> FALSE, seen |-> NoRecord, now |-> {}]
NoJob == [pc |-> "none", etag |-> 0]

\* sourceCaptureInFlightKey
Key(t) == <<handler[t].database, handler[t].page>>
Source(t) == <<handler[t].database, Path[handler[t].page]>>

-----------------------------------------------------------------------------
(* Click handler: reservation                                              *)

\* handleActionClick to the first look at the reservation, with a database
\* configured.
handleActionClick(t, page, d, queue) ==
  /\ handler[t].pc = "idle" /\ \A u \in 1..(t - 1) : handler[u].pc # "idle"
  /\ handler' = [handler EXCEPT ![t] = [Idle EXCEPT !.pc = "reserve", !.page = page,
                                         !.database = d, !.queue = queue]]
  /\ UNCHANGED <<job, active, slot, aged, stops, node>>

To(t, pc) == handler' = [handler EXCEPT ![t].pc = pc]

Pending(t) ==
  /\ active' = [active EXCEPT ![Key(t)] = [task |-> t, pending |-> TRUE]]
  /\ handler' = [handler EXCEPT ![t].pc = "reading", ![t].now = aged]

\* reserveSourceCapture up to its first await; it reads the clock once.
ReserveInMemory(t) ==
  LET e == active[Key(t)] IN
  /\ handler[t].pc = "reserve"
  /\ \/ (e = NoEntry \/ e.task \in aged) /\ Pending(t)
     \/ e # NoEntry /\ e.task \notin aged /\ e.pending /\ To(t, "done") /\ UNCHANGED active
     \/ /\ e # NoEntry /\ e.task \notin aged /\ ~e.pending
        /\ handler' = [handler EXCEPT ![t].pc = "checking", ![t].now = aged]
        /\ UNCHANGED active
  /\ UNCHANGED <<job, slot, aged, stops, node>>

\* readInFlightRecord: the value may be old when the handler goes on.
ReadRecord(t) ==
  /\ handler[t].pc \in {"checking", "reading"}
  /\ handler' = [handler EXCEPT ![t].seen = slot,
                                ![t].pc = IF @ = "checking" THEN "checked" ELSE "read"]
  /\ UNCHANGED <<job, active, slot, aged, stops, node>>

\* The entry in memory is confirmed by the stored record, or dropped.
ConfirmEntry(t) ==
  LET h == handler[t] IN
  /\ h.pc = "checked"
  /\ IF h.seen.key = Key(t) /\ h.seen.task = active[Key(t)].task /\ h.seen.task \notin h.now
     THEN To(t, "done") /\ UNCHANGED active
     ELSE /\ active' = [active EXCEPT ![Key(t)] = [task |-> t, pending |-> TRUE]]
          /\ To(t, "reading")
  /\ UNCHANGED <<job, slot, aged, stops, node>>

HeldByRecord(t) ==
  LET seen == handler[t].seen IN seen.key = Key(t) /\ seen.task \notin handler[t].now

\* The stored record decides; it is written when the page is free.
WriteRecord(t) ==
  /\ handler[t].pc = "read"
  /\ IF HeldByRecord(t)
     THEN /\ To(t, "done")
          /\ active' = [active EXCEPT ![Key(t)] = NoEntry]
          /\ UNCHANGED slot
     ELSE /\ slot' = [key |-> Key(t), task |-> t]
          /\ active' = [active EXCEPT ![Key(t)] = [task |-> t, pending |-> FALSE]]
          /\ To(t, "reserved")
  /\ UNCHANGED <<job, aged, stops, node>>

\* SOURCE_CAPTURE_IN_FLIGHT_TTL_MS passes; a storage call is far shorter.
TimePasses(t) ==
  /\ t \notin aged /\ handler[t].pc \notin {"reading", "read", "checking", "checked"}
  /\ slot.task = t \/ \E k \in Keys : active[k].task = t
  /\ aged' = aged \cup {t}
  /\ UNCHANGED <<handler, job, active, slot, stops, node>>

-----------------------------------------------------------------------------
(* Click handler: capture and hand-over                                    *)

\* requireMatchingWebSourceUrl
Conflicts(t) == node[Source(t)] # NoNode /\ node[Source(t)].page # handler[t].page

\* captureTabSource and findWebSource.  A source that is there is enough when
\* no page is to be generated from it.
FindWebSource(t, fails) ==
  /\ handler[t].pc = "reserved"
  /\ IF fails \/ Conflicts(t) \/ (node[Source(t)] # NoNode /\ ~handler[t].queue)
     THEN To(t, "release") ELSE To(t, "send")
  /\ UNCHANGED <<job, active, slot, aged, stops, node>>

\* The offscreen document accepts the task, or the message fails.
SendTask(t, fails) ==
  /\ handler[t].pc = "send"
  /\ IF fails THEN To(t, "release") /\ UNCHANGED job
     ELSE To(t, "done") /\ job' = [job EXCEPT ![t].pc = "save"]
  /\ UNCHANGED <<active, slot, aged, stops, node>>

\* releaseSourceCapture: the entry of the page goes, whoever made it.
ReleaseEntry(t) ==
  /\ handler[t].pc = "release"
  /\ active' = [active EXCEPT ![Key(t)] = NoEntry]
  /\ handler' = [handler EXCEPT ![t].pc = "remove", ![t].seen = slot]
  /\ UNCHANGED <<job, slot, aged, stops, node>>

\* The record read is the task's own; the one removed may be another's.
ReleaseRecord(t) ==
  LET mine == handler[t].seen.key = Key(t) /\ handler[t].seen.task = t IN
  /\ handler[t].pc = "remove"
  /\ To(t, "done")
  /\ slot' = IF mine THEN NoRecord ELSE slot
  /\ UNCHANGED <<job, active, aged, stops, node>>

-----------------------------------------------------------------------------
(* Offscreen document                                                      *)

\* saveEvidenceSource to its read: session, cycles balance, URL of the node.
SaveReads(t, fails) ==
  /\ job[t].pc = "save"
  /\ job' = [job EXCEPT ![t] = IF fails \/ Conflicts(t) THEN [pc |-> "result", etag |-> 0]
                               ELSE [pc |-> "write", etag |-> node[Source(t)].etag]]
  /\ UNCHANGED <<handler, active, slot, aged, stops, node>>

ExpectedEtag_None(t) == TRUE

\* write_source_for_generation refuses a node that is not the version read.
ExpectedEtag(t) == job[t].etag = node[Source(t)].etag

SaveWrites(t, fails) ==
  /\ job[t].pc = "write"
  /\ IF fails \/ ~ExpectedEtag(t)
     THEN job' = [job EXCEPT ![t] = [pc |-> "result", etag |-> 0]] /\ UNCHANGED node
     ELSE /\ node[Source(t)].etag < MaxVersions
          /\ node' = [node EXCEPT ![Source(t)] = [page |-> handler[t].page, etag |-> @.etag + 1]]
          /\ job' = [job EXCEPT ![t] = [pc |-> IF handler[t].queue THEN "trigger" ELSE "result",
                                        etag |-> node[Source(t)].etag + 1]]
  /\ UNCHANGED <<handler, active, slot, aged, stops>>

\* triggerSourceGeneration: a failure is part of the result.
Trigger(t) ==
  /\ job[t].pc = "trigger"
  /\ job' = [job EXCEPT ![t].pc = "result"]
  /\ UNCHANGED <<handler, active, slot, aged, stops, node>>

-----------------------------------------------------------------------------
(* Result of the task                                                      *)

isActiveSourceCapture(t) ==
  LET e == active[Key(t)] IN
  /\ slot.key = Key(t) /\ slot.task = t
  /\ IF e # NoEntry THEN e.task \notin aged ELSE t \notin aged

\* A result that is not of the stored capture changes nothing but an entry
\* past its time; the other ends the capture.
handleSourceCaptureTaskResult(t) ==
  /\ job[t].pc = "result" /\ handler[t].pc = "done"
  /\ job' = [job EXCEPT ![t].pc = "over"]
  /\ IF isActiveSourceCapture(t)
     THEN To(t, "release") /\ UNCHANGED active
     ELSE /\ active' = IF active[Key(t)].task \in aged
                       THEN [active EXCEPT ![Key(t)] = NoEntry] ELSE active
          /\ UNCHANGED handler
  /\ UNCHANGED <<slot, aged, stops, node>>

\* The browser stops the service worker: its memory and handlers are gone.
WorkerStops ==
  /\ stops < MaxStops
  /\ stops' = stops + 1
  /\ active' = [k \in Keys |-> NoEntry]
  /\ handler' = [t \in Tasks |-> IF handler[t].pc = "idle" THEN handler[t]
                                 ELSE [handler[t] EXCEPT !.pc = "done"]]
  /\ UNCHANGED <<job, slot, aged, node>>

\* Another client saves a page at the path.
OtherClient(d, page) ==
  LET s == <<d, Path[page]>> IN
  /\ node[s].etag < MaxVersions
  /\ node' = [node EXCEPT ![s] = [page |-> page, etag |-> @.etag + 1]]
  /\ UNCHANGED <<handler, job, active, slot, aged, stops>>

-----------------------------------------------------------------------------

Init ==
  /\ handler = [t \in Tasks |-> Idle]
  /\ job = [t \in Tasks |-> NoJob]
  /\ active = [k \in Keys |-> NoEntry]
  /\ slot = NoRecord
  /\ aged = {}
  /\ stops = 0
  /\ node = [s \in Databases \X {Path[p] : p \in Pages} |-> NoNode]

\* handleMessage, handleOffscreenMessage and the listeners
Next ==
  \/ \E t \in Tasks, p \in Pages, d \in Databases, q \in BOOLEAN : handleActionClick(t, p, d, q)
  \/ \E t \in Tasks, fails \in BOOLEAN :
       \/ FindWebSource(t, fails)
       \/ SendTask(t, fails)
       \/ SaveReads(t, fails)
       \/ SaveWrites(t, fails)
  \/ \E t \in Tasks :
       \/ ReserveInMemory(t)
       \/ ReadRecord(t)
       \/ ConfirmEntry(t)
       \/ WriteRecord(t)
       \/ TimePasses(t)
       \/ ReleaseEntry(t)
       \/ ReleaseRecord(t)
       \/ Trigger(t)
       \/ handleSourceCaptureTaskResult(t)
  \/ WorkerStops
  \/ \E d \in Databases, p \in Pages : OtherClient(d, p)

Spec == Init /\ [][Next]_vars

-----------------------------------------------------------------------------
(* Properties                                                              *)

\* A capture is under way from its reservation to its result.
Running(t) ==
  handler[t].pc \in {"reserved", "send"} \/ job[t].pc \in {"save", "write", "trigger"}

\* A second capture of a page is refused while one is under way and within its
\* two minutes.  The code does not keep this: a capture of another page takes
\* the one record of the session storage, after which the first is forgotten.
DuplicateCaptureRejected ==
  \A t, u \in Tasks :
    t < u /\ Running(t) /\ Running(u) /\ Key(t) = Key(u) => {t, u} \cap aged # {}

\* The extension never replaces the evidence source of another page, though it
\* reads the node, creates the folders and writes in separate calls and other
\* clients write in between.
KeepsPage ==
  \A t \in Tasks : job[t].pc = "write" /\ node' # node /\ job'[t].pc # "write"
    => node[Source(t)].page \in {None, handler[t].page}
SourceKeepsItsPage == [][KeepsPage]_vars
=============================================================================
