------------------------- MODULE WikiGenerationProofs -------------------------
(* Theorems about WikiGeneration, for any number of sources, messages,     *)
(* deliveries, crashes and edits.                                          *)
EXTENDS WikiGeneration, TLAPS

-----------------------------------------------------------------------------
(* Types                                                                   *)

Destinations == Roots \cup {DefaultRoot}

JobRecord ==
  [etag : Nat, root : Destinations,
   status : {"none", "queued", "processing", "generated", "completed", "failed"},
   owner : Ids \cup {Nobody}, expired : BOOLEAN, draft : Nat, seen : Int]

MessageRecord ==
  [kind : {"none", "source", "capture", "malformed", "gone"}, src : Sources \cup {0}, etag : Nat,
   root : Destinations, request : BOOLEAN, attempts : Nat]

SourcePlaces == {"claimed", "authorized", "drafted", "snapshot", "write", "complete", "request"}
CapturePlaces == {"fetch", "record", "enqueue", "send", "generating"}
Dispositions == {"none", "ack", "retry", "reschedule", "dead_letter"}

WorkRecord ==
  [pc : {"idle", "settle"} \cup SourcePlaces \cup CapturePlaces, draft : Nat, seen : Int,
   resume : BOOLEAN, stamp : Nat, src : Sources \cup {0},
   disposition : Dispositions]

RequestRecord ==
  [status : {"queued", "fetching", "source_written", "generating", "completed", "failed"},
   stamp : Nat, src : Sources \cup {0}]

\* Rows, nodes, messages and invocations keep their types.
GenerationTypes ==
  /\ source \in [Sources -> Nat]
  /\ jobs \in [Sources -> JobRecord]
  /\ page \in [stamp : Nat, draft : Nat, from : Sources \cup {0}]
  /\ request \in RequestRecord
  /\ queue \in [Ids -> MessageRecord]
  /\ work \in [Ids -> WorkRecord]
  /\ drafts \in Nat
  /\ written \in SUBSET [src : Sources, etag : Nat, draft : Nat]

-----------------------------------------------------------------------------
(* The inductive invariant                                                 *)

\* Where an invocation is goes with the message it processes and with what the
\* capture has found.
Placed(m) ==
  /\ work[m].pc \in SourcePlaces => queue[m].kind = "source"
  /\ work[m].pc \in CapturePlaces => queue[m].kind = "capture"
  /\ work[m].pc # "idle" => queue[m].kind \in {"source", "capture", "malformed"}
  /\ work[m].pc \in CapturePlaces \ {"fetch"} => work[m].src \in Sources /\ source[work[m].src] > 0
  /\ queue[m].kind = "source" =>
       queue[m].src \in Sources /\ queue[m].etag > 0 /\ queue[m].etag <= source[queue[m].src]

PlaceInv ==
  /\ \A m \in Ids : Placed(m)
  /\ request.status = "source_written" => request.src \in Sources /\ source[request.src] > 0
  /\ \A s \in Sources : jobs[s].etag <= source[s]

\* An invocation that has seen the latest request knows it is not settled.
StampInv ==
  \A m \in Ids :
    /\ work[m].stamp <= request.stamp
    /\ work[m].pc \in CapturePlaces /\ work[m].stamp = request.stamp =>
         request.status \in {"fetching", "source_written"}

\* A job that is being drafted by its owner has no checkpoint yet.
DraftingInv ==
  \A m \in Ids :
    work[m].pc \in {"claimed", "authorized", "drafted"} /\ Holds(m, {"processing", "generated"}) =>
      jobs[queue[m].src].status = "processing"

\* The draft an invocation holds, and the one a row was checkpointed with.
HeldBy(m) == [src |-> queue[m].src, etag |-> queue[m].etag, draft |-> work[m].draft]
RowDraft(s) == [src |-> s, etag |-> jobs[s].etag, draft |-> jobs[s].draft]

\* Drafts that were or may be written, and with them those that exist at all.
Committing == {m \in Ids : work[m].pc \in {"snapshot", "write"}}
Commits == written \cup {HeldBy(m) : m \in Committing}
Held == {HeldBy(m) : m \in {k \in Ids : work[k].pc = "drafted"}}
Checkpoints == {RowDraft(s) : s \in {t \in Sources : jobs[t].status = "generated"}}
Existing == Commits \cup Held \cup Checkpoints

\* The row of a version with a commit has moved on, is done, or keeps its draft.
Backed(c) ==
  LET j == jobs[c.src] IN
  /\ c.etag <= j.etag
  /\ c.etag = j.etag => j.status = "completed" \/ (j.status = "generated" /\ j.draft = c.draft)

CommitInv ==
  /\ \A c \in Commits : Backed(c)
  /\ \A c, d \in Commits : c.src = d.src /\ c.etag = d.etag => c.draft = d.draft

\* A draft was bought for one version of one source.
DraftInv ==
  /\ \A d \in Existing : d.draft > 0 /\ d.draft <= drafts
  /\ \A c, d \in Existing : c.draft = d.draft => c.src = d.src /\ c.etag = d.etag

WrittenOf(s, etag) == \E w \in written : w.src = s /\ w.etag = etag

\* What is on the page or said to be done was written.
DoneInv ==
  /\ page.draft # 0 => \E w \in written : w.draft = page.draft
  /\ \A m \in Ids : work[m].pc \in {"complete", "request"} => WrittenOf(queue[m].src, queue[m].etag)
  /\ CompletedIsWritten
  /\ NoBlockedHost

GenerationInv ==
  GenerationTypes /\ PlaceInv /\ StampInv /\ DraftingInv /\ CommitInv /\ DraftInv /\ DoneInv
-----------------------------------------------------------------------------
(* What a step may do to each variable                                     *)

SourceOk == source' \in [Sources -> Nat] /\ \A s \in Sources : source[s] <= source'[s]

\* A request is left alone or written, once settled as completed it stays so.
RequestOk ==
  /\ request' \in RequestRecord
  /\ request' = request \/ request'.stamp = request.stamp + 1
  /\ request.status = "completed" => request'.status = "completed"
  /\ request'.status = "completed" => written' # {}
  /\ request'.status = "source_written" => request'.src \in Sources /\ source'[request'.src] > 0

\* A message that is being processed stays what it is.
QueueOk ==
  /\ queue' \in [Ids -> MessageRecord]
  /\ \A m \in Ids : work'[m].pc # "idle" =>
       queue'[m].kind = queue[m].kind /\ queue'[m].src = queue[m].src /\ queue'[m].etag = queue[m].etag
  /\ \A m \in Ids : queue'[m].kind = "source" =>
       queue'[m].src \in Sources /\ queue'[m].etag > 0 /\ queue'[m].etag <= source'[queue'[m].src]

\* The place of an invocation suits its message and what it knows of the request.
WorkOk(m, w) ==
  /\ w \in WorkRecord
  /\ w.pc \in SourcePlaces => queue[m].kind = "source"
  /\ w.pc \in CapturePlaces => queue[m].kind = "capture"
  /\ w.pc # "idle" => queue[m].kind \in {"source", "capture", "malformed"}
  /\ w.pc \in CapturePlaces \ {"fetch"} => w.src \in Sources /\ source'[w.src] > 0
  /\ w.stamp <= request'.stamp
  /\ w.pc \in CapturePlaces /\ w.stamp = request'.stamp =>
       request'.status \in {"fetching", "source_written"}

RowsOk ==
  /\ jobs' \in [Sources -> JobRecord]
  /\ \A s \in Sources : jobs'[s].etag <= source'[s]

PageOk ==
  /\ page' \in [stamp : Nat, draft : Nat, from : Sources \cup {0}]
  /\ page'.draft # 0 => \E w \in written' : w.draft = page'.draft
  /\ written \subseteq written' /\ written' \subseteq Commits
  /\ contacted' \cap Blocked = {}

\* After the step, the page has had a draft of this version.
Wrote(s, etag) == \E w \in written' : w.src = s /\ w.etag = etag

\* No draft comes up anew, and what counts as done was written.
WorkTame(m, w) ==
  /\ w.pc \in {"snapshot", "write"} =>
       work[m].pc \in {"snapshot", "write"} /\ w.draft = work[m].draft
  /\ w.pc = "drafted" => work[m].pc = "drafted" /\ w.draft = work[m].draft
  /\ w.pc \in {"claimed", "authorized"} => work[m].pc \in {"claimed", "authorized"}
  /\ w.pc \in {"complete", "request"} => Wrote(queue[m].src, queue[m].etag)

\* A row moves to a later version, or keeps its checkpoint and its end.
RowTame(s) ==
  LET j == jobs[s]
      k == jobs'[s] IN
  /\ j.etag <= k.etag
  /\ k.etag = j.etag /\ j.status = "completed" => k.status = "completed"
  /\ k.etag = j.etag /\ j.status = "generated" =>
       k.status = "completed" \/ (k.status = "generated" /\ k.draft = j.draft)
  /\ k.status = "generated" => j.status = "generated" /\ k.etag = j.etag /\ k.draft = j.draft
  /\ k.status = "completed" => Wrote(s, k.etag)
  /\ k.owner \in {j.owner, Nobody}

\* Every variable does what it may.
StepOk ==
  /\ SourceOk /\ RequestOk /\ QueueOk /\ RowsOk /\ PageOk
  /\ work' \in [Ids -> WorkRecord] /\ \A m \in Ids : WorkOk(m, work'[m])

StepTame ==
  /\ StepOk
  /\ \A m \in Ids : WorkTame(m, work'[m])
  /\ \A s \in Sources : RowTame(s)
  /\ drafts' = drafts

-----------------------------------------------------------------------------
(* Such steps keep the invariant                                           *)

\* Ids of messages are positive: no message is Nobody.
LEMMA IdsArePositive == Ids \subseteq Nat /\ Nobody \notin Ids
BY GenerationAssumption DEF Ids, Nobody

\* Types of what is held and of what was checkpointed.
LEMMA CommitTypes ==
  ASSUME GenerationTypes, PlaceInv
  PROVE  /\ Commits \subseteq [src : Sources, etag : Nat, draft : Nat]
         /\ Existing \subseteq [src : Sources, etag : Nat, draft : Nat]
<1>1. \A m \in Ids : work[m].pc \in SourcePlaces => HeldBy(m) \in [src : Sources, etag : Nat, draft : Nat]
  BY DEF GenerationTypes, PlaceInv, Placed, HeldBy, MessageRecord, WorkRecord
<1>2. Commits \subseteq [src : Sources, etag : Nat, draft : Nat]
  BY <1>1 DEF Commits, Committing, GenerationTypes, SourcePlaces
<1>3. Held \subseteq [src : Sources, etag : Nat, draft : Nat]
  BY <1>1 DEF Held, SourcePlaces
<1>4. Checkpoints \subseteq [src : Sources, etag : Nat, draft : Nat]
  BY DEF Checkpoints, RowDraft, GenerationTypes, JobRecord
<1> QED
  BY <1>2, <1>3, <1>4 DEF Existing

\* Types, places and stamps are kept.
LEMMA OkKeeps ==
  ASSUME GenerationInv, StepOk, drafts' \in Nat
  PROVE  GenerationTypes' /\ PlaceInv' /\ StampInv'
<1>1. GenerationTypes'
  <2>1. written' \in SUBSET [src : Sources, etag : Nat, draft : Nat]
    BY CommitTypes DEF StepOk, PageOk, GenerationInv
  <2> QED
    BY <2>1 DEF StepOk, SourceOk, RequestOk, QueueOk, RowsOk, PageOk, GenerationTypes
<1>2. PlaceInv'
  <2>1. ASSUME NEW m \in Ids PROVE Placed(m)'
    BY DEF StepOk, WorkOk, QueueOk, Placed, SourcePlaces, CapturePlaces
  <2> QED
    BY <2>1 DEF PlaceInv, StepOk, RequestOk, RowsOk
<1>3. StampInv'
  BY DEF StampInv, StepOk, WorkOk
<1> QED
  BY <1>1, <1>2, <1>3

\* No commit and no draft is new.
LEMMA NothingNew ==
  ASSUME GenerationInv, StepTame
  PROVE  Commits' \subseteq Commits /\ Existing' \subseteq Existing
<1>1. \A m \in Ids : work'[m].pc \in {"snapshot", "write"} => m \in Committing /\ HeldBy(m)' = HeldBy(m)
  BY DEF StepTame, StepOk, QueueOk, WorkTame, Committing, HeldBy
<1>2. Commits' \subseteq Commits
  BY <1>1 DEF Commits, Committing, StepTame, StepOk, PageOk
<1>3. Held' \subseteq Held
  BY DEF Held, HeldBy, StepTame, StepOk, QueueOk, WorkTame
<1>4. Checkpoints' \subseteq Checkpoints
  BY DEF Checkpoints, RowDraft, StepTame, RowTame
<1> QED
  BY <1>2, <1>3, <1>4 DEF Existing

\* The rows of commits keep backing them.
LEMMA BackingKept ==
  ASSUME GenerationInv, GenerationTypes', StepTame, NEW c \in Commits
  PROVE  Backed(c)'
<1>1. c.src \in Sources /\ c.etag \in Nat
  BY CommitTypes DEF GenerationInv
<1>2. Backed(c) /\ RowTame(c.src)
  BY <1>1 DEF GenerationInv, CommitInv, StepTame
<1>3. jobs[c.src].etag \in Nat /\ jobs'[c.src].etag \in Nat
  BY <1>1 DEF GenerationInv, GenerationTypes, JobRecord
<1> QED
  BY <1>1, <1>2, <1>3 DEF Backed, RowTame

\* Tame steps keep the invariant.
LEMMA TameKeeps ==
  ASSUME GenerationInv, StepTame
  PROVE  GenerationInv'
<1>1. GenerationTypes' /\ PlaceInv' /\ StampInv'
  BY OkKeeps DEF StepTame, GenerationInv, GenerationTypes
<1>2. DraftingInv'
  <2> SUFFICES ASSUME NEW m \in Ids, work'[m].pc \in {"claimed", "authorized", "drafted"},
                      Holds(m, {"processing", "generated"})'
               PROVE  jobs'[queue'[m].src].status = "processing"
    BY DEF DraftingInv
  <2> DEFINE s == queue[m].src
  <2>1. work[m].pc \in {"claimed", "authorized", "drafted"} /\ queue'[m].src = s
        /\ queue'[m].etag = queue[m].etag /\ s \in Sources
    BY DEF StepTame, WorkTame, StepOk, QueueOk, GenerationInv, PlaceInv, Placed, SourcePlaces
  <2>2. jobs'[s].etag = queue[m].etag /\ jobs'[s].status \in {"processing", "generated"}
        /\ jobs'[s].owner = m
    BY <2>1 DEF Holds
  <2>3. jobs[s].owner = m
    BY <2>1, <2>2, IdsArePositive DEF StepTame, RowTame
  <2>4. jobs'[s].status # "generated"
    <3> SUFFICES ASSUME jobs'[s].status = "generated" PROVE FALSE
      OBVIOUS
    <3>1. jobs[s].status = "generated" /\ jobs[s].etag = queue[m].etag
      BY <2>1, <2>2 DEF StepTame, RowTame
    <3>2. Holds(m, {"processing", "generated"})
      BY <2>3, <3>1 DEF Holds
    <3> QED
      BY <2>1, <3>1, <3>2 DEF GenerationInv, DraftingInv
  <2> QED
    BY <2>1, <2>2, <2>4
<1>3. CommitInv'
  BY <1>1, NothingNew, BackingKept DEF CommitInv, GenerationInv
<1>4. DraftInv'
  BY NothingNew DEF DraftInv, GenerationInv, StepTame
<1>5. DoneInv'
  <2>1. \A m \in Ids : work'[m].pc \in {"complete", "request"} =>
          Wrote(queue[m].src, queue[m].etag) /\ queue'[m].src = queue[m].src
          /\ queue'[m].etag = queue[m].etag
    BY DEF StepTame, WorkTame, StepOk, QueueOk
  <2>2. \A m \in Ids : work'[m].pc \in {"complete", "request"} =>
          Wrote(queue'[m].src, queue'[m].etag)
    BY <2>1
  <2>3. CompletedIsWritten'
    BY DEF CompletedIsWritten, StepTame, RowTame, Wrote, StepOk, RequestOk
  <2> QED
    BY <2>2, <2>3 DEF DoneInv, StepTame, StepOk, PageOk, NoBlockedHost, WrittenOf, Wrote
<1> QED
  BY <1>1, <1>2, <1>3, <1>4, <1>5 DEF GenerationInv

-----------------------------------------------------------------------------
(* Parts of a step                                                         *)

\* Source nodes that stay are as they should be.
LEMMA SourceStays == ASSUME GenerationInv, source' = source PROVE SourceOk
BY DEF SourceOk, GenerationInv, GenerationTypes

\* So is a page that stays.
LEMMA PageStays == ASSUME GenerationInv, UNCHANGED <<page, written, contacted>> PROVE PageOk
BY DEF PageOk, GenerationInv, GenerationTypes, DoneInv, NoBlockedHost, Commits

\* So is a request that stays.
LEMMA RequestStays ==
  ASSUME GenerationInv, SourceOk, written \subseteq written', request' = request
  PROVE  RequestOk
<1>1. request'.status = "completed" => written' # {}
  BY DEF GenerationInv, DoneInv, CompletedIsWritten
<1>2. request'.status = "source_written" => request'.src \in Sources /\ source'[request'.src] > 0
  BY DEF GenerationInv, PlaceInv, SourceOk, GenerationTypes
<1> QED
  BY <1>1, <1>2 DEF RequestOk, GenerationInv, GenerationTypes

\* So are rows that stay.
LEMMA RowsStay ==
  ASSUME GenerationInv, SourceOk, written \subseteq written', jobs' = jobs
  PROVE  RowsOk /\ \A s \in Sources : RowTame(s)
<1>1. \A s \in Sources : jobs[s].etag \in Nat /\ jobs[s].etag <= source'[s]
  BY DEF GenerationInv, GenerationTypes, JobRecord, PlaceInv, SourceOk
<1>2. \A s \in Sources : jobs[s].status = "completed" => Wrote(s, jobs[s].etag)
  BY DEF GenerationInv, DoneInv, CompletedIsWritten, Wrote
<1> QED
  BY <1>1, <1>2 DEF RowsOk, RowTame, GenerationInv, GenerationTypes

\* A message about a source asks for a version the source has had.
LEMMA MessageStands ==
  ASSUME GenerationInv, SourceOk
  PROVE  \A m \in Ids : queue[m].kind = "source" =>
           queue[m].src \in Sources /\ queue[m].etag > 0 /\ queue[m].etag <= source'[queue[m].src]
BY DEF GenerationInv, GenerationTypes, MessageRecord, PlaceInv, Placed, SourceOk

\* So is a queue that stays.
LEMMA QueueStays ==
  ASSUME GenerationInv, SourceOk, queue' = queue
  PROVE  QueueOk
BY MessageStands DEF QueueOk, GenerationInv, GenerationTypes

\* An invocation that stays where it is.
LEMMA WorkStays ==
  ASSUME GenerationInv, SourceOk, RequestOk, written \subseteq written', NEW m \in Ids
  PROVE  WorkOk(m, work[m]) /\ WorkTame(m, work[m])
<1>1. Placed(m) /\ work[m] \in WorkRecord
  BY DEF GenerationInv, PlaceInv, GenerationTypes
<1>2. work[m].pc \in CapturePlaces \ {"fetch"} => work[m].src \in Sources /\ source'[work[m].src] > 0
  BY <1>1 DEF Placed, SourceOk, GenerationInv, GenerationTypes
<1>3. /\ work[m].stamp <= request'.stamp
      /\ work[m].pc \in CapturePlaces /\ work[m].stamp = request'.stamp =>
           request'.status \in {"fetching", "source_written"}
  <2>1. work[m].stamp \in Nat /\ request.stamp \in Nat /\ request'.stamp \in Nat
    BY <1>1 DEF WorkRecord, GenerationInv, GenerationTypes, RequestRecord, RequestOk
  <2> QED
    BY <2>1 DEF GenerationInv, StampInv, RequestOk
<1>4. WorkOk(m, work[m])
  BY <1>1, <1>2, <1>3 DEF WorkOk, Placed
<1>5. WorkTame(m, work[m])
  BY DEF WorkTame, GenerationInv, DoneInv, WrittenOf, Wrote
<1> QED
  BY <1>4, <1>5

\* An invocation that is over, or has only to settle its message.
LEMMA WorkRests ==
  ASSUME GenerationInv, RequestOk, NEW m \in Ids
  PROVE  /\ WorkOk(m, Idle) /\ WorkTame(m, Idle)
         /\ queue[m].kind \in {"source", "capture", "malformed"} =>
              \A d \in Dispositions : WorkOk(m, Settling(d)) /\ WorkTame(m, Settling(d))
<1>1. request'.stamp \in Nat
  BY DEF RequestOk, RequestRecord
<1> QED
  BY <1>1 DEF WorkOk, WorkTame, Idle, CaptureStep, Settling, WorkRecord, Unobserved, SourcePlaces,
              CapturePlaces, Dispositions

\* One invocation moves, and messages may be sent.
LEMMA OneMovesAndSends ==
  ASSUME GenerationInv, NEW m \in Ids, NEW w, work' = [work EXCEPT ![m] = w],
         WorkOk(m, w), WorkTame(m, w), QueueOk, drafts' = drafts,
         SourceOk, RequestOk, RowsOk, \A s \in Sources : RowTame(s), PageOk
  PROVE  GenerationInv' /\ RequestOk
<1>1. work \in [Ids -> WorkRecord] /\ w \in WorkRecord
  BY DEF GenerationInv, GenerationTypes, WorkOk
<1>2. work' \in [Ids -> WorkRecord] /\ \A k \in Ids : work'[k] = IF k = m THEN w ELSE work[k]
  BY <1>1
<1>3. \A k \in Ids : WorkOk(k, work'[k]) /\ WorkTame(k, work'[k])
  BY <1>2, WorkStays DEF PageOk
<1> QED
  BY <1>2, <1>3, TameKeeps DEF StepTame, StepOk

\* One invocation moves, and the queue stays.
LEMMA OneMoves ==
  ASSUME GenerationInv, NEW m \in Ids, NEW w, work' = [work EXCEPT ![m] = w],
         WorkOk(m, w), WorkTame(m, w), queue' = queue, drafts' = drafts,
         SourceOk, RequestOk, RowsOk, \A s \in Sources : RowTame(s), PageOk
  PROVE  GenerationInv' /\ RequestOk
BY QueueStays, OneMovesAndSends

\* None does.
LEMMA NobodyMoves ==
  ASSUME GenerationInv, work' = work, QueueOk, drafts' = drafts,
         SourceOk, RequestOk, RowsOk, \A s \in Sources : RowTame(s), PageOk
  PROVE  GenerationInv' /\ RequestOk
<1>1. work' \in [Ids -> WorkRecord] /\ \A k \in Ids : WorkOk(k, work'[k]) /\ WorkTame(k, work'[k])
  BY WorkStays DEF PageOk, GenerationInv, GenerationTypes
<1> QED
  BY <1>1, TameKeeps DEF StepTame, StepOk

\* It moves on by its program counter alone.
LEMMA MovesOn ==
  ASSUME GenerationInv, NEW m \in Ids, NEW pc, To(m, pc)
  PROVE  LET w == [pc |-> pc, draft |-> work[m].draft, seen |-> work[m].seen,
                   resume |-> work[m].resume, stamp |-> work[m].stamp, src |-> work[m].src,
                   disposition |-> work[m].disposition]
         IN  work' = [work EXCEPT ![m] = w]
<1>1. work[m] \in WorkRecord
  BY DEF GenerationInv, GenerationTypes
<1>2. [work[m] EXCEPT !.pc = pc] =
        [pc |-> pc, draft |-> work[m].draft, seen |-> work[m].seen,
         resume |-> work[m].resume, stamp |-> work[m].stamp, src |-> work[m].src,
         disposition |-> work[m].disposition]
  BY <1>1 DEF WorkRecord
<1> QED
  BY <1>2 DEF To

\* It moves on to the next place of a job.
LEMMA JobMovesOn ==
  ASSUME GenerationInv, NEW m \in Ids, NEW pc \in SourcePlaces, To(m, pc),
         work[m].pc \in SourcePlaces,
         pc \in {"snapshot", "write"} => work[m].pc \in {"snapshot", "write"},
         pc \in {"claimed", "authorized"} => work[m].pc \in {"claimed", "authorized"},
         pc # "drafted",
         pc \in {"complete", "request"} => Wrote(queue[m].src, queue[m].etag),
         queue' = queue, drafts' = drafts,
         SourceOk, RequestOk, RowsOk, \A s \in Sources : RowTame(s), PageOk
  PROVE  GenerationInv' /\ RequestOk
<1> DEFINE w == [pc |-> pc, draft |-> work[m].draft, seen |-> work[m].seen,
                 resume |-> work[m].resume, stamp |-> work[m].stamp, src |-> work[m].src,
                 disposition |-> work[m].disposition]
<1>1. work' = [work EXCEPT ![m] = w]
  BY MovesOn
<1>2. work[m] \in WorkRecord /\ WorkOk(m, work[m])
  BY WorkStays DEF GenerationInv, GenerationTypes, PageOk
<1>3. WorkOk(m, w) /\ WorkTame(m, w)
  BY <1>2 DEF WorkOk, WorkTame, WorkRecord, SourcePlaces, CapturePlaces
<1> HIDE DEF w
<1> QED
  BY <1>1, <1>3, OneMoves

\* It is left to be settled.
LEMMA OneSettles ==
  ASSUME GenerationInv, NEW m \in Ids, NEW d \in Dispositions, Settled(m, d),
         queue[m].kind \in {"source", "capture", "malformed"},
         queue' = queue, drafts' = drafts,
         SourceOk, RequestOk, RowsOk, \A s \in Sources : RowTame(s), PageOk
  PROVE  GenerationInv' /\ RequestOk
BY WorkRests, OneMoves DEF Settled

-----------------------------------------------------------------------------
(* Writes of the request and of the rows                                   *)

\* The request is written with another status.
LEMMA RequestWritten ==
  ASSUME GenerationInv,
         NEW st \in {"fetching", "generating", "completed", "failed"}, WriteRequest(st),
         request.status = "completed" => st = "completed",
         st = "completed" => written' # {}
  PROVE  RequestOk
BY DEF RequestOk, WriteRequest, GenerationInv, GenerationTypes, RequestRecord

\* A failure is reported unless the request is completed already.
LEMMA FailureReported ==
  ASSUME GenerationInv, SourceOk, written \subseteq written', NEW m \in Ids,
         markSourceCaptureRequestFailed(m)
  PROVE  RequestOk
BY RequestWritten, RequestStays DEF markSourceCaptureRequestFailed, MayFail

\* Completion is reported when something was written.
LEMMA CompletionReported ==
  ASSUME GenerationInv, SourceOk, written \subseteq written', written' # {}, NEW m \in Ids,
         markSourceCaptureRequestCompleted(m)
  PROVE  RequestOk
BY RequestWritten, RequestStays DEF markSourceCaptureRequestCompleted

\* The job of a newer version stands for the message.
LEMMA SupersededReported ==
  ASSUME GenerationInv, SourceOk, written' = written, NEW m \in Ids, queue[m].src \in Sources,
         handleSupersededSourceMessage(m)
  PROVE  RequestOk
<1>1. CASE jobs[queue[m].src].etag # queue[m].etag /\ jobs[queue[m].src].status = "completed"
  <2>1. written' # {}
    BY <1>1 DEF GenerationInv, DoneInv, CompletedIsWritten
  <2> QED
    BY <1>1, <2>1, CompletionReported DEF handleSupersededSourceMessage
<1>2. CASE ~(jobs[queue[m].src].etag # queue[m].etag /\ jobs[queue[m].src].status = "completed")
  BY <1>2, RequestStays DEF handleSupersededSourceMessage
<1> QED
  BY <1>1, <1>2

\* One row changes.
LEMMA OneRowChanges ==
  ASSUME GenerationInv, SourceOk, written \subseteq written', NEW s \in Sources, NEW k \in JobRecord,
         jobs' = [jobs EXCEPT ![s] = k], k.etag <= source'[s], RowTame(s)
  PROVE  RowsOk /\ \A t \in Sources : RowTame(t)
<1>1. jobs' \in [Sources -> JobRecord] /\ \A t \in Sources : jobs'[t] = IF t = s THEN k ELSE jobs[t]
  BY DEF GenerationInv, GenerationTypes
<1>2. \A t \in Sources : jobs[t].etag \in Nat /\ jobs[t].etag <= source'[t]
  BY DEF GenerationInv, GenerationTypes, JobRecord, PlaceInv, SourceOk
<1>3. \A t \in Sources : jobs[t].status = "completed" => Wrote(t, jobs[t].etag)
  BY DEF GenerationInv, DoneInv, CompletedIsWritten, Wrote
<1>4. \A t \in Sources : RowTame(t)
  BY <1>1, <1>2, <1>3 DEF RowTame
<1> QED
  BY <1>1, <1>2, <1>4 DEF RowsOk

\* releaseForRetry keeps a checkpoint.
LEMMA RowReleased ==
  ASSUME GenerationInv, source' = source, written \subseteq written', NEW m \in Ids,
         queue[m].src \in Sources, Holds(m, {"processing", "generated"}), releaseForRetry(m)
  PROVE  RowsOk /\ \A s \in Sources : RowTame(s)
<1> DEFINE s == queue[m].src
           j == jobs[s]
           k == Updated(j, IF j.status = "generated" THEN "generated" ELSE "queued", Nobody, FALSE,
                        j.draft, j.seen)
<1>1. j \in JobRecord /\ j.etag <= source[s]
  BY DEF GenerationInv, GenerationTypes, PlaceInv
<1>2. k \in JobRecord /\ k.etag = j.etag /\ k.draft = j.draft /\ k.owner = Nobody
      /\ k.status = IF j.status = "generated" THEN "generated" ELSE "queued"
  BY <1>1 DEF JobRecord, Updated
<1>3. jobs' = [jobs EXCEPT ![s] = k] /\ jobs'[s] = k
  BY DEF releaseForRetry, GenerationInv, GenerationTypes
<1>4. j.status \in {"processing", "generated"} /\ j.etag \in Nat
  BY <1>1 DEF Holds, JobRecord
<1>5. RowTame(s)
  <2> HIDE DEF k
  <2> QED
    BY <1>2, <1>3, <1>4 DEF RowTame
<1> HIDE DEF k
<1> QED
  BY <1>1, <1>2, <1>3, <1>5, OneRowChanges, SourceStays

\* markFailed fails a job that has no checkpoint.
LEMMA RowFailed ==
  ASSUME GenerationInv, source' = source, written \subseteq written', NEW m \in Ids,
         queue[m].src \in Sources, jobs[queue[m].src].status = "processing", markFailed(m)
  PROVE  RowsOk /\ \A s \in Sources : RowTame(s)
<1> DEFINE s == queue[m].src
           j == jobs[s]
           k == Cleared(j, "failed")
<1>1. j \in JobRecord /\ j.etag <= source[s]
  BY DEF GenerationInv, GenerationTypes, PlaceInv
<1>2. k \in JobRecord /\ k.etag = j.etag /\ k.owner = Nobody /\ k.status = "failed"
  BY <1>1 DEF JobRecord, Updated, Cleared, Unobserved
<1>3. jobs' = [jobs EXCEPT ![s] = k] /\ jobs'[s] = k
  BY DEF markFailed, GenerationInv, GenerationTypes
<1>4. RowTame(s)
  <2> HIDE DEF k
  <2> QED
    BY <1>1, <1>2, <1>3 DEF RowTame, JobRecord
<1> HIDE DEF k
<1> QED
  BY <1>1, <1>2, <1>3, <1>4, OneRowChanges, SourceStays

\* markCompleted ends a job whose draft was written.
LEMMA RowCompleted ==
  ASSUME GenerationInv, source' = source, written \subseteq written', NEW m \in Ids,
         queue[m].src \in Sources, Holds(m, {"generated"}), Wrote(queue[m].src, queue[m].etag),
         markCompleted(m)
  PROVE  RowsOk /\ \A s \in Sources : RowTame(s)
<1> DEFINE s == queue[m].src
           j == jobs[s]
           k == Cleared(j, "completed")
<1>1. j \in JobRecord /\ j.etag <= source[s] /\ j.etag = queue[m].etag
  BY DEF GenerationInv, GenerationTypes, PlaceInv, Holds
<1>2. k \in JobRecord /\ k.etag = j.etag /\ k.owner = Nobody /\ k.status = "completed"
  BY <1>1 DEF JobRecord, Updated, Cleared, Unobserved
<1>3. jobs' = [jobs EXCEPT ![s] = k] /\ jobs'[s] = k
  BY DEF markCompleted, GenerationInv, GenerationTypes
<1>4. RowTame(s)
  <2> HIDE DEF k
  <2> QED
    BY <1>1, <1>2, <1>3 DEF RowTame, JobRecord
<1> HIDE DEF k
<1> QED
  BY <1>1, <1>2, <1>3, <1>4, OneRowChanges, SourceStays

\* upsertQueuedJob replaces the row of an earlier version, or one that failed.
LEMMA RowQueued ==
  ASSUME GenerationInv, source' = source, written \subseteq written', NEW s \in Sources,
         NEW root \in Destinations, jobs' = upsertQueuedJob(s, source[s], root)
  PROVE  RowsOk /\ \A t \in Sources : RowTame(t)
<1> DEFINE j == jobs[s]
           k == QueuedJob(source[s], root)
<1>1. j \in JobRecord /\ j.etag <= source[s] /\ source[s] \in Nat
  BY DEF GenerationInv, GenerationTypes, PlaceInv
<1>2. k \in JobRecord /\ k.etag = source[s] /\ k.owner = Nobody /\ k.status = "queued"
  BY <1>1 DEF JobRecord, QueuedJob, Unobserved
<1>3. CASE j.etag # source[s] \/ (j.status = "failed" /\ j.root = root)
  <2>1. jobs' = [jobs EXCEPT ![s] = k] /\ jobs'[s] = k
    BY <1>3 DEF upsertQueuedJob, GenerationInv, GenerationTypes
  <2>2. RowTame(s)
    <3> HIDE DEF k
    <3> QED
      BY <1>1, <1>2, <1>3, <2>1 DEF RowTame, JobRecord
  <2>3. k.etag <= source'[s]
    BY <1>1, <1>2
  <2> HIDE DEF k
  <2> QED
    BY <1>2, <2>1, <2>2, <2>3, OneRowChanges, SourceStays
<1>4. CASE ~(j.etag # source[s] \/ (j.status = "failed" /\ j.root = root))
  BY <1>4, RowsStay, SourceStays DEF upsertQueuedJob
<1> QED
  BY <1>3, <1>4

-----------------------------------------------------------------------------
(* The steps of a job                                                      *)

\* What an invocation at a place of a job knows of its message.
LEMMA JobMessage ==
  ASSUME GenerationInv, NEW m \in Ids, work[m].pc \in SourcePlaces \/ queue[m].kind = "source"
  PROVE  queue[m].kind = "source" /\ queue[m].src \in Sources
BY DEF GenerationInv, PlaceInv, Placed

\* The end of a generation that failed, before its draft was checkpointed.
LEMMA FailsKeeps ==
  ASSUME GenerationInv, NEW m \in Ids, NEW permanent \in BOOLEAN,
         work[m].pc \in {"claimed", "authorized", "drafted"},
         GenerationFails(m, permanent), drafts' = drafts
  PROVE  GenerationInv' /\ RequestOk
<1>1. queue[m].kind = "source" /\ queue[m].src \in Sources
  BY JobMessage DEF SourcePlaces
<1>2. SourceOk /\ PageOk /\ queue' = queue /\ written' = written /\ source' = source
  BY SourceStays, PageStays DEF GenerationFails
<1>3. CASE ~Holds(m, {"processing", "generated"})
  <2>1. Settled(m, "retry") /\ jobs' = jobs /\ request' = request
    BY <1>3 DEF GenerationFails
  <2>2. RequestOk /\ RowsOk /\ \A s \in Sources : RowTame(s)
    BY <1>2, <2>1, RequestStays, RowsStay
  <2> QED
    BY <1>1, <1>2, <2>1, <2>2, OneSettles DEF Dispositions
<1>4. CASE Holds(m, {"processing", "generated"}) /\ (permanent \/ queue[m].attempts >= FinalAttempt)
  <2>1. markFailed(m) /\ markSourceCaptureRequestFailed(m)
        /\ Settled(m, IF permanent THEN "ack" ELSE "dead_letter")
    BY <1>4 DEF GenerationFails
  <2>2. jobs[queue[m].src].status = "processing"
    BY <1>4 DEF GenerationInv, DraftingInv
  <2>3. RequestOk /\ RowsOk /\ \A s \in Sources : RowTame(s)
    BY <1>1, <1>2, <2>1, <2>2, FailureReported, RowFailed
  <2>4. PICK d \in Dispositions : Settled(m, d)
    BY <2>1 DEF Dispositions
  <2> QED
    BY <1>1, <1>2, <2>3, <2>4, OneSettles
<1>5. CASE Holds(m, {"processing", "generated"}) /\ ~(permanent \/ queue[m].attempts >= FinalAttempt)
  <2>1. releaseForRetry(m) /\ Settled(m, "retry") /\ request' = request
    BY <1>5 DEF GenerationFails
  <2>2. RequestOk /\ RowsOk /\ \A s \in Sources : RowTame(s)
    BY <1>1, <1>2, <1>5, <2>1, RequestStays, RowReleased
  <2> QED
    BY <1>1, <1>2, <2>1, <2>2, OneSettles DEF Dispositions
<1> QED
  BY <1>3, <1>4, <1>5

\* The end of a commit that failed, with the checkpoint kept.
LEMMA CommitErrorKeeps ==
  ASSUME GenerationInv, NEW m \in Ids, NEW conflict \in BOOLEAN, work[m].pc \in SourcePlaces,
         handleSourceCommitError(m, conflict), UNCHANGED <<source, queue, drafts>>, PageOk
  PROVE  GenerationInv' /\ RequestOk
<1>1. queue[m].kind = "source" /\ queue[m].src \in Sources
  BY JobMessage
<1>2. SourceOk /\ written \subseteq written'
  BY SourceStays DEF PageOk
<1>3. CASE ~Holds(m, {"processing", "generated"})
  <2>1. Settled(m, "retry") /\ jobs' = jobs /\ request' = request
    BY <1>3 DEF handleSourceCommitError
  <2>2. RequestOk /\ RowsOk /\ \A s \in Sources : RowTame(s)
    BY <1>2, <2>1, RequestStays, RowsStay
  <2> QED
    BY <1>1, <1>2, <2>1, <2>2, OneSettles DEF Dispositions
<1>4. CASE Holds(m, {"processing", "generated"})
  <2>1. releaseForRetry(m) /\ (markSourceCaptureRequestFailed(m) \/ request' = request)
        /\ (Settled(m, "retry") \/ Settled(m, "dead_letter"))
    BY <1>4 DEF handleSourceCommitError
  <2>2. RequestOk /\ RowsOk /\ \A s \in Sources : RowTame(s)
    BY <1>1, <1>2, <1>4, <2>1, RequestStays, FailureReported, RowReleased
  <2>3. PICK d \in Dispositions : Settled(m, d)
    BY <2>1 DEF Dispositions
  <2> QED
    BY <1>1, <1>2, <2>2, <2>3, OneSettles
<1> QED
  BY <1>3, <1>4

\* A delivery that cannot claim its row ends at once.
LEMMA UnclaimedKeeps ==
  ASSUME GenerationInv, NEW m \in Ids, ClaimSource(m), ~Claimable(m)
  PROVE  GenerationInv' /\ RequestOk
<1>1. queue[m].kind = "source" /\ queue[m].src \in Sources
  BY JobMessage DEF ClaimSource
<1>2. SourceOk /\ PageOk /\ queue' = queue /\ written' = written /\ jobs' = jobs /\ drafts' = drafts
  BY SourceStays, PageStays DEF ClaimSource
<1>3. RowsOk /\ \A s \in Sources : RowTame(s)
  BY <1>2, RowsStay
<1>4. \/ handleSupersededSourceMessage(m) \/ request' = request
      \/ ClaimAnswer(m) = "completed" /\ markSourceCaptureRequestCompleted(m)
      \/ markSourceCaptureRequestFailed(m)
  BY DEF ClaimSource
<1>5. ClaimAnswer(m) = "completed" => jobs[queue[m].src].status = "completed"
  BY DEF ClaimAnswer, Terminal
<1>6. ClaimAnswer(m) = "completed" => written' # {}
  BY <1>1, <1>2, <1>5 DEF GenerationInv, DoneInv, CompletedIsWritten
<1>7. RequestOk
  BY <1>1, <1>2, <1>4, <1>6, SupersededReported, RequestStays, CompletionReported, FailureReported
<1>8. PICK d \in Dispositions : Settled(m, d)
  BY DEF ClaimSource, Dispositions
<1> QED
  BY <1>1, <1>2, <1>3, <1>7, <1>8, OneSettles

\* The source is read again before anything is paid for.
LEMMA ReadKeeps ==
  ASSUME GenerationInv, NEW m \in Ids, ReadSource(m)
  PROVE  GenerationInv' /\ RequestOk
<1>1. queue[m].kind = "source" /\ queue[m].src \in Sources /\ work[m].pc = "claimed" /\ drafts' = drafts
  BY JobMessage DEF ReadSource, SourcePlaces
<1>2. CASE source[queue[m].src] = queue[m].etag
  <2>1. To(m, "authorized") /\ UNCHANGED <<source, jobs, page, request, queue, written, contacted>>
    BY <1>2 DEF ReadSource
  <2>2. SourceOk /\ PageOk
    BY <2>1, SourceStays, PageStays
  <2>3. RequestOk /\ RowsOk /\ \A s \in Sources : RowTame(s)
    BY <2>1, <2>2, RequestStays, RowsStay
  <2> QED
    BY <1>1, <2>1, <2>2, <2>3, JobMovesOn DEF SourcePlaces
<1>3. CASE source[queue[m].src] # queue[m].etag /\ Supersedes(m)
  <2>1. CASE Settled(m, "ack") /\ handleSupersededSourceMessage(m)
             /\ UNCHANGED <<source, jobs, page, queue, written, contacted>>
    <3>1. SourceOk /\ PageOk
      BY <2>1, SourceStays, PageStays
    <3>2. RequestOk /\ RowsOk /\ \A s \in Sources : RowTame(s)
      BY <1>1, <2>1, <3>1, SupersededReported, RowsStay
    <3> QED
      BY <1>1, <2>1, <3>1, <3>2, OneSettles DEF Dispositions
  <2> QED
    BY <1>3, <2>1 DEF ReadSource
<1>4. CASE source[queue[m].src] # queue[m].etag /\ ~Supersedes(m)
  <2>1. GenerationFails(m, TRUE)
    BY <1>4 DEF ReadSource
  <2> QED
    BY <1>1, <2>1, FailsKeeps
<1> QED
  BY <1>2, <1>3, <1>4

\* A generation that fails.
LEMMA NoDraftKeeps ==
  ASSUME GenerationInv, NEW m \in Ids, generateDraft(m), drafts' = drafts
  PROVE  GenerationInv' /\ RequestOk
<1>1. work[m].pc = "authorized" /\ drafts \in Nat
  BY DEF generateDraft, GenerationInv, GenerationTypes
<1>2. \E e : GenerationFails(m, isPermanentGenerationError(e))
  <2>1. drafts' # drafts + 1
    BY <1>1
  <2> QED
    BY <2>1, Zenon DEF generateDraft
<1>3. \E permanent \in BOOLEAN : GenerationFails(m, permanent)
  <2>1. PICK e : GenerationFails(m, isPermanentGenerationError(e))
    BY <1>2
  <2>2. isPermanentGenerationError(e) \in BOOLEAN
    BY DEF isPermanentGenerationError
  <2> QED
    BY <2>1, <2>2
<1> QED
  BY <1>1, <1>3, FailsKeeps

\* The target is looked at before it is written.
LEMMA SnapshotKeeps ==
  ASSUME GenerationInv, NEW m \in Ids, Snapshot(m)
  PROVE  GenerationInv' /\ RequestOk
<1>1. queue[m].kind = "source" /\ queue[m].src \in Sources /\ work[m].pc = "snapshot"
  BY JobMessage DEF Snapshot, SourcePlaces
<1>2. /\ SourceOk /\ PageOk /\ UNCHANGED <<source, queue, drafts, written>>
  BY SourceStays, PageStays DEF Snapshot
<1>3. CASE To(m, "write") /\ UNCHANGED <<jobs, request>>
  <2>1. RequestOk /\ RowsOk /\ \A s \in Sources : RowTame(s)
    BY <1>2, <1>3, RequestStays, RowsStay
  <2> QED
    BY <1>1, <1>2, <1>3, <2>1, JobMovesOn DEF SourcePlaces
<1>4. CASE \E conflict \in BOOLEAN : handleSourceCommitError(m, conflict)
  BY <1>1, <1>2, <1>4, CommitErrorKeeps DEF SourcePlaces
<1>5. CASE /\ checkpointGeneratedTarget(m) /\ Holds(m, {"generated"}) /\ UNCHANGED request
           /\ work' = [work EXCEPT ![m] = JobStep("write", @.draft, page.stamp, @.resume)]
  <2> DEFINE s == queue[m].src
             j == jobs[s]
             k == Updated(j, j.status, j.owner, j.expired, j.draft, page.stamp)
             w == JobStep("write", work[m].draft, page.stamp, work[m].resume)
  <2>1. j \in JobRecord /\ j.etag <= source'[s] /\ j.status = "generated" /\ page.stamp \in Nat
    BY <1>1, <1>2, <1>5 DEF GenerationInv, GenerationTypes, PlaceInv, Holds
  <2>2. k \in JobRecord /\ k.etag = j.etag /\ k.draft = j.draft /\ k.owner = j.owner
        /\ k.status = "generated"
    BY <2>1 DEF JobRecord, Updated
  <2>3. jobs' = [jobs EXCEPT ![s] = k] /\ jobs'[s] = k
    BY <1>1, <1>5 DEF checkpointGeneratedTarget, GenerationInv, GenerationTypes
  <2>4. RowTame(s)
    <3> HIDE DEF k
    <3> QED
      BY <2>1, <2>2, <2>3 DEF RowTame, JobRecord
  <2>5. RowsOk /\ \A t \in Sources : RowTame(t)
    <3> HIDE DEF k
    <3> QED
      BY <1>1, <1>2, <2>1, <2>2, <2>3, <2>4, OneRowChanges
  <2>6. RequestOk
    BY <1>2, <1>5, RequestStays
  <2>7. WorkOk(m, w) /\ WorkTame(m, w)
    <3>1. work[m] \in WorkRecord /\ request'.stamp \in Nat
      BY <2>6 DEF GenerationInv, GenerationTypes, RequestOk, RequestRecord
    <3> QED
      BY <1>1, <2>1, <3>1 DEF WorkOk, WorkTame, JobStep, WorkRecord, SourcePlaces, CapturePlaces,
                              Dispositions
  <2>8. work' = [work EXCEPT ![m] = w]
    BY <1>5
  <2> HIDE DEF w, k
  <2> QED
    BY <1>2, <2>5, <2>6, <2>7, <2>8, OneMoves
<1> QED
  BY <1>3, <1>4, <1>5 DEF Snapshot

\* The page is written with the draft of a commit, or found to have it.
LEMMA WriteKeeps ==
  ASSUME GenerationInv, NEW m \in Ids, writeGeneratedPage(m)
  PROVE  GenerationInv' /\ RequestOk
<1>1. /\ queue[m].kind = "source" /\ queue[m].src \in Sources /\ work[m].pc = "write"
      /\ m \in Committing /\ HeldBy(m) \in Commits /\ HeldBy(m) \in Existing
      /\ UNCHANGED <<source, queue, drafts, contacted>> /\ SourceOk
  BY JobMessage, SourceStays DEF writeGeneratedPage, SourcePlaces, Committing, Commits, Existing
<1>2. CASE SameContent(m) /\ To(m, "complete") /\ UNCHANGED <<page, jobs, request, written>>
  <2>1. PageOk
    BY <1>1, <1>2, PageStays
  <2>2. RequestOk /\ RowsOk /\ \A s \in Sources : RowTame(s)
    BY <1>1, <1>2, RequestStays, RowsStay
  <2>3. work[m].draft > 0
    BY <1>1 DEF GenerationInv, DraftInv, HeldBy
  <2>4. PICK c \in written : c.draft = work[m].draft
    BY <1>2, <2>3 DEF SameContent, GenerationInv, DoneInv
  <2>5. c.src = queue[m].src /\ c.etag = queue[m].etag
    BY <1>1, <2>4 DEF GenerationInv, DraftInv, Existing, Commits, HeldBy
  <2>6. Wrote(queue[m].src, queue[m].etag)
    BY <1>2, <2>5 DEF Wrote
  <2> QED
    BY <1>1, <1>2, <2>1, <2>2, <2>6, JobMovesOn DEF SourcePlaces
<1>3. CASE UNCHANGED <<page, written>> /\ \E conflict \in BOOLEAN : handleSourceCommitError(m, conflict)
  <2>1. PageOk
    BY <1>1, <1>3, PageStays
  <2> QED
    BY <1>1, <1>3, <2>1, CommitErrorKeeps DEF SourcePlaces
<1>4. CASE /\ page' = [stamp |-> page.stamp + 1, draft |-> work[m].draft, from |-> queue[m].src]
           /\ written' = written \cup {HeldBy(m)}
           /\ \/ To(m, "complete") /\ UNCHANGED <<jobs, request>>
              \/ handleSourceCommitError(m, FALSE)
  <2> DEFINE c == HeldBy(m)
  <2>0. /\ c \in written' /\ c.src = queue[m].src /\ c.etag = queue[m].etag
        /\ c.draft = work[m].draft /\ page'.draft = work[m].draft
    BY <1>4 DEF HeldBy
  <2> HIDE DEF c
  <2>1. PageOk
    <3>1. page' \in [stamp : Nat, draft : Nat, from : Sources \cup {0}]
      BY <1>1, <1>4 DEF GenerationInv, GenerationTypes, WorkRecord
    <3>2. \E w \in written' : w.draft = page'.draft
      BY <2>0
    <3>3. written' \subseteq Commits
      BY <1>1, <1>4 DEF Commits
    <3> QED
      BY <1>1, <1>4, <3>1, <3>2, <3>3 DEF PageOk, GenerationInv, DoneInv, NoBlockedHost
  <2>2. CASE To(m, "complete") /\ UNCHANGED <<jobs, request>>
    <3>1. RequestOk /\ RowsOk /\ \A s \in Sources : RowTame(s)
      BY <1>1, <2>1, <2>2, RequestStays, RowsStay DEF PageOk
    <3>2. Wrote(queue[m].src, queue[m].etag)
      BY <2>0 DEF Wrote
    <3> QED
      BY <1>1, <2>1, <2>2, <3>1, <3>2, JobMovesOn DEF SourcePlaces
  <2>3. CASE handleSourceCommitError(m, FALSE)
    BY <1>1, <2>1, <2>3, CommitErrorKeeps DEF SourcePlaces
  <2> QED
    BY <1>4, <2>2, <2>3
<1> QED
  BY <1>2, <1>3, <1>4 DEF writeGeneratedPage, HeldBy

\* The job is completed, found completed, or the delivery is put off.
LEMMA CompleteKeeps ==
  ASSUME GenerationInv, NEW m \in Ids, Complete(m)
  PROVE  GenerationInv' /\ RequestOk
<1>1. /\ queue[m].kind = "source" /\ queue[m].src \in Sources /\ work[m].pc = "complete"
      /\ UNCHANGED <<source, queue, drafts, written>> /\ SourceOk /\ PageOk
  BY JobMessage, SourceStays, PageStays DEF Complete, SourcePlaces
<1>2. Wrote(queue[m].src, queue[m].etag)
  BY <1>1 DEF GenerationInv, DoneInv, WrittenOf, Wrote
<1>3. CASE Holds(m, {"generated"}) /\ markCompleted(m) /\ To(m, "request") /\ UNCHANGED request
  <2>1. RequestOk /\ RowsOk /\ \A s \in Sources : RowTame(s)
    BY <1>1, <1>2, <1>3, RequestStays, RowCompleted
  <2> QED
    BY <1>1, <1>2, <1>3, <2>1, JobMovesOn DEF SourcePlaces
<1>4. CASE To(m, "request") /\ UNCHANGED <<jobs, request>>
  <2>1. RequestOk /\ RowsOk /\ \A s \in Sources : RowTame(s)
    BY <1>1, <1>4, RequestStays, RowsStay
  <2> QED
    BY <1>1, <1>2, <1>4, <2>1, JobMovesOn DEF SourcePlaces
<1>5. CASE handleSourceCommitError(m, FALSE)
  BY <1>1, <1>5, CommitErrorKeeps DEF SourcePlaces
<1>6. CASE Settled(m, "reschedule") /\ UNCHANGED <<jobs, request>>
  <2>1. RequestOk /\ RowsOk /\ \A s \in Sources : RowTame(s)
    BY <1>1, <1>6, RequestStays, RowsStay
  <2> QED
    BY <1>1, <1>6, <2>1, OneSettles DEF Dispositions
<1> QED
  BY <1>3, <1>4, <1>5, <1>6 DEF Complete

\* The request of a job that is done is completed.
LEMMA CompleteRequestKeeps ==
  ASSUME GenerationInv, NEW m \in Ids, CompleteRequest(m)
  PROVE  GenerationInv' /\ RequestOk
<1>1. /\ queue[m].kind = "source" /\ queue[m].src \in Sources /\ work[m].pc = "request"
      /\ UNCHANGED <<source, queue, drafts, written, jobs>> /\ SourceOk /\ PageOk
  BY JobMessage, SourceStays, PageStays DEF CompleteRequest, SourcePlaces
<1>2. written' # {}
  BY <1>1 DEF GenerationInv, DoneInv, WrittenOf
<1>3. RequestOk /\ RowsOk /\ \A s \in Sources : RowTame(s)
  BY <1>1, <1>2, RequestStays, CompletionReported, RowsStay DEF CompleteRequest
<1>4. PICK d \in Dispositions : Settled(m, d)
  BY DEF CompleteRequest, Dispositions
<1> QED
  BY <1>1, <1>3, <1>4, OneSettles

\* A claim takes the row over with its checkpoint, if there is one.
LEMMA ClaimedKeeps ==
  ASSUME GenerationInv, NEW m \in Ids, ClaimSource(m), Claimable(m)
  PROVE  GenerationInv' /\ RequestOk
<1> DEFINE s == queue[m].src
           j == jobs[s]
           st == ClaimedStatus(j)
           k == Updated(j, st, m, FALSE, j.draft, j.seen)
           w == IF st = "generated" THEN artifactFromJob(j) ELSE JobStep("claimed", 0, Unobserved, FALSE)
<1>1. /\ queue[m].kind = "source" /\ s \in Sources /\ j \in JobRecord /\ j.etag <= source[s]
      /\ j.etag = queue[m].etag /\ j.status \in Unsettled /\ work[m].pc = "idle"
  BY JobMessage DEF ClaimSource, Claimable, GenerationInv, GenerationTypes, PlaceInv
<1>2. /\ UNCHANGED <<source, page, request, queue, drafts, written, contacted>>
      /\ jobs' = [jobs EXCEPT ![s] = k] /\ work' = [work EXCEPT ![m] = w]
  BY DEF ClaimSource
<1>3. /\ st = IF j.status = "generated" THEN "generated" ELSE "processing"
      /\ k \in JobRecord /\ k.etag = j.etag /\ k.draft = j.draft /\ k.owner = m /\ k.status = st
  BY <1>1 DEF ClaimedStatus, Updated, JobRecord
<1>4. /\ w \in WorkRecord /\ w.stamp = 0
      /\ st = "generated" => w.pc \in {"snapshot", "write"} /\ w.draft = j.draft
      /\ st # "generated" => w.pc = "claimed"
  BY <1>1, <1>3 DEF artifactFromJob, JobStep, WorkRecord, JobRecord, SourcePlaces, Unobserved, Dispositions
<1> HIDE DEF k, w, st
<1>5. /\ jobs' \in [Sources -> JobRecord] /\ \A t \in Sources : jobs'[t] = IF t = s THEN k ELSE jobs[t]
      /\ work' \in [Ids -> WorkRecord] /\ \A i \in Ids : work'[i] = IF i = m THEN w ELSE work[i]
  BY <1>1, <1>2, <1>3, <1>4 DEF GenerationInv, GenerationTypes
<1>6. SourceOk /\ PageOk /\ RequestOk /\ QueueOk
  BY <1>2, SourceStays, PageStays, RequestStays, QueueStays
<1>7. StepOk
  <2>1. RowsOk
    BY <1>1, <1>2, <1>3, <1>5 DEF RowsOk, GenerationInv, PlaceInv
  <2>2. WorkOk(m, w)
    <3>1. request'.stamp \in Nat
      BY <1>6 DEF RequestOk, RequestRecord
    <3> QED
      BY <1>1, <1>3, <1>4, <3>1 DEF WorkOk, SourcePlaces, CapturePlaces
  <2> QED
    BY <1>2, <1>5, <1>6, <2>1, <2>2, WorkStays DEF StepOk
<1>8. GenerationTypes' /\ PlaceInv' /\ StampInv'
  BY <1>2, <1>7, OkKeeps DEF GenerationInv, GenerationTypes
<1>9. DraftingInv'
  <2> SUFFICES ASSUME NEW i \in Ids, work'[i].pc \in {"claimed", "authorized", "drafted"},
                      Holds(i, {"processing", "generated"})'
               PROVE  jobs'[queue'[i].src].status = "processing"
    BY DEF DraftingInv
  <2>1. CASE i = m
    BY <1>1, <1>2, <1>3, <1>4, <1>5, <2>1
  <2>2. CASE i # m
    <3>1. work[i].pc \in {"claimed", "authorized", "drafted"} /\ queue[i].src \in Sources
      BY <1>5, <2>2, JobMessage DEF SourcePlaces
    <3>2. queue[i].src # s
      BY <1>2, <1>3, <1>5, <2>2 DEF Holds
    <3>3. jobs'[queue[i].src] = jobs[queue[i].src] /\ Holds(i, {"processing", "generated"})
      BY <1>2, <1>5, <3>1, <3>2 DEF Holds
    <3> QED
      BY <1>2, <3>1, <3>3 DEF GenerationInv, DraftingInv
  <2> QED
    BY <2>1, <2>2
<1>10. /\ \A i \in Ids : i # m => HeldBy(i)' = HeldBy(i)
       /\ st = "generated" => HeldBy(m)' = RowDraft(s) /\ RowDraft(s) \in Checkpoints
  BY <1>1, <1>2, <1>3, <1>4, <1>5 DEF HeldBy, RowDraft, Checkpoints
<1>11. Commits' \subseteq Commits \cup {c \in Checkpoints : c = RowDraft(s) /\ st = "generated"}
  <2>1. ASSUME NEW i \in Committing'
        PROVE  HeldBy(i)' \in Commits \cup {c \in Checkpoints : c = RowDraft(s) /\ st = "generated"}
    <3>1. CASE i = m
      BY <1>4, <1>5, <1>10, <2>1, <3>1 DEF Committing
    <3>2. CASE i # m
      BY <1>5, <1>10, <2>1, <3>2 DEF Committing, Commits
    <3> QED
      BY <3>1, <3>2
  <2> QED
    BY <1>2, <2>1 DEF Commits
<1>12. Existing' \subseteq Existing
  <2>1. Held' \subseteq Held
    BY <1>4, <1>5, <1>10 DEF Held
  <2>2. Checkpoints' \subseteq Checkpoints
    BY <1>1, <1>3, <1>5 DEF Checkpoints, RowDraft
  <2> QED
    BY <1>11, <2>1, <2>2 DEF Existing
<1>13. CommitInv'
  <2>1. ASSUME NEW c \in Commits PROVE Backed(c)'
    BY <1>1, <1>2, <1>3, <1>5, CommitTypes DEF GenerationInv, CommitInv, Backed, Unsettled, JobRecord
  <2>2. ASSUME NEW c, c = RowDraft(s), st = "generated" PROVE Backed(c)'
    <3>1. c.src = s /\ c.etag = j.etag /\ c.draft = j.draft /\ jobs'[s] = k
      BY <1>1, <1>5, <2>2 DEF RowDraft
    <3> QED
      BY <1>1, <1>3, <2>2, <3>1 DEF Backed, JobRecord
  <2>3. ASSUME NEW c \in Commits, st = "generated", c.src = s, c.etag = j.etag PROVE c.draft = j.draft
    BY <1>1, <1>3, <2>3 DEF GenerationInv, CommitInv, Backed, Unsettled
  <2>4. \A c \in Commits' : Backed(c)'
    BY <1>11, <2>1, <2>2
  <2>5. \A c, d \in Commits' : c.src = d.src /\ c.etag = d.etag => c.draft = d.draft
    BY <1>11, <2>3 DEF GenerationInv, CommitInv, RowDraft
  <2> QED
    BY <2>4, <2>5 DEF CommitInv
<1>14. DraftInv'
  BY <1>2, <1>12 DEF DraftInv, GenerationInv
<1>15. DoneInv'
  <2>1. \A i \in Ids : work'[i].pc \in {"complete", "request"} => WrittenOf(queue[i].src, queue[i].etag)
    BY <1>4, <1>5 DEF GenerationInv, DoneInv
  <2>2. CompletedIsWritten'
    BY <1>2, <1>3, <1>5 DEF GenerationInv, DoneInv, CompletedIsWritten
  <2> QED
    BY <1>2, <2>1, <2>2 DEF GenerationInv, DoneInv, WrittenOf, NoBlockedHost
<1> QED
  BY <1>6, <1>8, <1>9, <1>13, <1>14, <1>15 DEF GenerationInv

\* A draft that is bought is new.
LEMMA BoughtKeeps ==
  ASSUME GenerationInv, NEW m \in Ids, generateDraft(m), drafts' # drafts
  PROVE  GenerationInv' /\ RequestOk
<1> DEFINE w == JobStep("drafted", drafts + 1, Unobserved, FALSE)
           new == [src |-> queue[m].src, etag |-> queue[m].etag, draft |-> drafts + 1]
<1>1. /\ work[m].pc = "authorized" /\ drafts' = drafts + 1 /\ drafts \in Nat
      /\ work' = [work EXCEPT ![m] = w]
      /\ UNCHANGED <<source, jobs, page, request, queue, written, contacted>>
  BY DEF generateDraft, GenerationInv, GenerationTypes
<1>2. queue[m].kind = "source" /\ queue[m].src \in Sources
  BY <1>1, JobMessage DEF SourcePlaces
<1>3. w \in WorkRecord /\ w.pc = "drafted" /\ w.draft = drafts + 1 /\ w.stamp = 0
  BY <1>1 DEF JobStep, WorkRecord, SourcePlaces, Unobserved, Dispositions
<1> HIDE DEF w
<1>4. work' \in [Ids -> WorkRecord] /\ \A i \in Ids : work'[i] = IF i = m THEN w ELSE work[i]
  BY <1>1, <1>3 DEF GenerationInv, GenerationTypes
<1>5. SourceOk /\ PageOk /\ RequestOk /\ QueueOk /\ RowsOk
  BY <1>1, SourceStays, PageStays, RequestStays, QueueStays, RowsStay
<1>6. StepOk
  <2>1. WorkOk(m, w)
    <3>1. request'.stamp \in Nat
      BY <1>5 DEF RequestOk, RequestRecord
    <3> QED
      BY <1>2, <1>3, <3>1 DEF WorkOk, SourcePlaces, CapturePlaces
  <2> QED
    BY <1>1, <1>4, <1>5, <2>1, WorkStays DEF StepOk
<1>7. GenerationTypes' /\ PlaceInv' /\ StampInv'
  BY <1>1, <1>6, OkKeeps
<1>8. DraftingInv'
  BY <1>1, <1>3, <1>4 DEF DraftingInv, GenerationInv, Holds
<1>9. \A i \in Ids : i # m => HeldBy(i)' = HeldBy(i)
  BY <1>1, <1>4 DEF HeldBy
<1>10. Commits' \subseteq Commits
  BY <1>1, <1>3, <1>4, <1>9 DEF Commits, Committing
<1>11. HeldBy(m)' = new
  BY <1>1, <1>3, <1>4 DEF HeldBy
<1>12. Existing' \subseteq Existing \cup {new}
  <2>1. Held' \subseteq Held \cup {new}
    BY <1>4, <1>9, <1>11 DEF Held
  <2>2. Checkpoints' = Checkpoints
    BY <1>1 DEF Checkpoints, RowDraft
  <2> QED
    BY <1>10, <2>1, <2>2 DEF Existing
<1>13. CommitInv'
  BY <1>1, <1>10 DEF CommitInv, GenerationInv, Backed
<1>14. DraftInv'
  <2>1. \A d \in Existing : d.draft \in Nat /\ d.draft > 0 /\ d.draft <= drafts
    BY CommitTypes DEF GenerationInv, DraftInv
  <2>2. new.draft = drafts + 1
    OBVIOUS
  <2> HIDE DEF new
  <2>3. \A d \in Existing' : d.draft > 0 /\ d.draft <= drafts'
    BY <1>1, <1>12, <2>1, <2>2
  <2>4. \A c, d \in Existing' : c.draft = d.draft => c.src = d.src /\ c.etag = d.etag
    <3>1. \A c \in Existing : c.draft # new.draft
      BY <1>1, <2>1, <2>2
    <3> QED
      BY <1>12, <3>1 DEF GenerationInv, DraftInv
  <2> QED
    BY <2>3, <2>4 DEF DraftInv
<1>15. DoneInv'
  BY <1>1, <1>3, <1>4 DEF GenerationInv, DoneInv, WrittenOf, NoBlockedHost, CompletedIsWritten
<1> QED
  BY <1>5, <1>7, <1>8, <1>13, <1>14, <1>15 DEF GenerationInv

\* A checkpoint is the first commit of its version.
LEMMA CheckpointKeeps ==
  ASSUME GenerationInv, NEW m \in Ids, Checkpoint(m)
  PROVE  GenerationInv' /\ RequestOk
<1>1. CASE ~Holds(m, {"processing"})
  BY <1>1, FailsKeeps DEF Checkpoint
<1>2. CASE Holds(m, {"processing"})
  <2> DEFINE s == queue[m].src
             j == jobs[s]
             k == Updated(j, "generated", j.owner, j.expired, work[m].draft, Unobserved)
             w == [pc |-> "snapshot", draft |-> work[m].draft, seen |-> work[m].seen,
                   resume |-> work[m].resume, stamp |-> work[m].stamp, src |-> work[m].src,
                   disposition |-> work[m].disposition]
  <2>1. /\ work[m].pc = "drafted" /\ drafts' = drafts /\ checkpointGenerated(m) /\ To(m, "snapshot")
        /\ UNCHANGED <<source, page, request, queue, written, contacted>>
    BY <1>2 DEF Checkpoint
  <2>2. /\ queue[m].kind = "source" /\ s \in Sources /\ j \in JobRecord /\ j.etag <= source[s]
        /\ j.etag = queue[m].etag /\ j.status = "processing" /\ j.owner = m /\ work[m] \in WorkRecord
    BY <1>2, <2>1, JobMessage DEF Holds, SourcePlaces, GenerationInv, GenerationTypes, PlaceInv
  <2>3. /\ k \in JobRecord /\ k.etag = j.etag /\ k.draft = work[m].draft /\ k.owner = m
        /\ k.status = "generated"
    BY <2>2 DEF Updated, JobRecord, WorkRecord, Unobserved
  <2>4. /\ w \in WorkRecord /\ w.pc = "snapshot" /\ w.draft = work[m].draft
        /\ w.stamp = work[m].stamp
    BY <2>2 DEF WorkRecord, SourcePlaces
  <2>5. jobs' = [jobs EXCEPT ![s] = k] /\ work' = [work EXCEPT ![m] = w]
    BY <2>1, MovesOn DEF checkpointGenerated
  <2> HIDE DEF k, w
  <2>6. /\ jobs' \in [Sources -> JobRecord] /\ \A t \in Sources : jobs'[t] = IF t = s THEN k ELSE jobs[t]
        /\ work' \in [Ids -> WorkRecord] /\ \A i \in Ids : work'[i] = IF i = m THEN w ELSE work[i]
    BY <2>2, <2>3, <2>4, <2>5 DEF GenerationInv, GenerationTypes
  <2>7. SourceOk /\ PageOk /\ RequestOk /\ QueueOk
    BY <2>1, SourceStays, PageStays, RequestStays, QueueStays
  <2>8. StepOk
    <3>1. RowsOk
      BY <2>1, <2>2, <2>3, <2>6 DEF RowsOk, GenerationInv, PlaceInv
    <3>2. WorkOk(m, w)
      BY <2>1, <2>2, <2>4 DEF WorkOk, SourcePlaces, CapturePlaces, GenerationInv, StampInv
    <3> QED
      BY <2>1, <2>6, <2>7, <3>1, <3>2, WorkStays DEF StepOk
  <2>9. GenerationTypes' /\ PlaceInv' /\ StampInv'
    BY <2>1, <2>8, OkKeeps DEF GenerationInv, GenerationTypes
  <2>10. DraftingInv'
    <3> SUFFICES ASSUME NEW i \in Ids, work'[i].pc \in {"claimed", "authorized", "drafted"},
                        Holds(i, {"processing", "generated"})'
                 PROVE  jobs'[queue'[i].src].status = "processing"
      BY DEF DraftingInv
    <3>1. i # m
      BY <2>4, <2>6
    <3>2. work[i].pc \in {"claimed", "authorized", "drafted"} /\ queue[i].src \in Sources
      BY <2>6, <3>1, JobMessage DEF SourcePlaces
    <3>3. queue[i].src # s
      BY <2>1, <2>2, <2>3, <2>6, <3>1, <3>2 DEF Holds
    <3>4. jobs'[queue[i].src] = jobs[queue[i].src] /\ Holds(i, {"processing", "generated"})
      BY <2>1, <2>6, <3>2, <3>3 DEF Holds
    <3> QED
      BY <2>1, <3>2, <3>4 DEF GenerationInv, DraftingInv
  <2>11. /\ \A i \in Ids : HeldBy(i)' = HeldBy(i)
         /\ HeldBy(m) \in Held /\ \A t \in Sources : t = s => RowDraft(t)' = HeldBy(m)
    BY <2>1, <2>2, <2>3, <2>4, <2>6 DEF HeldBy, RowDraft, Held
  <2>12. Commits' \subseteq Commits \cup {HeldBy(m)}
    BY <2>1, <2>6, <2>11 DEF Commits, Committing
  <2>13. Existing' \subseteq Existing
    <3>1. Held' \subseteq Held
      BY <2>4, <2>6, <2>11 DEF Held
    <3>2. Checkpoints' \subseteq Checkpoints \cup {HeldBy(m)}
      <4>1. \A t \in Sources : t # s => jobs'[t].status = jobs[t].status /\ RowDraft(t)' = RowDraft(t)
        BY <2>6 DEF RowDraft
      <4> QED
        BY <2>11, <4>1 DEF Checkpoints
    <3> QED
      BY <2>11, <2>12, <3>1, <3>2 DEF Existing
  <2>14. CommitInv'
    <3>1. \A c \in Commits : ~(c.src = s /\ c.etag = j.etag)
      BY <2>2 DEF GenerationInv, CommitInv, Backed
    <3>2. ASSUME NEW c \in Commits PROVE Backed(c)'
      BY <2>2, <2>3, <2>6, <3>1, CommitTypes DEF GenerationInv, CommitInv, Backed, JobRecord
    <3>4. HeldBy(m).src = s /\ HeldBy(m).etag = j.etag /\ HeldBy(m).draft = work[m].draft
      BY <2>2 DEF HeldBy
    <3>3. ASSUME NEW c, c = HeldBy(m) PROVE Backed(c)'
      <4>1. jobs'[s] = k /\ c.src = s /\ c.etag = j.etag /\ c.draft = work[m].draft
        BY <2>2, <2>6, <3>3, <3>4
      <4> QED
        BY <2>2, <2>3, <4>1 DEF Backed, JobRecord
    <3>5. \A c \in Commits' : Backed(c)'
      BY <2>11, <2>12, <3>2, <3>3
    <3>6. \A c, d \in Commits' : c.src = d.src /\ c.etag = d.etag => c.draft = d.draft
      BY <2>12, <3>1, <3>4 DEF GenerationInv, CommitInv
    <3> QED
      BY <3>5, <3>6 DEF CommitInv
  <2>15. DraftInv'
    BY <2>1, <2>13 DEF DraftInv, GenerationInv
  <2>16. DoneInv'
    <3>1. \A i \in Ids : work'[i].pc \in {"complete", "request"} => WrittenOf(queue[i].src, queue[i].etag)
      BY <2>4, <2>6 DEF GenerationInv, DoneInv
    <3>2. CompletedIsWritten'
      BY <2>1, <2>3, <2>6 DEF GenerationInv, DoneInv, CompletedIsWritten
    <3> QED
      BY <2>1, <3>1, <3>2 DEF GenerationInv, DoneInv, WrittenOf, NoBlockedHost
  <2> QED
    BY <2>7, <2>9, <2>10, <2>14, <2>15, <2>16 DEF GenerationInv
<1> QED
  BY <1>1, <1>2

-----------------------------------------------------------------------------
(* Changes of the queue                                                    *)

\* Each message keeps what it is about, or is one that nobody processes.
LEMMA QueueChanges ==
  ASSUME GenerationInv, SourceOk, queue' \in [Ids -> MessageRecord],
         \A i \in Ids :
           \/ /\ queue'[i].kind = queue[i].kind
              /\ queue'[i].src = queue[i].src /\ queue'[i].etag = queue[i].etag
           \/ /\ work'[i].pc = "idle"
              /\ queue'[i].kind = "source" =>
                   /\ queue'[i].src \in Sources
                   /\ queue'[i].etag > 0 /\ queue'[i].etag <= source'[queue'[i].src]
  PROVE  QueueOk
BY MessageStands DEF QueueOk

\* Nobody processes a message that was not sent.
LEMMA FreeIsIdle ==
  ASSUME GenerationInv, NEW i \in Free
  PROVE  i \in Ids /\ queue[i].kind = "none" /\ work[i].pc = "idle"
BY DEF Free, GenerationInv, PlaceInv, Placed

\* A message is sent.
LEMMA SendOk ==
  ASSUME GenerationInv, SourceOk, NEW msg \in MessageRecord, Send(msg),
         \A i \in Free : work'[i].pc = "idle",
         msg.kind = "source" => msg.src \in Sources /\ msg.etag > 0 /\ msg.etag <= source'[msg.src]
  PROVE  QueueOk
<1>1. PICK i \in Free : queue' = [queue EXCEPT ![i] = msg]
  BY DEF Send
<1>2. i \in Ids /\ queue \in [Ids -> MessageRecord]
  BY <1>1, FreeIsIdle DEF GenerationInv, GenerationTypes
<1>3. queue' \in [Ids -> MessageRecord] /\ \A k \in Ids : queue'[k] = IF k = i THEN msg ELSE queue[k]
  BY <1>1, <1>2
<1> QED
  BY <1>1, <1>3, QueueChanges

\* A message that is delivered again is the same message.
LEMMA RedeliveredOk ==
  ASSUME GenerationInv, SourceOk, NEW m \in Ids, queue' = Redelivered(m)
  PROVE  QueueOk
<1> DEFINE a == IF queue[m].attempts < FinalAttempt THEN queue[m].attempts + 1 ELSE queue[m].attempts
           again == [queue[m] EXCEPT !.attempts = a]
<1>1. queue \in [Ids -> MessageRecord] /\ queue[m] \in MessageRecord
  BY DEF GenerationInv, GenerationTypes
<1>2. a \in Nat
  BY <1>1 DEF MessageRecord
<1>3. queue' = [queue EXCEPT ![m] = again]
  BY DEF Redelivered
<1> HIDE DEF a
<1>4. again \in MessageRecord /\ again.kind = queue[m].kind /\ again.src = queue[m].src
      /\ again.etag = queue[m].etag
  BY <1>1, <1>2 DEF MessageRecord
<1> HIDE DEF again
<1>5. queue' \in [Ids -> MessageRecord] /\ \A k \in Ids : queue'[k] = IF k = m THEN again ELSE queue[k]
  BY <1>1, <1>3, <1>4
<1> QED
  BY <1>4, <1>5, QueueChanges

\* What acknowledging does to the messages.
LEMMA AckedMessages ==
  ASSUME GenerationInv, NEW m \in Ids
  PROVE  /\ Acked(m) \in [Ids -> MessageRecord]
         /\ Acked(m)[m].kind = "gone"
         /\ \A k \in Ids : k # m => Acked(m)[k] = queue[k]
<1> DEFINE gone == [queue[m] EXCEPT !.kind = "gone"]
<1>1. queue \in [Ids -> MessageRecord] /\ queue[m] \in MessageRecord
  BY DEF GenerationInv, GenerationTypes
<1>2. Acked(m) = [queue EXCEPT ![m] = gone]
  BY DEF Acked
<1>3. gone \in MessageRecord /\ gone.kind = "gone"
  BY <1>1 DEF MessageRecord
<1> HIDE DEF gone
<1> QED
  BY <1>1, <1>2, <1>3

\* A message whose invocation is over is acknowledged, and perhaps sent again.
LEMMA AckedOk ==
  ASSUME GenerationInv, SourceOk, NEW m \in Ids, work'[m].pc = "idle", queue' = Acked(m)
  PROVE  QueueOk
BY AckedMessages, QueueChanges

\* The copy that is sent later asks for what the message asked for.
LEMMA RescheduledOk ==
  ASSUME GenerationInv, SourceOk, NEW m \in Ids, work' = [work EXCEPT ![m] = Idle],
         NEW i \in Free, queue' = [Acked(m) EXCEPT ![i] = [queue[m] EXCEPT !.attempts = 1]]
  PROVE  QueueOk
<1> DEFINE copy == [queue[m] EXCEPT !.attempts = 1]
<1>1. queue \in [Ids -> MessageRecord] /\ queue[m] \in MessageRecord /\ i \in Ids /\ work[i].pc = "idle"
  BY FreeIsIdle DEF GenerationInv, GenerationTypes
<1>2. copy \in MessageRecord /\ copy.kind = queue[m].kind /\ copy.src = queue[m].src
      /\ copy.etag = queue[m].etag
  BY <1>1 DEF MessageRecord
<1>3. queue' = [Acked(m) EXCEPT ![i] = copy]
  OBVIOUS
<1> HIDE DEF copy
<1>4. /\ queue' \in [Ids -> MessageRecord] /\ queue'[i] = copy
      /\ \A k \in Ids : k # i => queue'[k] = Acked(m)[k]
  BY <1>1, <1>2, <1>3, AckedMessages
<1>5. work'[m].pc = "idle" /\ work'[i].pc = "idle"
  BY <1>1 DEF GenerationInv, GenerationTypes, Idle, CaptureStep
<1>6. copy.kind = "source" =>
        copy.src \in Sources /\ copy.etag > 0 /\ copy.etag <= source'[copy.src]
  BY <1>2, MessageStands
<1> QED
  BY <1>2, <1>4, <1>5, <1>6, AckedMessages, QueueChanges

-----------------------------------------------------------------------------
(* The steps of a capture                                                  *)

\* An invocation at a place of a capture that knows the request as it is.
LEMMA CaptureMoves ==
  ASSUME GenerationInv, NEW m \in Ids, queue[m].kind = "capture",
         NEW pc \in CapturePlaces, NEW stamp \in Nat, NEW src \in Sources \cup {0},
         pc # "fetch" => src \in Sources /\ source'[src] > 0,
         stamp <= request'.stamp,
         stamp = request'.stamp => request'.status \in {"fetching", "source_written"}
  PROVE  WorkOk(m, CaptureStep(pc, stamp, src)) /\ WorkTame(m, CaptureStep(pc, stamp, src))
<1> DEFINE w == CaptureStep(pc, stamp, src)
<1>1. w \in WorkRecord /\ w.pc = pc /\ w.stamp = stamp /\ w.src = src
  BY DEF CaptureStep, WorkRecord, Unobserved, Dispositions
<1> HIDE DEF w
<1>2. WorkOk(m, w) /\ WorkTame(m, w)
  BY <1>1 DEF WorkOk, WorkTame, SourcePlaces, CapturePlaces
<1> QED
  BY <1>2 DEF w

\* A capture moves on by its program counter alone.
LEMMA CaptureMovesOn ==
  ASSUME GenerationInv, NEW m \in Ids, NEW pc \in {"send", "generating"}, To(m, pc),
         work[m].pc \in {"enqueue", "send"}, QueueOk, drafts' = drafts,
         SourceOk, RequestOk, RowsOk, \A s \in Sources : RowTame(s), PageOk
  PROVE  GenerationInv' /\ RequestOk
<1> DEFINE w == [pc |-> pc, draft |-> work[m].draft, seen |-> work[m].seen,
                 resume |-> work[m].resume, stamp |-> work[m].stamp, src |-> work[m].src,
                 disposition |-> work[m].disposition]
<1>1. work' = [work EXCEPT ![m] = w]
  BY MovesOn
<1>2. work[m] \in WorkRecord /\ WorkOk(m, work[m])
  BY WorkStays DEF GenerationInv, GenerationTypes, PageOk
<1>3. WorkOk(m, w) /\ WorkTame(m, w)
  BY <1>2 DEF WorkOk, WorkTame, WorkRecord, SourcePlaces, CapturePlaces
<1> HIDE DEF w
<1> QED
  BY <1>1, <1>3, OneMovesAndSends

\* A capture that finds the request moved on resumes from it, or stops.
LEMMA ReprocessKeeps ==
  ASSUME GenerationInv, NEW m \in Ids, queue[m].kind = "capture", reprocessLatestIfRecoverable(m),
         queue' = queue, drafts' = drafts, SourceOk, RowsOk, \A s \in Sources : RowTame(s), PageOk
  PROVE  GenerationInv' /\ RequestOk
<1>1. RequestOk /\ request' = request
  BY RequestStays DEF reprocessLatestIfRecoverable, PageOk
<1>2. CASE request.status = "source_written"
  <2>1. work' = [work EXCEPT ![m] = CaptureStep("enqueue", request.stamp, request.src)]
    BY <1>2 DEF reprocessLatestIfRecoverable
  <2>2. request.stamp \in Nat /\ request.src \in Sources /\ source'[request.src] > 0
    BY <1>1, <1>2 DEF RequestOk, RequestRecord
  <2>3. WorkOk(m, CaptureStep("enqueue", request.stamp, request.src))
        /\ WorkTame(m, CaptureStep("enqueue", request.stamp, request.src))
    BY <1>1, <1>2, <2>2, CaptureMoves DEF CapturePlaces
  <2> QED
    BY <1>1, <2>1, <2>3, OneMoves
<1>3. CASE request.status # "source_written"
  <2>1. Settled(m, "ack")
    BY <1>3 DEF reprocessLatestIfRecoverable
  <2> QED
    BY <1>1, <2>1, OneSettles DEF Dispositions
<1> QED
  BY <1>2, <1>3

\* What a capture knows: its message, and that the request it has seen is open.
LEMMA CaptureKnows ==
  ASSUME GenerationInv, NEW m \in Ids, work[m].pc \in CapturePlaces
  PROVE  /\ queue[m].kind = "capture"
         /\ work[m].stamp \in Nat /\ work[m].src \in Sources \cup {0}
         /\ work[m].pc # "fetch" => work[m].src \in Sources /\ source[work[m].src] > 0
         /\ Unmoved(m) => request.status \in {"fetching", "source_written"}
BY DEF GenerationInv, GenerationTypes, WorkRecord, PlaceInv, Placed, StampInv, Unmoved

\* An invocation that writes the status of a request nobody moved on, or looks at it again.
LEMMA ReportKeeps ==
  ASSUME GenerationInv, NEW m \in Ids, work[m].pc \in CapturePlaces,
         NEW st \in {"generating", "completed", "failed"}, st = "completed" => written' # {},
         IF Unmoved(m) THEN WriteRequest(st) /\ Settled(m, "ack") ELSE reprocessLatestIfRecoverable(m),
         queue' = queue, drafts' = drafts, SourceOk, RowsOk, \A s \in Sources : RowTame(s), PageOk
  PROVE  GenerationInv' /\ RequestOk
<1>1. queue[m].kind = "capture"
  BY CaptureKnows
<1>2. CASE Unmoved(m)
  <2>1. RequestOk
    BY <1>2, CaptureKnows, RequestWritten
  <2> QED
    BY <1>1, <1>2, <2>1, OneSettles DEF Dispositions
<1>3. CASE ~Unmoved(m)
  BY <1>1, <1>3, ReprocessKeeps
<1> QED
  BY <1>2, <1>3

\* The error of a capture is reported unless the request is settled or generating.
LEMMA CaptureFailsKeeps ==
  ASSUME GenerationInv, NEW m \in Ids, queue[m].kind = "capture", CaptureFails(m),
         queue' = queue, drafts' = drafts, SourceOk, RowsOk, \A s \in Sources : RowTame(s), PageOk
  PROVE  GenerationInv' /\ RequestOk
<1>1. RequestOk
  BY RequestStays, RequestWritten
     DEF CaptureFails, writeLatestRequestState, Terminal, PageOk
<1> QED
  BY <1>1, OneSettles DEF CaptureFails, Dispositions

\* A capture message is claimed, resumed or dropped.
LEMMA ClaimCaptureKeeps ==
  ASSUME GenerationInv, NEW m \in Ids, ClaimCapture(m)
  PROVE  GenerationInv' /\ RequestOk
<1>1. /\ queue[m].kind = "capture" /\ UNCHANGED <<source, jobs, page, queue, drafts, written, contacted>>
      /\ request \in RequestRecord
  BY DEF ClaimCapture, GenerationInv, GenerationTypes
<1>2. SourceOk /\ PageOk /\ RowsOk /\ \A s \in Sources : RowTame(s)
  BY <1>1, SourceStays, PageStays, RowsStay
<1>3. CASE /\ MayProcess /\ WriteRequest("fetching")
           /\ work' = [work EXCEPT ![m] = CaptureStep("fetch", request.stamp + 1, 0)]
  <2>1. request.stamp + 1 \in Nat /\ request'.stamp = request.stamp + 1 /\ request'.status = "fetching"
    BY <1>1, <1>3 DEF RequestRecord, WriteRequest
  <2>2. RequestOk
    BY <1>3, RequestWritten DEF MayProcess
  <2>3. WorkOk(m, CaptureStep("fetch", request.stamp + 1, 0))
        /\ WorkTame(m, CaptureStep("fetch", request.stamp + 1, 0))
    BY <1>1, <2>1, CaptureMoves DEF CapturePlaces
  <2> QED
    BY <1>1, <1>2, <1>3, <2>2, <2>3, OneMoves
<1>4. CASE /\ request.status = "source_written" /\ UNCHANGED request
           /\ work' = [work EXCEPT ![m] = CaptureStep("enqueue", request.stamp, request.src)]
  <2>1. reprocessLatestIfRecoverable(m)
    BY <1>4 DEF reprocessLatestIfRecoverable
  <2> QED
    BY <1>1, <1>2, <2>1, ReprocessKeeps
<1>5. CASE Settled(m, "ack") /\ UNCHANGED request
  <2>1. RequestOk
    BY <1>1, <1>2, <1>5, RequestStays
  <2> QED
    BY <1>1, <1>2, <1>5, <2>1, OneSettles DEF Dispositions
<1> QED
  BY <1>3, <1>4, <1>5 DEF ClaimCapture

\* No host that is asked is blocked.
LEMMA RequestedHosts == ASSUME NEW hops, Len(hops) \in Nat PROVE Requested(hops) \cap Blocked = {}
<1> SUFFICES ASSUME NEW h \in Requested(hops) PROVE h \notin Blocked
  OBVIOUS
<1>1. PICK n \in 1 .. Len(hops) : h = hops[n] /\ \A k \in 1 .. n : ~isBlockedHostname(hops[k])
  BY DEF Requested
<1>2. n \in 1 .. n
  BY <1>1
<1> QED
  BY <1>1, <1>2 DEF isBlockedHostname

\* The URL is fetched and its source node written.
LEMMA FetchKeeps ==
  ASSUME GenerationInv, NEW m \in Ids, Fetch(m)
  PROVE  GenerationInv' /\ RequestOk
<1>1. work[m].pc = "fetch" /\ UNCHANGED <<jobs, page, queue, drafts, written>>
  BY DEF Fetch
<1>2. queue[m].kind = "capture" /\ work[m].stamp \in Nat
  BY <1>1, CaptureKnows DEF CapturePlaces
<1>3. contacted' \cap Blocked = {}
  <2>1. contacted \cap Blocked = {}
    BY DEF GenerationInv, DoneInv, NoBlockedHost
  <2>2. CASE contacted' = contacted
    BY <2>1, <2>2
  <2>3. CASE \E hops \in UNION {[1 .. n -> Hosts] : n \in 1 .. MaxRedirects + 2} :
               contacted' = contacted \cup Requested(hops)
    <3>1. PICK hops \in UNION {[1 .. n -> Hosts] : n \in 1 .. MaxRedirects + 2} :
                 contacted' = contacted \cup Requested(hops)
      BY <2>3
    <3>2. PICK n \in 1 .. MaxRedirects + 2 : hops \in [1 .. n -> Hosts]
      OBVIOUS
    <3>3. Len(hops) \in Nat
      BY <3>2
    <3> QED
      BY <2>1, <3>1, <3>3, RequestedHosts
  <2> QED
    BY <2>2, <2>3 DEF Fetch
<1>4. PageOk
  BY <1>1, <1>3 DEF PageOk, GenerationInv, GenerationTypes, DoneInv, Commits
<1>5. CASE CaptureFails(m) /\ source' = source
  <2>1. SourceOk /\ RowsOk /\ \A s \in Sources : RowTame(s)
    BY <1>1, <1>5, SourceStays, RowsStay
  <2> QED
    BY <1>1, <1>2, <1>4, <1>5, <2>1, CaptureFailsKeeps
<1>6. ASSUME NEW s \in Sources, source[s] = 0, source' = [source EXCEPT ![s] = 1],
             work' = [work EXCEPT ![m] = CaptureStep("record", @.stamp, s)], UNCHANGED request
      PROVE  GenerationInv' /\ RequestOk
  <2>1. SourceOk /\ source'[s] = 1
    BY <1>6 DEF SourceOk, GenerationInv, GenerationTypes
  <2>2. RowsOk /\ RequestOk /\ \A t \in Sources : RowTame(t)
    BY <1>1, <1>6, <2>1, RowsStay, RequestStays
  <2>3. /\ work[m].stamp <= request'.stamp
        /\ work[m].stamp = request'.stamp => request'.status \in {"fetching", "source_written"}
    BY <1>1, <1>6 DEF GenerationInv, StampInv, CapturePlaces
  <2>4. WorkOk(m, CaptureStep("record", work[m].stamp, s))
        /\ WorkTame(m, CaptureStep("record", work[m].stamp, s))
    BY <1>2, <2>1, <2>3, CaptureMoves DEF CapturePlaces
  <2>5. work' = [work EXCEPT ![m] = CaptureStep("record", work[m].stamp, s)]
    BY <1>6
  <2> QED
    BY <1>1, <1>4, <2>1, <2>2, <2>4, <2>5, OneMoves
<1> QED
  BY <1>5, <1>6 DEF Fetch

\* The request is told which source was written for it.
LEMMA RecordKeeps ==
  ASSUME GenerationInv, NEW m \in Ids, RecordSource(m)
  PROVE  GenerationInv' /\ RequestOk
<1>1. work[m].pc = "record" /\ UNCHANGED <<source, jobs, page, queue, drafts, written, contacted>>
  BY DEF RecordSource
<1>2. SourceOk /\ PageOk /\ RowsOk /\ \A s \in Sources : RowTame(s)
  BY <1>1, SourceStays, PageStays, RowsStay
<1>3. /\ queue[m].kind = "capture" /\ work[m].src \in Sources /\ source[work[m].src] > 0
      /\ Unmoved(m) => request.status # "completed"
  BY <1>1, CaptureKnows DEF CapturePlaces
<1>4. CASE Unmoved(m)
  <2> DEFINE r == [status |-> "source_written", stamp |-> request.stamp + 1, src |-> work[m].src]
  <2>1. /\ request' = r
        /\ work' = [work EXCEPT ![m] = CaptureStep("enqueue", request.stamp + 1, work[m].src)]
    BY <1>4 DEF RecordSource
  <2>2. request.stamp \in Nat
    BY DEF GenerationInv, GenerationTypes, RequestRecord
  <2>3. r \in RequestRecord /\ r.status = "source_written" /\ r.stamp = request.stamp + 1
        /\ r.src = work[m].src
    BY <1>3, <2>2 DEF RequestRecord
  <2> HIDE DEF r
  <2>4. RequestOk
    BY <1>1, <1>3, <1>4, <2>1, <2>3 DEF RequestOk
  <2>5. WorkOk(m, CaptureStep("enqueue", request.stamp + 1, work[m].src))
        /\ WorkTame(m, CaptureStep("enqueue", request.stamp + 1, work[m].src))
    BY <1>1, <1>3, <2>1, <2>2, <2>3, CaptureMoves DEF CapturePlaces
  <2> QED
    BY <1>1, <1>2, <2>1, <2>4, <2>5, OneMoves
<1>5. CASE ~Unmoved(m)
  BY <1>1, <1>2, <1>3, <1>5, ReprocessKeeps DEF RecordSource
<1> QED
  BY <1>4, <1>5

\* The job is reserved; one that is done already completes the request.
LEMMA ReserveKeeps ==
  ASSUME GenerationInv, NEW m \in Ids, Reserve(m)
  PROVE  GenerationInv' /\ RequestOk
<1> DEFINE s == work[m].src
           next == Enqueue(jobs', s, source[s], DefaultRoot)
<1>1. work[m].pc = "enqueue" /\ UNCHANGED <<source, page, queue, drafts, written, contacted>>
      /\ jobs' = upsertQueuedJob(s, source[s], DefaultRoot)
  BY DEF Reserve
<1>2. s \in Sources
  BY <1>1, CaptureKnows DEF CapturePlaces
<1>3. SourceOk /\ PageOk /\ RowsOk /\ \A t \in Sources : RowTame(t)
  BY <1>1, <1>2, SourceStays, PageStays, RowQueued DEF Destinations
<1>4. next = "skip" => written' # {}
  <2>1. next = "skip" => jobs'[s].status = "completed"
    BY DEF Enqueue
  <2> QED
    BY <1>2, <1>3, <2>1 DEF RowTame, Wrote
<1>5. \/ IF Unmoved(m) THEN WriteRequest("failed") /\ Settled(m, "ack") ELSE reprocessLatestIfRecoverable(m)
      \/ /\ next = "skip"
         /\ IF Unmoved(m) THEN WriteRequest("completed") /\ Settled(m, "ack")
            ELSE reprocessLatestIfRecoverable(m)
      \/ To(m, "send") /\ UNCHANGED request
  BY DEF Reserve
<1> HIDE DEF next
<1>6. CASE IF Unmoved(m) THEN WriteRequest("failed") /\ Settled(m, "ack") ELSE reprocessLatestIfRecoverable(m)
  BY <1>1, <1>3, <1>6, ReportKeeps DEF CapturePlaces
<1>7. CASE /\ next = "skip"
           /\ IF Unmoved(m) THEN WriteRequest("completed") /\ Settled(m, "ack")
              ELSE reprocessLatestIfRecoverable(m)
  BY <1>1, <1>3, <1>4, <1>7, ReportKeeps DEF CapturePlaces
<1>8. CASE To(m, "send") /\ UNCHANGED request
  <2>1. RequestOk /\ QueueOk
    BY <1>1, <1>3, <1>8, RequestStays, QueueStays
  <2> QED
    BY <1>1, <1>3, <1>8, <2>1, CaptureMovesOn
<1> QED
  BY <1>5, <1>6, <1>7, <1>8

\* The job's message is sent, or sending it fails.
LEMMA SendJobKeeps ==
  ASSUME GenerationInv, NEW m \in Ids, SendJob(m)
  PROVE  GenerationInv' /\ RequestOk
<1> DEFINE s == work[m].src
           msg == Message("source", s, source[s], DefaultRoot, TRUE)
<1>1. work[m].pc = "send" /\ UNCHANGED <<source, jobs, page, drafts, written, contacted>>
  BY DEF SendJob
<1>2. SourceOk /\ PageOk /\ RowsOk /\ \A t \in Sources : RowTame(t)
  BY <1>1, SourceStays, PageStays, RowsStay
<1>3. s \in Sources /\ source[s] > 0 /\ source[s] \in Nat /\ queue[m].kind = "capture"
  BY <1>1, CaptureKnows DEF CapturePlaces, GenerationInv, GenerationTypes
<1>4. CASE Send(msg) /\ To(m, "generating") /\ UNCHANGED request
  <2>1. msg \in MessageRecord /\ msg.src = s /\ msg.etag = source[s]
    BY <1>3 DEF Message, MessageRecord, Destinations
  <2> HIDE DEF msg
  <2>2. \A i \in Free : work'[i].pc = "idle"
    <3>1. m \notin Free
      BY <1>3, FreeIsIdle
    <3>2. \A i \in Ids : i # m => work'[i] = work[i]
      BY <1>4 DEF To, GenerationInv, GenerationTypes
    <3> QED
      BY <3>1, <3>2, FreeIsIdle
  <2>3. RequestOk /\ QueueOk
    BY <1>1, <1>2, <1>3, <1>4, <2>1, <2>2, RequestStays, SendOk
  <2> QED
    BY <1>1, <1>2, <1>4, <2>3, CaptureMovesOn
<1>5. CASE /\ UNCHANGED queue
           /\ IF Unmoved(m) THEN WriteRequest("failed") /\ Settled(m, "ack")
              ELSE reprocessLatestIfRecoverable(m)
  BY <1>1, <1>2, <1>5, ReportKeeps DEF CapturePlaces
<1> QED
  BY <1>4, <1>5 DEF SendJob

\* The capture says that the job is generating.
LEMMA GeneratingKeeps ==
  ASSUME GenerationInv, NEW m \in Ids, Generating(m)
  PROVE  GenerationInv' /\ RequestOk
<1>1. work[m].pc = "generating" /\ UNCHANGED <<source, jobs, page, queue, drafts, written, contacted>>
      /\ IF Unmoved(m) THEN WriteRequest("generating") /\ Settled(m, "ack")
         ELSE reprocessLatestIfRecoverable(m)
  BY DEF Generating
<1>2. SourceOk /\ PageOk /\ RowsOk /\ \A s \in Sources : RowTame(s)
  BY <1>1, SourceStays, PageStays, RowsStay
<1> QED
  BY <1>1, <1>2, ReportKeeps DEF CapturePlaces

-----------------------------------------------------------------------------
(* Deliveries, crashes, leases and the user                                *)

\* A message of no known shape is acknowledged.
LEMMA MalformedKeeps ==
  ASSUME GenerationInv, NEW m \in Ids, Malformed(m)
  PROVE  GenerationInv' /\ RequestOk
<1>1. queue[m].kind = "malformed" /\ Settled(m, "ack")
      /\ UNCHANGED <<source, jobs, page, request, queue, drafts, written, contacted>>
  BY DEF Malformed
<1>2. SourceOk /\ PageOk /\ RequestOk /\ RowsOk /\ \A s \in Sources : RowTame(s)
  BY <1>1, SourceStays, PageStays, RequestStays, RowsStay
<1> QED
  BY <1>1, <1>2, OneSettles DEF Dispositions

\* A delivery that is over leaves the queue with its message settled or to be delivered again.
LEMMA DeliveryEnds ==
  ASSUME GenerationInv, NEW m \in Ids, work' = [work EXCEPT ![m] = Idle],
         UNCHANGED <<source, jobs, page, request, drafts, written, contacted>>,
         \/ queue' = Redelivered(m) \/ queue' = Acked(m)
         \/ \E i \in Free : queue' = [Acked(m) EXCEPT ![i] = [queue[m] EXCEPT !.attempts = 1]]
  PROVE  GenerationInv' /\ RequestOk
<1>1. SourceOk /\ PageOk /\ RequestOk /\ RowsOk /\ \A s \in Sources : RowTame(s)
  BY SourceStays, PageStays, RequestStays, RowsStay
<1>2. work'[m].pc = "idle"
  BY DEF GenerationInv, GenerationTypes, Idle, CaptureStep
<1>3. QueueOk
  BY <1>1, <1>2, RedeliveredOk, AckedOk, RescheduledOk
<1>4. WorkOk(m, Idle) /\ WorkTame(m, Idle)
  BY <1>1, WorkRests
<1> QED
  BY <1>1, <1>3, <1>4, OneMovesAndSends

\* The lease of a row expires under its owner.
LEMMA LeaseKeeps ==
  ASSUME GenerationInv, NEW s \in Sources, LeaseExpires(s)
  PROVE  GenerationInv' /\ RequestOk
<1> DEFINE j == jobs[s]
           k == [j EXCEPT !.expired = TRUE]
<1>1. /\ jobs' = [jobs EXCEPT ![s] = k]
      /\ UNCHANGED <<source, page, request, queue, work, drafts, written, contacted>>
  BY DEF LeaseExpires
<1>2. j \in JobRecord /\ j.etag <= source[s]
  BY DEF GenerationInv, GenerationTypes, PlaceInv
<1>3. k \in JobRecord /\ k.etag = j.etag /\ k.status = j.status /\ k.draft = j.draft /\ k.owner = j.owner
  BY <1>2 DEF JobRecord
<1> HIDE DEF k
<1>4. jobs'[s] = k
  BY <1>1 DEF GenerationInv, GenerationTypes
<1>5. j.status = "completed" => Wrote(s, j.etag)
  BY <1>1 DEF GenerationInv, DoneInv, CompletedIsWritten, Wrote
<1>6. RowTame(s)
  BY <1>2, <1>3, <1>4, <1>5 DEF RowTame, JobRecord
<1>7. SourceOk /\ PageOk /\ RequestOk /\ QueueOk
  BY <1>1, SourceStays, PageStays, RequestStays, QueueStays
<1>8. RowsOk /\ \A t \in Sources : RowTame(t)
  BY <1>1, <1>2, <1>3, <1>6, <1>7, OneRowChanges
<1> QED
  BY <1>1, <1>7, <1>8, NobodyMoves

\* The user edits a source node, or the page.
LEMMA EditsKeep ==
  ASSUME GenerationInv, (\E s \in Sources : EditSource(s)) \/ EditPage
  PROVE  GenerationInv' /\ RequestOk
<1>1. UNCHANGED <<jobs, request, queue, work, drafts, written, contacted>>
  BY DEF EditSource, EditPage
<1>2. SourceOk
  <2>1. ASSUME NEW s \in Sources, EditSource(s) PROVE SourceOk
    BY <2>1 DEF EditSource, SourceOk, GenerationInv, GenerationTypes
  <2>2. CASE EditPage
    BY <2>2, SourceStays DEF EditPage
  <2> QED
    BY <2>1, <2>2
<1>3. PageOk
  <2>1. ASSUME NEW s \in Sources, EditSource(s) PROVE PageOk
    BY <1>1, <2>1, PageStays DEF EditSource
  <2>2. CASE EditPage
    <3>1. PICK from \in {0, page.from} : page' = [stamp |-> page.stamp + 1, draft |-> 0, from |-> from]
      BY <2>2 DEF EditPage
    <3>2. page.stamp \in Nat /\ page.from \in Sources \cup {0}
      BY DEF GenerationInv, GenerationTypes
    <3>3. page' \in [stamp : Nat, draft : Nat, from : Sources \cup {0}] /\ page'.draft = 0
      BY <3>1, <3>2
    <3> QED
      BY <1>1, <3>3 DEF PageOk, Commits, GenerationInv, DoneInv, NoBlockedHost
  <2> QED
    BY <2>1, <2>2
<1>4. RequestOk /\ QueueOk /\ RowsOk /\ \A s \in Sources : RowTame(s)
  BY <1>1, <1>2, RequestStays, QueueStays, RowsStay
<1> QED
  BY <1>1, <1>2, <1>3, <1>4, NobodyMoves

\* The endpoint sends a capture message, or one of no known shape comes in.
LEMMA TriggerKeeps ==
  ASSUME GenerationInv, Trigger
  PROVE  GenerationInv' /\ RequestOk
<1>1. UNCHANGED <<source, jobs, page, request, work, drafts, written, contacted>>
  BY DEF Trigger
<1>2. SourceOk /\ PageOk /\ RequestOk /\ RowsOk /\ \A s \in Sources : RowTame(s)
  BY <1>1, SourceStays, PageStays, RequestStays, RowsStay
<1>3. PICK kind \in {"capture", "malformed"} : Send(Message(kind, 0, 0, DefaultRoot, FALSE))
  BY DEF Trigger
<1>4. Message(kind, 0, 0, DefaultRoot, FALSE) \in MessageRecord
      /\ Message(kind, 0, 0, DefaultRoot, FALSE).kind = kind
  BY DEF Message, MessageRecord, Destinations
<1>5. \A i \in Free : work'[i].pc = "idle"
  BY <1>1, FreeIsIdle
<1>6. QueueOk
  BY <1>2, <1>3, <1>4, <1>5, SendOk
<1> QED
  BY <1>1, <1>2, <1>6, NobodyMoves

\* A caller asks for the current version of a source.
LEMMA ManualKeeps ==
  ASSUME GenerationInv, NEW s \in Sources, NEW root \in Roots, runManual(s, root)
  PROVE  GenerationInv' /\ RequestOk
<1> DEFINE msg == Message("source", s, source[s], root, FALSE)
<1>1. /\ source[s] # 0 /\ jobs' = upsertQueuedJob(s, source[s], root)
      /\ Send(msg) \/ UNCHANGED queue
      /\ UNCHANGED <<source, page, request, work, drafts, written, contacted>>
  BY DEF runManual
<1>2. SourceOk /\ PageOk /\ RequestOk /\ RowsOk /\ \A t \in Sources : RowTame(t)
  BY <1>1, SourceStays, PageStays, RequestStays, RowQueued DEF Destinations
<1>3. msg \in MessageRecord /\ msg.src = s /\ msg.etag = source[s] /\ source[s] \in Nat
  BY DEF Message, MessageRecord, Destinations, GenerationInv, GenerationTypes
<1> HIDE DEF msg
<1>4. \A i \in Free : work'[i].pc = "idle"
  BY <1>1, FreeIsIdle
<1>5. QueueOk
  BY <1>1, <1>2, <1>3, <1>4, SendOk, QueueStays
<1> QED
  BY <1>1, <1>2, <1>5, NobodyMoves

-----------------------------------------------------------------------------
(* The theorems                                                            *)

\* The invariant holds at first: nothing was sent, held or written.
LEMMA GenerationInit == Init => GenerationInv
<1> SUFFICES ASSUME Init PROVE GenerationInv
  OBVIOUS
<1>1. /\ NoJob \in JobRecord /\ NoJob.status = "none" /\ NoJob.etag = 0
      /\ NoMessage \in MessageRecord /\ NoMessage.kind = "none"
      /\ Idle \in WorkRecord /\ Idle.pc = "idle" /\ Idle.stamp = 0
  BY DEF NoJob, JobRecord, NoMessage, MessageRecord, Idle, CaptureStep, WorkRecord, Destinations, Unobserved,
         Dispositions
<1>2. /\ \A s \in Sources : source[s] = 0 /\ jobs[s].status = "none" /\ jobs[s].etag = 0
      /\ \A m \in Ids : queue[m].kind = "none" /\ work[m].pc = "idle" /\ work[m].stamp = 0
  BY <1>1 DEF Init
<1>3. GenerationTypes
  BY <1>1 DEF Init, GenerationTypes, RequestRecord
<1>4. PlaceInv /\ StampInv /\ DraftingInv
  BY <1>2 DEF Init, PlaceInv, Placed, StampInv, DraftingInv, SourcePlaces, CapturePlaces
<1>5. Commits = {} /\ Existing = {}
  BY <1>2 DEF Init, Commits, Committing, Existing, Held, Checkpoints
<1>6. CommitInv /\ DraftInv
  BY <1>5 DEF CommitInv, DraftInv
<1>7. DoneInv
  BY <1>2 DEF Init, DoneInv, CompletedIsWritten, NoBlockedHost
<1> QED
  BY <1>3, <1>4, <1>6, <1>7 DEF GenerationInv

\* Every step keeps the invariant, and a completed request completed.
LEMMA GenerationStep ==
  GenerationInv /\ [Next]_vars =>
    GenerationInv' /\ (request.status = "completed" => request'.status = "completed")
<1> SUFFICES ASSUME GenerationInv, [Next]_vars PROVE GenerationInv' /\ RequestOk
  BY DEF RequestOk
<1>1. ASSUME NEW m \in Ids, ProcessSource(m) PROVE GenerationInv' /\ RequestOk
  <2>1. CASE ClaimSource(m)
    BY <2>1, UnclaimedKeeps, ClaimedKeeps
  <2>2. CASE generateDraft(m)
    BY <2>2, NoDraftKeeps, BoughtKeeps
  <2> QED
    BY <1>1, <2>1, <2>2, ReadKeeps, CheckpointKeeps, SnapshotKeeps, WriteKeeps, CompleteKeeps,
       CompleteRequestKeeps DEF ProcessSource
<1>2. ASSUME NEW m \in Ids, ProcessCapture(m) PROVE GenerationInv' /\ RequestOk
  BY <1>2, ClaimCaptureKeeps, FetchKeeps, RecordKeeps, ReserveKeeps, SendJobKeeps, GeneratingKeeps
     DEF ProcessCapture
<1>3. ASSUME NEW m \in Ids, applyDisposition(m) PROVE GenerationInv' /\ RequestOk
  <2>1. /\ work' = [work EXCEPT ![m] = Idle]
        /\ UNCHANGED <<source, jobs, page, request, drafts, written, contacted>>
        /\ \/ queue' = Redelivered(m) \/ queue' = Acked(m)
           \/ \E i \in Free : queue' = [Acked(m) EXCEPT ![i] = [queue[m] EXCEPT !.attempts = 1]]
    BY <1>3, Zenon DEF applyDisposition
  <2> QED
    BY <2>1, DeliveryEnds
<1>4. ASSUME NEW m \in Ids, Crash(m) PROVE GenerationInv' /\ RequestOk
  <2>1. /\ work' = [work EXCEPT ![m] = Idle] /\ queue' = Redelivered(m)
        /\ UNCHANGED <<source, jobs, page, request, drafts, written, contacted>>
    BY <1>4, Zenon DEF Crash
  <2> QED
    BY <2>1, DeliveryEnds
<1>5. CASE UNCHANGED vars
  <2>1. UNCHANGED <<source, jobs, page, request, queue, work, drafts, written, contacted>>
    BY <1>5 DEF vars
  <2>2. SourceOk /\ PageOk /\ RequestOk /\ QueueOk /\ RowsOk /\ \A s \in Sources : RowTame(s)
    BY <2>1, SourceStays, PageStays, RequestStays, QueueStays, RowsStay
  <2> QED
    BY <2>1, <2>2, NobodyMoves
<1> QED
  BY <1>1, <1>2, <1>3, <1>4, <1>5, MalformedKeeps, LeaseKeeps, EditsKeep, ManualKeeps, TriggerKeeps DEF Next

\* The invariant of the deliveries, rows, nodes and messages always holds.
THEOREM GenerationInvHolds == Spec => []GenerationInv
BY GenerationInit, GenerationStep, PTL DEF Spec

\* However deliveries race, expire, crash and are repeated, one draft per source
\* version reaches the page, what is said to be completed was written, and no
\* blocked host is asked.
THEOREM GenerationIsSoundHolds == Spec => []GenerationIsSound
<1>1. GenerationInv => GenerationIsSound
  BY DEF GenerationInv, CommitInv, Commits, DoneInv, GenerationIsSound, OneDraftPerVersion
<1> QED
  BY <1>1, GenerationInvHolds, PTL

\* A request that was reported completed is never reopened or failed, by any
\* capture or any late delivery.
THEOREM CompletedIsFinalHolds == Spec => CompletedIsFinal
<1>1. GenerationInv /\ [Next]_vars => [request.status = "completed" => request'.status = "completed"]_vars
  BY GenerationStep
<1> QED
  BY <1>1, GenerationInvHolds, PTL DEF Spec, CompletedIsFinal

=============================================================================
