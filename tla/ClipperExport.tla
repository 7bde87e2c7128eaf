--------------------------- MODULE ClipperExport ---------------------------
(***************************************************************************)
(* Export of recent AI conversations from the chat page: the content       *)
(* script's controls, its two export workers, and the progress record in   *)
(* the session storage.  The page reaches the storage only through the     *)
(* service worker, which reads the record and then sets it.                *)
(*                                                                         *)
(* Conversations stand for their captures.  Listing, reading a             *)
(* conversation, saving its source and queueing its generation fail freely.*)
(***************************************************************************)
EXTENDS Integers, Sequences, FiniteSets, SequencesExt

CONSTANTS
  Conversations,
  Limit,        \* conversations asked for, after normalizeExportLimit
  MaxExports,   \* exports started
  MaxReloads    \* reloads of the page and expiries of the record explored

VARIABLES
  stored,       \* export record of the session storage
  ui,           \* [shown, starting, exports, reloads]
  main,         \* processDirectExport: [pc, state, targets, next]
  worker,       \* the two workers of mapWithConcurrency: [pc, target, ok]
  cancel,       \* cancelCurrentTabExport: the record it read, or NoState
  calls,        \* caller -> write under way in the service worker
  saves         \* ghost: conversation -> saves of the present export

vars == <<stored, ui, main, worker, cancel, calls, saves>>

Workers == {1, 2}       \* EXPORT_CONCURRENCY
Main == 0
Canceller == 3
Callers == Workers \cup {Main, Canceller}
NoState == [status |-> "none", total |-> 0, done |-> 0, ok |-> 0, failed |-> 0]
NoCall == [at |-> "none", seen |-> "none", value |-> NoState]
NoWorker == [pc |-> "off", target |-> 0, ok |-> FALSE]

exportIsCancelled == stored.status = "cancelled"

\* createExportState
createExportState == [NoState EXCEPT !.status = "exporting", !.total = Limit]

\* advanceState
advanceState(state, ok) ==
  [state EXCEPT !.done = @ + 1, !.ok = @ + IF ok THEN 1 ELSE 0,
                !.failed = @ + IF ok THEN 0 ELSE 1]

\* The record read from the storage, or the caller's own.
Latest(state) == IF stored = NoState THEN state ELSE stored

\* What the panel shows: hydrate and the onState callbacks.
Hydrated(state) == [ui EXCEPT !.shown = state.status]

exportLocked == ui.starting \/ ui.shown = "exporting"

-----------------------------------------------------------------------------
(* Service worker                                                          *)

\* A write leaves the page.
Write(c, state) == calls' = [calls EXCEPT ![c] = [at |-> "get", seen |-> "none", value |-> state]]

Returned(c) == calls[c] = NoCall

\* writeSessionValue: the read ...
SessionGet(c) ==
  /\ calls[c].at = "get"
  /\ calls' = [calls EXCEPT ![c].at = "set", ![c].seen = stored.status]
  /\ UNCHANGED <<stored, ui, main, worker, cancel, saves>>

KeepsCancelled_Never(call) == FALSE

\* ... a cancelled record it saw is kept ...
KeepsCancelled(call) == call.seen = "cancelled" /\ call.value.status # "cancelled"

\* ... and the write, which does not look again.
SessionSet(c) ==
  /\ calls[c].at = "set"
  /\ stored' = IF KeepsCancelled(calls[c]) THEN stored ELSE calls[c].value
  /\ calls' = [calls EXCEPT ![c] = NoCall]
  /\ UNCHANGED <<ui, main, worker, cancel, saves>>

\* STATE_TTL_MS passes: isValidState refuses the record.
RecordExpires ==
  /\ ui.reloads < MaxReloads /\ stored # NoState
  /\ stored' = NoState
  /\ ui' = [ui EXCEPT !.reloads = @ + 1]
  /\ UNCHANGED <<main, worker, cancel, calls, saves>>

-----------------------------------------------------------------------------
(* Start                                                                   *)

\* startExport, quickSave: no conversation page, no writable database, not
\* signed in, or the first record is written.
startExport(ready) ==
  /\ ~exportLocked /\ main.pc = "idle" /\ Returned(Main) /\ ui.exports < MaxExports
  /\ IF ready
     THEN /\ ui' = [ui EXCEPT !.starting = TRUE, !.shown = "exporting", !.exports = @ + 1]
          /\ Write(Main, createExportState)
          /\ main' = [main EXCEPT !.pc = "started", !.state = createExportState]
          /\ saves' = [c \in Conversations |-> 0]
     ELSE /\ ui' = [ui EXCEPT !.shown = "error"]
          /\ UNCHANGED <<calls, main, saves>>
  /\ UNCHANGED <<stored, worker, cancel>>

\* The end of an export: the record is removed and the controls are free.
Ends(shown) ==
  /\ stored' = NoState
  /\ ui' = [ui EXCEPT !.shown = shown, !.starting = FALSE]
  /\ main' = [main EXCEPT !.pc = "idle", !.targets = <<>>]

\* processDirectExport reads its record back: another status ends it at once.
ReadBack ==
  /\ main.pc = "started" /\ Returned(Main)
  /\ IF stored.status = "exporting"
     THEN main' = [main EXCEPT !.pc = "list", !.state = stored] /\ UNCHANGED ui
     ELSE main' = [main EXCEPT !.pc = "idle"] /\ ui' = [ui EXCEPT !.starting = FALSE]
  /\ UNCHANGED <<stored, worker, cancel, calls, saves>>

-----------------------------------------------------------------------------
(* Listing                                                                 *)

Targets_NotDistinct(current, items) ==
  LET all == current \o items IN SubSeq(all, 1, IF Len(all) < Limit THEN Len(all) ELSE Limit)

\* fetchRecentConversationTargets: the open conversation first, then the
\* pages of the list, whose items may come twice when the list moves.
Targets(current, items) ==
  LET all == current \o items
      first == SelectSeq([i \in DOMAIN all |-> i], LAMBDA i : \A j \in 1..(i - 1) : all[j] # all[i])
      distinct == [i \in DOMAIN first |-> all[first[i]]]
  IN SubSeq(distinct, 1, IF Len(distinct) < Limit THEN Len(distinct) ELSE Limit)

Fails(state) ==
  /\ Write(Main, [Latest(state) EXCEPT !.status = "error"])
  /\ main' = [main EXCEPT !.pc = "ending", !.state = [Latest(state) EXCEPT !.status = "error"]]
  /\ UNCHANGED <<stored, ui, worker, cancel, saves>>

\* The list is read and stored with the counters at zero.
ListTargets(current, items, fails) ==
  LET targets == Targets(current, items)
      state == [Latest(main.state) EXCEPT !.total = Len(targets), !.done = 0, !.ok = 0, !.failed = 0]
  IN
  /\ main.pc = "list"
  /\ IF fails \/ targets = <<>> THEN Fails(main.state)
     ELSE /\ Write(Main, state)
          /\ main' = [main EXCEPT !.pc = "listed", !.state = state, !.targets = targets, !.next = 1]
          /\ UNCHANGED <<stored, ui, worker, cancel, saves>>

\* A cancelled record ends the export; else the workers start.
StartWorkers ==
  /\ main.pc = "listed" /\ Returned(Main)
  /\ IF main.state.status = "cancelled"
     THEN Ends("cancelled") /\ UNCHANGED worker
     ELSE /\ main' = [main EXCEPT !.pc = "working", !.state = Latest(main.state)]
          /\ worker' = [w \in Workers |-> IF w <= Len(main.targets)
                                          THEN [NoWorker EXCEPT !.pc = "next"] ELSE NoWorker]
          /\ ui' = Hydrated(main.state)
          /\ UNCHANGED stored
  /\ UNCHANGED <<cancel, calls, saves>>

-----------------------------------------------------------------------------
(* Workers                                                                 *)

\* mapWithConcurrency: the next target, while the export is not cancelled.
TakeTarget(w) ==
  /\ worker[w].pc = "next"
  /\ IF exportIsCancelled \/ main.next > Len(main.targets)
     THEN worker' = [worker EXCEPT ![w].pc = "off"] /\ UNCHANGED main
     ELSE /\ worker' = [worker EXCEPT ![w] = [pc |-> "read", target |-> main.next, ok |-> FALSE]]
          /\ main' = [main EXCEPT !.next = @ + 1]
  /\ UNCHANGED <<stored, ui, cancel, calls, saves>>

\* fetchConversationCapture, then the look at the record before the save.
FetchCapture(w, readable) ==
  /\ worker[w].pc = "read"
  /\ worker' = [worker EXCEPT ![w].pc = IF readable /\ ~exportIsCancelled THEN "save" ELSE "event"]
  /\ UNCHANGED <<stored, ui, main, cancel, calls, saves>>

\* saveSource of the service worker: the source is written, or the save fails.
saveSource(c, saved) == saves' = [saves EXCEPT ![c] = @ + IF saved THEN 1 ELSE 0]

\* saveCaptureResult: the source is saved and its generation queued, or not.
SaveCapture(w, saved, queued) ==
  /\ worker[w].pc = "save"
  /\ saveSource(main.targets[worker[w].target], saved)
  /\ worker' = [worker EXCEPT ![w].pc = "event", ![w].ok = saved /\ queued]
  /\ UNCHANGED <<stored, ui, main, cancel, calls>>

\* recordEvent, one at a time: enqueueStateUpdate.
RecordEvent(w) ==
  /\ worker[w].pc = "event"
  /\ \A v \in Workers : worker[v].pc # "record"
  /\ IF exportIsCancelled
     THEN /\ worker' = [worker EXCEPT ![w].pc = "next"]
          /\ main' = [main EXCEPT !.state = stored]
          /\ UNCHANGED calls
     ELSE LET state == advanceState(Latest(main.state), worker[w].ok) IN
          /\ main' = [main EXCEPT !.state = state]
          /\ Write(w, state)
          /\ worker' = [worker EXCEPT ![w].pc = "record"]
  /\ UNCHANGED <<stored, ui, cancel, saves>>

EventRecorded(w) ==
  /\ worker[w].pc = "record" /\ Returned(w)
  /\ worker' = [worker EXCEPT ![w].pc = "next"]
  /\ IF exportIsCancelled
     THEN main' = [main EXCEPT !.state = stored] /\ UNCHANGED ui
     ELSE ui' = Hydrated(main.state) /\ UNCHANGED main
  /\ UNCHANGED <<stored, cancel, calls, saves>>

\* All workers are done: the outcome is stored, shown and removed.
Finish ==
  LET final == [main.state EXCEPT !.status = IF main.state.failed > 0 THEN "partial" ELSE "done"] IN
  /\ main.pc = "working" /\ \A w \in Workers : worker[w].pc = "off"
  /\ IF exportIsCancelled
     THEN Ends("cancelled") /\ UNCHANGED calls
     ELSE /\ Write(Main, final)
          /\ main' = [main EXCEPT !.pc = "ending", !.state = final]
          /\ UNCHANGED <<stored, ui>>
  /\ UNCHANGED <<worker, cancel, saves>>

Clear ==
  /\ main.pc = "ending" /\ Returned(Main)
  /\ Ends(main.state.status)
  /\ UNCHANGED <<worker, cancel, calls, saves>>

-----------------------------------------------------------------------------
(* Cancel and reload                                                       *)

\* cancelCurrentTabExport: the record is read, then written as cancelled.
CancelReads ==
  /\ cancel = NoState /\ Returned(Canceller) /\ stored # NoState
  /\ exportLocked
  /\ cancel' = [stored EXCEPT !.status = "cancelled"]
  /\ Write(Canceller, [stored EXCEPT !.status = "cancelled"])
  /\ UNCHANGED <<stored, ui, main, worker, saves>>

CancelShown ==
  /\ cancel # NoState /\ Returned(Canceller)
  /\ ui' = Hydrated(cancel)
  /\ cancel' = NoState
  /\ UNCHANGED <<stored, main, worker, calls, saves>>

\* The page reloads: its loops are gone, the calls in the service worker go on.
Reload ==
  /\ ui.reloads < MaxReloads
  /\ ui' = [ui EXCEPT !.shown = "idle", !.starting = FALSE, !.reloads = @ + 1]
  /\ main' = [main EXCEPT !.pc = "resume"]
  /\ worker' = [w \in Workers |-> NoWorker]
  /\ cancel' = NoState
  /\ UNCHANGED <<stored, calls, saves>>

\* resumeCurrentTabExport: an interrupted export is shown as cancelled.
Resume ==
  /\ main.pc = "resume" /\ Returned(Main)
  /\ IF stored.status = "exporting"
     THEN /\ Write(Main, [stored EXCEPT !.status = "cancelled"])
          /\ main' = [main EXCEPT !.pc = "ending", !.state = [stored EXCEPT !.status = "cancelled"]]
          /\ UNCHANGED <<stored, ui>>
     ELSE Ends(IF stored = NoState THEN ui.shown ELSE stored.status) /\ UNCHANGED calls
  /\ UNCHANGED <<worker, cancel, saves>>

-----------------------------------------------------------------------------

Init ==
  /\ stored = NoState
  /\ ui = [shown |-> "idle", starting |-> FALSE, exports |-> 0, reloads |-> 0]
  /\ main = [pc |-> "idle", state |-> NoState, targets |-> <<>>, next |-> 1]
  /\ worker = [w \in Workers |-> NoWorker]
  /\ cancel = NoState
  /\ calls = [c \in Callers |-> NoCall]
  /\ saves = [c \in Conversations |-> 0]

Next ==
  \/ \E c \in Callers : SessionGet(c) \/ SessionSet(c)
  \/ RecordExpires
  \/ \E b \in BOOLEAN : startExport(b)
  \/ ReadBack
  \/ \E current \in SeqOf(Conversations, 1), items \in SeqOf(Conversations, 2), b \in BOOLEAN :
       ListTargets(current, items, b)
  \/ StartWorkers
  \/ \E w \in Workers :
       \/ TakeTarget(w)
       \/ RecordEvent(w)
       \/ EventRecorded(w)
       \/ \E b \in BOOLEAN : FetchCapture(w, b) \/ \E q \in BOOLEAN : SaveCapture(w, b, q)
  \/ Finish
  \/ Clear
  \/ CancelReads
  \/ CancelShown
  \/ Reload
  \/ Resume

Spec == Init /\ [][Next]_vars

-----------------------------------------------------------------------------
(* Properties                                                              *)

Counted(s) == s.done = s.ok + s.failed /\ s.done <= s.total

\* However the two workers, a cancellation, a reload and the expiry of the
\* record interleave, the stored and the shown counters add up and stay within
\* the total, no conversation is saved twice in one export, and none is counted
\* as exported that was not saved.
ExportIsSound ==
  /\ Counted(stored)
  /\ Counted(main.state)
  /\ \A c \in Conversations : saves[c] <= 1
  /\ main.pc \in {"working", "ending"} =>
       main.state.ok <= Cardinality({c \in Conversations : saves[c] = 1})

\* A cancelled record stays cancelled until it is removed.  The code does not
\* keep this: writeSessionValue looks at the record before it sets it.
CancelledStays ==
  [][stored.status = "cancelled" => stored'.status \in {"cancelled", "none"}]_vars
=============================================================================
