------------------------ MODULE AssistantConversation ------------------------
(***************************************************************************)
(* The assistant worker: one user's conversation, kept in D1 and changed   *)
(* by any number of AssistantUser objects.                                 *)
(*                                                                         *)
(* A control connection, the sweep and an end request each load the row    *)
(* into memory, change the copy and save it back under the revision they   *)
(* loaded, fenced by a lease.  Tasks of one object interleave at awaits:   *)
(* a save captures the conversation (SaveStart) before it encodes the      *)
(* messages and runs its batch (SaveCommit), and others queue behind it.   *)
(*                                                                         *)
(* Revisions and generations are only compared for equality, so an object  *)
(* keeps whether its revision is still the row's ("fresh") and a turn is   *)
(* identified by its question.  The day's counter is one day's.            *)
(***************************************************************************)
EXTENDS Integers, Sequences, FiniteSets

CONSTANTS
  Conversations,   \* ids handed out by crypto.randomUUID
  Objects,         \* AssistantUser objects alive at a time
  Questions,       \* request ids of questions
  Cancels,         \* request ids of cancel commands
  QuestionLimit,   \* limits().questions
  RoundLimit,      \* provider rounds of a turn (13 in the code)
  MaxStarts,       \* bound: sign-ins begun and objects made in a behaviour
  MaxExpired,      \* bound: leases that run out in a behaviour
  None

ASSUME AssistantAssumption ==
  /\ None \notin Conversations \union Questions
  /\ QuestionLimit \in Nat /\ RoundLimit \in Nat

VARIABLES
  auth,       \* assistant_auth: phase of the user's sign-in
  row,        \* assistant_users with its assistant_requests
  stops,      \* assistant_stops: conversations somebody asked to end
  command,    \* assistant_commands: cancel commands recorded for a conversation
  lease,      \* assistant_leases
  object,     \* AssistantUser objects
  history     \* ghost: what happened, for the properties

d1Vars == <<auth, row, stops, command, lease>>
vars   == <<d1Vars, object, history>>

Turns == {"none", "asked", "answered", "cancelled"}
NoTurn == [question |-> None, stage |-> "new", round |-> 0]
NoConversation == [id |-> None, legacy |-> FALSE, pending |-> NoTurn,
                   messages |-> [q \in Questions |-> "none"]]
NewConversation(c, old) == [NoConversation EXCEPT !.id = c, !.legacy = old]
FreeLease == [owner |-> None, live |-> FALSE]
Scopes == {"question", "connection", "maintenance"}

NoObject == [role |-> "off", conversation |-> NoConversation, over |-> FALSE, questions |-> 0,
             fresh |-> FALSE, saves |-> <<>>, payload |-> None, pump |-> "idle",
             turn |-> None, next |-> "idle"]

Roles == {"off", "opening", "control", "closed", "sweep", "ending"}
PumpStates == {"idle", "running", "submit", "waiting", "saving", "done"}

\* The key of a lease: the conversation's id, or the one principal.
LeaseKey(i, scope) == <<scope, IF scope = "maintenance" THEN None ELSE object[i].conversation.id>>
LeaseOf(i, scope) == lease[LeaseKey(i, scope)]
SetLease(i, scope, l) == [lease EXCEPT ![LeaseKey(i, scope)] = l]

\* Leases.valid
Valid(i, scope) == LeaseOf(i, scope) = [owner |-> i, live |-> TRUE]

\* Leases.claim: only an expired lease changes hands.
Claim(i, scope) ==
  /\ ~LeaseOf(i, scope).live
  /\ lease' = SetLease(i, scope, [owner |-> i, live |-> TRUE])

Released(i, scope) ==
  IF LeaseOf(i, scope).owner = i THEN SetLease(i, scope, FreeLease) ELSE lease

Pending(i) == object[i].conversation.pending
Running(i) == object[i].role # "off"
Pumping(i) == object[i].pump # "idle"

\* What AssistantUser.initialize loads.
Loaded(role) ==
  [NoObject EXCEPT !.role = role, !.conversation = row.conversation,
                   !.questions = row.questions, !.fresh = TRUE]

\* A request, a connection or the sweep makes an object.
MayStart(i) == object[i] = NoObject /\ history.starts < MaxStarts
Started == history' = [history EXCEPT !.starts = @ + 1]

Edit(i, o) == object' = [object EXCEPT ![i] = o]

\* save(): queued behind the saves this object has under way.
Saving(o, who) == [o EXCEPT !.saves = Append(@, who)]

\* One save of a kind at a time: an object has one pump, its client waits for
\* the answer to a command, and drive does not run twice.
MayQueue(i, who) == who \notin {object[i].saves[n] : n \in DOMAIN object[i].saves}

-----------------------------------------------------------------------------
(* Signing in                                                              *)

\* AssistantAuth.beginNative
BeginNative ==
  /\ auth = "absent" /\ history.starts < MaxStarts
  /\ auth' = "pending"
  /\ Started
  /\ UNCHANGED <<row, stops, command, lease, object>>

\* claimAuth of completeNative: before the authenticated query.
ClaimAuth ==
  /\ auth = "pending"
  /\ auth' = "claiming"
  /\ UNCHANGED <<row, stops, command, lease, object, history>>

\* The rest of it: the phase is read again and the UPDATE finds the row or not.
\* A refused delegation leaves the row claimed, to be started over.
CompleteNative ==
  /\ auth = "claiming"
  /\ auth' = "active"
  /\ UNCHANGED <<row, stops, command, lease, object, history>>

\* Expiry, revoke of /logout, and the sweep's DELETE, which spares the session
\* of a live conversation.
AuthGone ==
  /\ auth # "absent"
  /\ row.conversation.id = None
  /\ auth' = "absent"
  /\ UNCHANGED <<row, stops, command, lease, object, history>>

-----------------------------------------------------------------------------
(* Saving                                                                  *)

\* The lease a save is fenced by, if any: the question's, else the
\* connection's, else the sweep's.
Fenced(i) ==
  CASE Pumping(i)                  -> Valid(i, "question")
    [] object[i].role = "control"  -> Valid(i, "connection")
    [] object[i].role = "sweep"    -> Valid(i, "maintenance")
    [] OTHER                       -> TRUE

\* The payload is encoded: everything of the conversation but its messages.
SaveStart(i) ==
  /\ object[i].saves # <<>> /\ object[i].payload = None
  /\ Edit(i, [object[i] EXCEPT !.payload = IF object[i].over THEN NoConversation
                                           ELSE object[i].conversation])
  /\ UNCHANGED <<d1Vars, history>>

MayCommit_AnyRevision(i) == Fenced(i)

\* The upsert's WHERE: nobody else has saved, and the fence still stands.
MayCommit(i) == object[i].fresh /\ Fenced(i)

\* What the batch leaves in D1.  The messages are the ones of this moment.
Written(i) ==
  [conversation |-> IF object[i].payload.id = None THEN NoConversation
                    ELSE [object[i].payload EXCEPT !.messages = object[i].conversation.messages],
   questions |-> object[i].questions]

\* Who waited for the save goes on; a request has its answer.  A save that fails reaches the command's
\* sender as an error; it ends the pump and the tick that made it.
Resume(i, o, ok) ==
  LET who  == Head(o.saves)
      rest == [o EXCEPT !.saves = Tail(@), !.payload = None]
  IN CASE who = "pump"    -> [rest EXCEPT !.pump = IF ok THEN o.next ELSE "done",
                                          !.next = "idle"]
       [] who = "request" -> NoObject
       [] OTHER           -> rest

Ended == row.conversation.id # None

\* The row's revision is no longer the one the object loaded.
Stale(o) == [o EXCEPT !.fresh = FALSE]

SaveCommit(i) ==
  LET ok == MayCommit(i)
      ends == ok /\ Ended /\ object[i].payload.id = None
      w == Written(i)
  IN
  /\ object[i].payload # None
  /\ row' = IF ok THEN w ELSE row
  /\ auth' = IF ends THEN "absent" ELSE auth
  /\ command' = IF ends THEN {} ELSE command
  /\ object' = [j \in Objects |->
                  IF j = i THEN Resume(i, object[i], ok)
                  ELSE IF ok THEN Stale(object[j]) ELSE object[j]]
  /\ history' =
       [history EXCEPT
          !.ended = IF ends THEN @ \union {row.conversation.id} ELSE @,
          !.asked = IF ok /\ w.conversation.id # None
                    THEN @ \union {<<w.conversation.id, q>> :
                                     q \in {r \in Questions : w.conversation.messages[r] # "none"}}
                    ELSE @,
          !.settled = IF ok /\ Head(object[i].saves) = "cancel" /\ w.conversation.id # None
                      THEN @ \union {<<w.conversation.id, q>> :
                                       q \in {r \in Questions :
                                                w.conversation.messages[r] = "cancelled"}}
                      ELSE @]
  /\ UNCHANGED <<stops, lease>>

-----------------------------------------------------------------------------
(* Conversations                                                           *)

\* POST /conversations: nothing active when it loaded, nor after the manifest;
\* the save finds out whether somebody else was faster.
CreateConversation(i, c) ==
  /\ MayStart(i)
  /\ auth = "active"
  /\ row.conversation.id = None
  /\ c \notin history.used
  /\ Edit(i, Saving([Loaded("ending") EXCEPT !.conversation = NewConversation(c, FALSE)], "request"))
  /\ history' = [history EXCEPT !.used = @ \union {c}, !.starts = @ + 1]
  /\ UNCHANGED <<d1Vars>>

\* /end and /logout, first half: the request to end is recorded, and every copy
\* in memory goes stale.
RequestEnd(i) ==
  /\ MayStart(i)
  /\ row.conversation.id # None
  /\ stops' = stops \union {row.conversation.id}
  /\ object' = [j \in Objects |-> IF j = i THEN [NoObject EXCEPT !.role = "ending"]
                                  ELSE Stale(object[j])]
  /\ Started
  /\ UNCHANGED <<auth, row, command, lease>>

\* endOwned on an object: the conversation is gone from memory, and saved so.
EndOwned(o, who) == Saving([o EXCEPT !.over = TRUE], who)

\* Second half: initialize loads and endOwned saves.
EndLoad(i) ==
  /\ object[i] = [NoObject EXCEPT !.role = "ending"]
  /\ IF row.conversation.id = None THEN Edit(i, NoObject)
     ELSE Edit(i, EndOwned(Loaded("ending"), "request"))
  /\ UNCHANGED <<d1Vars, history>>

\* initialize retires what it must not run: a conversation of a withdrawn kind,
\* or one with a request to end.
MustRetire == row.conversation.legacy \/ row.conversation.id \in stops

-----------------------------------------------------------------------------
(* The control connection                                                  *)

\* /events: the object loads; a conversation to retire is ended at once.
OpenControl(i) ==
  /\ MayStart(i)
  /\ auth = "active" /\ row.conversation.id # None
  /\ Edit(i, IF MustRetire THEN EndOwned(Loaded("ending"), "request") ELSE Loaded("opening"))
  /\ Started
  /\ UNCHANGED <<d1Vars>>

\* openControl
ClaimConnection(i) ==
  /\ object[i].role = "opening"
  /\ IF LeaseOf(i, "connection").live
     THEN Edit(i, NoObject) /\ UNCHANGED lease
     ELSE Claim(i, "connection") /\ Edit(i, [object[i] EXCEPT !.role = "control"])
  /\ UNCHANGED <<auth, row, stops, command, history>>

Control(i) == object[i].role = "control" /\ ~object[i].over

\* The closing of the socket: by the client, by a lost lease, by an error.  What
\* the object has under way goes on, without timers.
CloseControl(i) ==
  /\ object[i].role = "control"
  /\ lease' = Released(i, "connection")
  /\ Edit(i, [object[i] EXCEPT !.role = "closed"])
  /\ UNCHANGED <<auth, row, stops, command, history>>

\* Nothing refers to the object any more.
Forgotten(i) ==
  /\ object[i].role = "closed" /\ object[i].saves = <<>> /\ ~Pumping(i)
  /\ Edit(i, NoObject)
  /\ UNCHANGED <<d1Vars, history>>

Asked(c, q) == [c EXCEPT !.pending = [NoTurn EXCEPT !.question = q], !.messages[q] = "asked"]

\* controlMessage "questions": enqueue.  A question that is there already is
\* answered without effect.
Ask(i, q) ==
  LET o == object[i] IN
  /\ Control(i) /\ Valid(i, "connection")
  /\ o.conversation.messages[q] = "none"
  /\ Pending(i) = NoTurn /\ MayQueue(i, "task")
  /\ o.questions < QuestionLimit
  /\ Edit(i, Saving([o EXCEPT !.questions = @ + 1, !.conversation = Asked(@, q)], "task"))
  /\ UNCHANGED <<d1Vars, history>>

\* The pending turn is over, and its message says how.
Settled(c, q, how) == [c EXCEPT !.pending = NoTurn, !.messages[q] = how]

\* cancel(c) on an object.
Cancelled(o) ==
  IF o.conversation.pending = NoTurn THEN o
  ELSE [o EXCEPT !.conversation = Settled(@, o.conversation.pending.question, "cancelled")]

\* The row of a cancel: assistant_commands is keyed by conversation and request.
CommandKey(i, k) == <<object[i].conversation.id, k>>

\* controlMessage "cancel": recorded, its generation compared, carried out; a
\* second delivery finds it recorded and is refused.
Cancel(i, k) ==
  /\ Control(i) /\ Valid(i, "connection") /\ MayQueue(i, "cancel")
  /\ CommandKey(i, k) \notin command
  /\ command' = command \union {CommandKey(i, k)}
  /\ Edit(i, Saving(Cancelled(object[i]), "cancel"))
  /\ history' = IF Pending(i) # NoTurn /\ row.conversation.id = object[i].conversation.id
                THEN [history EXCEPT !.cancelled[CommandKey(i, k)] = @ + 1] ELSE history
  /\ UNCHANGED <<auth, row, stops, lease>>

\* drive: another object saved, so the row is loaded again.
DriveReload(i) ==
  /\ object[i].role = "control" /\ ~object[i].fresh
  /\ object[i].saves = <<>>
  /\ Edit(i, [Loaded("control") EXCEPT !.pump = object[i].pump, !.turn = None,
                                        !.next = object[i].next,
                                        !.over = row.conversation.id = None])
  /\ UNCHANGED <<d1Vars, history>>

-----------------------------------------------------------------------------
(* Ticks, of a connection or of the sweep                                  *)

Ticks(i) ==
  /\ object[i].role \in {"control", "sweep"}
  /\ ~object[i].over
  /\ MayQueue(i, "task")

\* The turn is past its deadline, which any tick may find.
TurnTimeout(i) ==
  /\ Ticks(i) /\ Pending(i) # NoTurn
  /\ Edit(i, Saving(Cancelled(object[i]), "task"))
  /\ UNCHANGED <<d1Vars, history>>

\* Idle, disconnected for too long, or no longer authorized.
TickEnds(i) ==
  /\ Ticks(i)
  /\ Edit(i, EndOwned(object[i], "task"))
  /\ UNCHANGED <<d1Vars, history>>

\* The sweep takes a user that is due and that no connection looks after, under
\* the maintenance lease.
SweepStart(i) ==
  /\ MayStart(i)
  /\ row.conversation.id # None
  /\ MustRetire \/ ~lease[<<"connection", row.conversation.id>>].live
  /\ Claim(i, "maintenance")
  /\ Edit(i, IF MustRetire THEN EndOwned(Loaded("sweep"), "task") ELSE Loaded("sweep"))
  /\ Started
  /\ UNCHANGED <<auth, row, stops, command>>

\* It is done.
SweepDone(i) ==
  /\ object[i].role = "sweep" /\ object[i].saves = <<>> /\ ~Pumping(i)
  /\ lease' = Released(i, "maintenance")
  /\ Edit(i, NoObject)
  /\ UNCHANGED <<auth, row, stops, command, history>>

-----------------------------------------------------------------------------
(* The pump: one turn                                                      *)

\* valid(c, p), its deadline apart: see PumpFails.
TurnValid(i) ==
  /\ Valid(i, "question") /\ ~object[i].over
  /\ object[i].turn # None /\ Pending(i).question = object[i].turn

\* pump: one at a time in an object, and one object by the lease.
PumpStart(i) ==
  /\ Ticks(i) /\ ~Pumping(i) /\ Pending(i) # NoTurn
  /\ Claim(i, "question")
  /\ Edit(i, [object[i] EXCEPT !.pump = "running", !.turn = Pending(i).question])
  /\ UNCHANGED <<auth, row, stops, command, history>>

\* A pump step that changes the conversation, saves and goes on at pc.
PumpSaves(i, o, pc) == Edit(i, Saving([o EXCEPT !.pump = "saving", !.next = pc], "pump"))
PumpGoes(i, pc) == Edit(i, [object[i] EXCEPT !.pump = pc])

\* A checkpoint of the turn.
AtStage(o, stage, round) ==
  LET turn == [o.conversation.pending EXCEPT !.stage = stage, !.round = round]
  IN  [o EXCEPT !.conversation = [o.conversation EXCEPT !.pending = turn]]

\* What publishes an answer, found or asked back.
Answered(o) == [o EXCEPT !.conversation = Settled(@, o.turn, "answered")]

\* authorize and routeTurn: a route, or a question back to the user.
RouteTurn(i) ==
  LET o == object[i] IN
  /\ o.pump = "running" /\ TurnValid(i) /\ Pending(i).stage = "new"
  /\ \/ PumpSaves(i, AtStage(o, "routed", Pending(i).round), "running")
     \/ PumpSaves(i, Answered(o), "done")
  /\ UNCHANGED <<d1Vars, history>>

MaySubmit_Again(t) == t.stage # "new"

\* runDeepSeekTurn: a submission of which the answer was never saved is not
\* made again.
MaySubmit(t) == t.stage \in {"routed", "received"}

\* One round: the checkpoint before the submission, or the turn is given up.
RunTurn(i) ==
  LET o == object[i] IN
  /\ o.pump = "running" /\ TurnValid(i) /\ Pending(i).stage # "new"
  /\ IF MaySubmit(Pending(i))
     THEN /\ Pending(i).round < RoundLimit
          /\ PumpSaves(i, AtStage(o, "requesting", Pending(i).round), "submit")
     ELSE PumpSaves(i, Cancelled(o), "done")
  /\ UNCHANGED <<d1Vars, history>>

Submit(i) ==
  LET key == <<object[i].conversation.id, object[i].turn, Pending(i).round>> IN
  /\ object[i].pump = "submit" /\ TurnValid(i)
  /\ PumpGoes(i, "waiting")
  /\ history' = [history EXCEPT !.sent = @ \union {key},
                                !.resent = IF key \in history.sent THEN @ \union {key} ELSE @]
  /\ UNCHANGED <<d1Vars>>

Receive(i) ==
  /\ object[i].pump = "waiting" /\ TurnValid(i)
  /\ PumpSaves(i, AtStage(object[i], "received", Pending(i).round + 1), "running")
  /\ UNCHANGED <<d1Vars, history>>

\* publishTurn: the last answer was a final one.
PublishTurn(i) ==
  /\ object[i].pump = "running" /\ TurnValid(i) /\ Pending(i).stage = "received"
  /\ PumpSaves(i, Answered(object[i]), "done")
  /\ UNCHANGED <<d1Vars, history>>

\* The turn is no longer this pump's, or a step failed: the catch cancels it,
\* retires the user, or leaves it for a retry.
PumpFails(i) ==
  LET o == object[i] IN
  /\ o.pump \in {"running", "submit", "waiting"}
  /\ \/ PumpGoes(i, "done")
     \/ TurnValid(i) /\ PumpSaves(i, Cancelled(o), "done")
  /\ UNCHANGED <<d1Vars, history>>

PumpDone(i) ==
  /\ object[i].pump = "done"
  /\ lease' = Released(i, "question")
  /\ Edit(i, [object[i] EXCEPT !.pump = "idle", !.turn = None])
  /\ UNCHANGED <<auth, row, stops, command, history>>

-----------------------------------------------------------------------------
(* Time and crashes                                                        *)

\* LEASE_MS without a renewal.
LeaseExpires(key) ==
  /\ lease[key].live /\ history.expired < MaxExpired
  /\ lease' = [lease EXCEPT ![key] = FreeLease]
  /\ history' = [history EXCEPT !.expired = @ + 1]
  /\ UNCHANGED <<auth, row, stops, command, object>>

\* The isolate is gone.  Its leases stay until they expire.
Crash(i) ==
  /\ Running(i)
  /\ Edit(i, NoObject)
  /\ lease' = [key \in DOMAIN lease |->
                 IF lease[key].owner = i THEN [lease[key] EXCEPT !.owner = None] ELSE lease[key]]
  /\ UNCHANGED <<auth, row, stops, command, history>>

-----------------------------------------------------------------------------

Init ==
  /\ auth = "absent"
  /\ row \in [conversation : {NoConversation} \union
                             {NewConversation(c, TRUE) : c \in Conversations},
              questions : {0}]
  /\ stops = {}
  /\ command = {}
  /\ lease = [key \in Scopes \X (Conversations \union {None}) |-> FreeLease]
  /\ object = [i \in Objects |-> NoObject]
  /\ history = [starts |-> 0, expired |-> 0, used |-> {row.conversation.id} \ {None}, ended |-> {}, asked |-> {},
                settled |-> {}, sent |-> {}, resent |-> {},
                cancelled |-> [key \in Conversations \X Cancels |-> 0]]

SignInStep == BeginNative \/ ClaimAuth \/ CompleteNative \/ AuthGone

RequestStep(i) ==
  \/ \E c \in Conversations : CreateConversation(i, c)
  \/ RequestEnd(i) \/ EndLoad(i)

ControlStep(i) ==
  \/ OpenControl(i) \/ ClaimConnection(i) \/ CloseControl(i) \/ Forgotten(i) \/ DriveReload(i)
  \/ \E q \in Questions : Ask(i, q)
  \/ \E k \in Cancels : Cancel(i, k)

TickStep(i) == TurnTimeout(i) \/ TickEnds(i) \/ SweepStart(i) \/ SweepDone(i)

PumpStep(i) ==
  \/ PumpStart(i) \/ RouteTurn(i) \/ RunTurn(i) \/ Submit(i) \/ Receive(i) \/ PublishTurn(i)
  \/ PumpFails(i) \/ PumpDone(i)

SaveStep(i) == SaveStart(i) \/ SaveCommit(i)

Next ==
  \/ SignInStep
  \/ \E i \in Objects : RequestStep(i) \/ ControlStep(i) \/ TickStep(i) \/ PumpStep(i)
                        \/ SaveStep(i) \/ Crash(i)
  \/ \E key \in DOMAIN lease : LeaseExpires(key)

Spec == Init /\ [][Next]_vars

-----------------------------------------------------------------------------
(* Properties                                                              *)

\* D1 rows and AssistantUser objects keep their types.
TypeOK ==
  /\ auth \in {"absent", "pending", "claiming", "active"}
  /\ row.conversation.id \in Conversations \union {None}
  /\ row.conversation.messages \in [Questions -> Turns]
  /\ row.questions \in 0..QuestionLimit
  /\ stops \subseteq Conversations
  /\ \A i \in Objects : object[i].role \in Roles /\ object[i].pump \in PumpStates

\* An ended conversation does not come back with the save of an object that had
\* it in memory.
EndedForGood == row.conversation.id \notin history.ended

\* A question of a live conversation whose cancel was saved is never answered.
CancelIsFinal ==
  \A q \in Questions :
    <<row.conversation.id, q>> \in history.settled => row.conversation.messages[q] = "cancelled"

\* No prompt is submitted to the provider twice, whichever objects took up the
\* turn and wherever they stopped.
SubmittedOnce == history.resent = {}

\* A cancel command that is delivered again while the conversation lives does not
\* cancel again.
CancelledOnce == \A key \in Conversations \X Cancels : history.cancelled[key] <= 1

\* No question that is kept escapes the day's limit.  (One whose save was refused
\* may be counted.)
CountedQuestions == Cardinality(history.asked) <= row.questions

\* What a user ended or cancelled stays so, and is counted as it happened.
SettledForGood == EndedForGood /\ CancelIsFinal /\ CancelledOnce /\ CountedQuestions
=============================================================================
