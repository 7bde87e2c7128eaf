--------------------- MODULE AssistantConversationProofs ---------------------
(***************************************************************************)
(* The properties of the conversation's row hold for any number of         *)
(* AssistantUser objects, conversations, questions and rounds, however     *)
(* leases run out and objects crash.                                       *)
(*                                                                         *)
(* What is said of an object depends on whether its revision is still the  *)
(* row's: a stale object may believe anything, since its saves are refused *)
(* until it loads again. A fresh one is ahead of the row, and every action *)
(* but a save is judged by the object it changes alone.                    *)
(***************************************************************************)
EXTENDS AssistantConversation, TLAPS, FiniteSetTheorems

Stages == {"new", "routed", "requesting", "received"}
Savers == {"pump", "request", "task", "cancel"}

Turn == [question : Questions \union {None}, stage : Stages, round : Nat]
Conversation == [id : Conversations \union {None}, legacy : BOOLEAN, pending : Turn,
                 messages : [Questions -> Turns]]
Instance == [role : Roles, conversation : Conversation, over : BOOLEAN, questions : Nat,
             fresh : BOOLEAN, saves : Seq(Savers), payload : Conversation \union {None},
             pump : PumpStates, turn : Questions \union {None}, next : PumpStates]
History == [starts : Nat, expired : Nat, used : SUBSET Conversations,
            ended : SUBSET Conversations,
            asked : SUBSET (Conversations \X Questions),
            settled : SUBSET (Conversations \X Questions),
            sent : SUBSET (Conversations \X Questions \X Nat),
            resent : SUBSET (Conversations \X Questions \X Nat),
            cancelled : [Conversations \X Cancels -> Nat]]

Types ==
  /\ row \in [conversation : Conversation, questions : Nat]
  /\ object \in [Objects -> Instance]
  /\ history \in History

-----------------------------------------------------------------------------
(* A submission is granted by the save of its checkpoint. The grant is held *)
(* by the pump that made the save until it submits or loses the turn.      *)

Key(o) == <<o.conversation.id, o.turn, o.conversation.pending.round>>

\* The pump still runs the turn that is pending.
OnTurn(o) == ~o.over /\ o.turn # None /\ o.conversation.pending.question = o.turn

Granted(o) == o.pump = "submit" /\ OnTurn(o)

Spent(key) == key \in history.sent \/ \E j \in Objects : Granted(object[j]) /\ Key(object[j]) = key

\* No round that was granted is still before the turn.
Beyond(c, t) ==
  t.question # None =>
    \A r \in Nat :
      Spent(<<c, t.question, r>>) => r < t.round \/ (r = t.round /\ t.stage = "requesting")

-----------------------------------------------------------------------------
(* What holds of an object                                                 *)

Queues(o, who) == \E n \in 1..Len(o.saves) : o.saves[n] = who
HasPayload(o) == o.payload # None
KeepsPayload(o) == o.payload # None /\ o.payload.id # None

\* A question is in the conversation when its turn is pending.
TurnIsKnown(c) ==
  /\ c.pending = NoTurn \/ c.pending.question \in Questions
  /\ c.pending.question \in Questions => c.messages[c.pending.question] # "none"
  /\ c.id = None => c.pending = NoTurn

QueueInv(o) ==
  /\ \A m, n \in 1..Len(o.saves) : o.saves[m] = o.saves[n] => m = n
  /\ Queues(o, "pump") => o.pump = "saving"
  /\ HasPayload(o) => o.saves # <<>>

MemoryInv(o) ==
  /\ TurnIsKnown(o.conversation)
  /\ o.role \in {"opening", "control"} /\ ~o.over => o.conversation.id # None
  /\ o.turn # None => o.conversation.messages[o.turn] # "none"
  /\ o.pump = "saving" /\ o.next = "submit" /\ OnTurn(o)
       => o.conversation.pending.stage = "requesting"

\* The payload was taken from the conversation that is still in memory; a
\* pump's payload is the turn it waits to have saved.
PayloadInv(o) ==
  /\ HasPayload(o) /\ o.payload.id = None => o.over \/ o.conversation.id = None
  /\ KeepsPayload(o) =>
       /\ o.payload.id = o.conversation.id
       /\ o.payload.pending = NoTurn \/ o.payload.pending.question \in Questions
       /\ o.payload.pending.question \in Questions
            => o.conversation.messages[o.payload.pending.question] # "none"
       /\ Head(o.saves) = "pump" /\ OnTurn(o) => o.payload.pending = o.conversation.pending

\* Until a cancel is saved, a turn that is pending was asked after it: its own
\* save is queued behind, and no pump has taken it up.
CancelInv(o) ==
  /\ \A m \in 1..Len(o.saves) :
       o.saves[m] = "cancel" /\ o.conversation.pending.question # None
         => /\ \E n \in 1..Len(o.saves) : m < n /\ o.saves[n] = "task"
            /\ o.conversation.messages[o.conversation.pending.question] = "asked"
            /\ o.turn # o.conversation.pending.question
  /\ KeepsPayload(o) /\ Head(o.saves) = "cancel" /\ o.payload.pending.question # None
       => o.payload.pending.question = o.conversation.pending.question

\* The questions that count once this object has saved.
AskedWith(o) ==
  history.asked \union
    {<<o.conversation.id, q>> : q \in {r \in Questions : o.conversation.messages[r] # "none"}}

FreshRow(o) ==
  /\ o.conversation.id # None => row.conversation.id \in {o.conversation.id, None}
  /\ o.conversation.id # None /\ (~o.over \/ KeepsPayload(o))
       => o.conversation.id \notin history.ended

FreshSettled(o) ==
  \A q \in Questions : <<o.conversation.id, q>> \in history.settled =>
    /\ o.conversation.messages[q] = "cancelled"
    /\ o.conversation.pending.question # q
    /\ KeepsPayload(o) => o.payload.pending.question # q

FreshCount(o) == IsFiniteSet(AskedWith(o)) /\ Cardinality(AskedWith(o)) <= o.questions

FreshSent(o) ==
  /\ Beyond(o.conversation.id, o.conversation.pending)
  /\ KeepsPayload(o) => Beyond(o.conversation.id, o.payload.pending)
  /\ \A q \in Questions, r \in Nat :
       Spent(<<o.conversation.id, q, r>>) => o.conversation.messages[q] # "none"
  /\ o.pump = "saving" /\ o.next = "submit" /\ OnTurn(o) => ~Spent(Key(o))

FreshInv(o) == FreshRow(o) /\ FreshSettled(o) /\ FreshCount(o) /\ FreshSent(o)

LocalInv(o) == QueueInv(o) /\ MemoryInv(o) /\ PayloadInv(o) /\ CancelInv(o)

ObjectInv(o) == LocalInv(o) /\ (o.fresh => FreshInv(o)) /\ o.questions <= QuestionLimit

-----------------------------------------------------------------------------
(* What holds of the row and of the past                                   *)

RowInv ==
  /\ row.questions <= QuestionLimit
  /\ row.conversation.id = None => row.conversation = NoConversation
  /\ TurnIsKnown(row.conversation)
  /\ row.conversation.id \notin history.ended
  /\ \A q \in Questions : <<row.conversation.id, q>> \in history.settled =>
       row.conversation.messages[q] = "cancelled" /\ row.conversation.pending.question # q
  /\ IsFiniteSet(history.asked) /\ Cardinality(history.asked) <= row.questions
  /\ row.conversation.id # None =>
       \A q \in Questions :
         row.conversation.messages[q] # "none" => <<row.conversation.id, q>> \in history.asked
  /\ Beyond(row.conversation.id, row.conversation.pending)
  /\ \A q \in Questions, r \in Nat :
       Spent(<<row.conversation.id, q, r>>) => row.conversation.messages[q] # "none"

\* Whatever happened to a conversation happened after it was made.
PastInv ==
  /\ history.ended \subseteq history.used
  /\ row.conversation.id \in history.used \union {None}
  /\ \A c \in Conversations, q \in Questions : <<c, q>> \in history.settled => c \in history.used
  /\ \A c \in Conversations, q \in Questions, r \in Nat : <<c, q, r>> \in history.sent => c \in history.used
  /\ \A i \in Objects : object[i].conversation.id \in history.used \union {None}

\* A cancel is carried out once: it is recorded as long as its conversation lives.
CommandInv ==
  /\ \A c \in Conversations, k \in Cancels :
       /\ history.cancelled[<<c, k>>] <= 1
       /\ history.cancelled[<<c, k>>] # 0
            => c \in history.ended \/ (c = row.conversation.id /\ <<c, k>> \in command)

\* One grant for a round, which is unused.
GrantInv ==
  /\ history.resent = {}
  /\ \A i \in Objects : Granted(object[i]) => Key(object[i]) \notin history.sent
  /\ \A i, j \in Objects :
       Granted(object[i]) /\ Granted(object[j]) /\ Key(object[i]) = Key(object[j]) => i = j

AssistantInv ==
  /\ Types
  /\ \A i \in Objects : ObjectInv(object[i])
  /\ RowInv
  /\ PastInv
  /\ GrantInv
  /\ CommandInv

-----------------------------------------------------------------------------
(* What a change of one object leaves true                                 *)

\* An object that does not run.
LEMMA NoObjectInv ==
  /\ NoObject \in Instance /\ ~Granted(NoObject) /\ ObjectInv(NoObject)
  /\ [NoObject EXCEPT !.role = "ending"] \in Instance
  /\ ~Granted([NoObject EXCEPT !.role = "ending"])
  /\ ObjectInv([NoObject EXCEPT !.role = "ending"])
<1> DEFINE e == [NoObject EXCEPT !.role = "ending"]
<1>1. /\ NoObject \in Instance
      /\ NoObject.role = "off" /\ NoObject.conversation = NoConversation
      /\ NoObject.fresh = FALSE /\ NoObject.saves = <<>> /\ NoObject.payload = None
      /\ NoObject.pump = "idle" /\ NoObject.turn = None /\ NoObject.questions = 0
  BY AssistantAssumption
     DEF NoObject, Instance, NoConversation, Conversation, NoTurn, Turn, Stages, Roles, Turns,
         PumpStates, Savers
<1>2. /\ e \in Instance
      /\ e.role = "ending" /\ e.conversation = NoConversation
      /\ e.fresh = FALSE /\ e.saves = <<>> /\ e.payload = None
      /\ e.pump = "idle" /\ e.turn = None /\ e.questions = 0
  BY <1>1 DEF Instance, Roles
<1>3. /\ NoConversation.pending = NoTurn /\ NoTurn.question = None /\ NoConversation.id = None
  BY DEF NoConversation, NoTurn
<1> HIDE DEF e
<1>4. ASSUME NEW o \in Instance, o.role \in {"off", "ending"}, o.conversation = NoConversation,
             o.fresh = FALSE, o.saves = <<>>, o.payload = None, o.pump = "idle", o.turn = None,
             o.questions = 0
      PROVE  ~Granted(o) /\ ObjectInv(o)
  BY AssistantAssumption, <1>3, <1>4
     DEF Granted, ObjectInv, LocalInv, QueueInv, MemoryInv, PayloadInv, CancelInv, Queues,
         HasPayload, KeepsPayload, TurnIsKnown
<1>5. QED
  BY <1>1, <1>2, <1>4 DEF e

\* save() only queues: nothing that was said of the object is lost.
LEMMA SavingInv ==
  ASSUME NEW o \in Instance, ObjectInv(o), NEW who \in Savers, ~Queues(o, who),
         who = "pump" => o.pump = "saving",
         who = "cancel" => o.conversation.pending.question = None
  PROVE  /\ Saving(o, who) \in Instance /\ ObjectInv(Saving(o, who))
         /\ Granted(Saving(o, who)) => Granted(o) /\ Key(Saving(o, who)) = Key(o)
<1> DEFINE p == Saving(o, who)
           n == Len(o.saves) + 1
<1>0. o.saves \in Seq(Savers) /\ Len(o.saves) \in Nat
  BY DEF Instance
<1>1. p \in Instance
  BY <1>0 DEF Saving, Instance
<1>2. /\ p.role = o.role /\ p.conversation = o.conversation /\ p.over = o.over
      /\ p.questions = o.questions /\ p.fresh = o.fresh /\ p.payload = o.payload
      /\ p.pump = o.pump /\ p.turn = o.turn /\ p.next = o.next
      /\ p.saves = Append(o.saves, who)
  BY DEF Saving, Instance
<1>3. /\ Len(p.saves) = n /\ p.saves[n] = who
      /\ \A m \in 1..Len(o.saves) : p.saves[m] = o.saves[m]
      /\ o.saves # <<>> => Head(p.saves) = Head(o.saves)
      /\ p.saves # <<>>
  BY <1>0, <1>2
<1> HIDE DEF p
<1>4. QueueInv(p)
  BY <1>0, <1>2, <1>3 DEF ObjectInv, LocalInv, QueueInv, Queues, HasPayload
<1>5. MemoryInv(p)
  BY <1>2 DEF ObjectInv, LocalInv, MemoryInv, OnTurn
<1>6. PayloadInv(p)
  BY <1>2, <1>3 DEF ObjectInv, LocalInv, QueueInv, PayloadInv, HasPayload, KeepsPayload, OnTurn
<1>7. CancelInv(p)
  BY <1>0, <1>2, <1>3 DEF ObjectInv, LocalInv, QueueInv, CancelInv, KeepsPayload, HasPayload
<1>8. o.fresh => FreshInv(p)
  BY <1>2 DEF ObjectInv, FreshInv, FreshRow, FreshSettled, FreshCount, FreshSent, AskedWith, KeepsPayload,
    OnTurn, Key
<1>9. QED
  BY <1>1, <1>2, <1>4, <1>5, <1>6, <1>7, <1>8 DEF p, ObjectInv, LocalInv, Granted, OnTurn, Key

\* initialize: what was loaded is as far as the row.
LEMMA LoadedInv ==
  ASSUME AssistantInv, NEW o \in Instance, o.conversation = row.conversation,
         o.questions = row.questions, o.saves = <<>>, o.payload = None, o.turn = None,
         o.role \in {"opening", "control"} /\ ~o.over => row.conversation.id # None
  PROVE  ObjectInv(o) /\ ~Granted(o)
<1> USE DEF AssistantInv, RowInv
<1>1. LocalInv(o)
  BY DEF LocalInv, QueueInv, Queues, HasPayload, MemoryInv, OnTurn, PayloadInv, KeepsPayload, CancelInv
<1>2. FreshRow(o) /\ FreshSettled(o)
  BY DEF FreshRow, FreshSettled, KeepsPayload
<1>3. AskedWith(o) = history.asked
  <2>1. row.conversation.id = None => \A q \in Questions : row.conversation.messages[q] = "none"
    BY DEF NoConversation
  <2>2. QED
    BY <2>1 DEF AskedWith
<1>4. FreshCount(o)
  BY <1>3 DEF FreshCount
<1>5. FreshSent(o)
  BY DEF FreshSent, KeepsPayload, OnTurn
<1>6. QED
  BY <1>1, <1>2, <1>4, <1>5 DEF ObjectInv, FreshInv, Granted, OnTurn

\* The conversation a request has just made: nothing is known of its id.
LEMMA CreatedInv ==
  ASSUME AssistantInv, NEW c \in Conversations \ history.used, row.conversation.id = None,
         NEW o \in Instance, o.conversation = NewConversation(c, FALSE),
         o.questions = row.questions, o.saves = <<>>, o.payload = None, o.turn = None
  PROVE  ObjectInv(o) /\ ~Granted(o)
<1>0. /\ o.conversation.id = c /\ o.conversation.pending = NoTurn /\ NoTurn.question = None
      /\ \A q \in Questions : o.conversation.messages[q] = "none"
  BY DEF NewConversation, NoConversation, NoTurn
<1>a. c # None /\ None \notin Questions
  BY AssistantAssumption
<1>1. LocalInv(o)
  <2>1. QueueInv(o) /\ PayloadInv(o)
    BY DEF QueueInv, Queues, HasPayload, PayloadInv, KeepsPayload
  <2>2. MemoryInv(o)
    BY <1>0, <1>a DEF MemoryInv, OnTurn, TurnIsKnown
  <2>3. CancelInv(o)
    BY <1>0 DEF CancelInv, KeepsPayload
  <2>4. QED
    BY <2>1, <2>2, <2>3 DEF LocalInv
<1>2. /\ \A q \in Questions : <<c, q>> \notin history.settled
      /\ \A q \in Questions \union {None}, r \in Nat : ~Spent(<<c, q, r>>)
  <2>1. \A q \in Questions : <<c, q>> \notin history.settled
    BY DEF AssistantInv, PastInv
  <2>2. ASSUME NEW q \in Questions \union {None}, NEW r \in Nat, Spent(<<c, q, r>>) PROVE FALSE
    <3>1. CASE <<c, q, r>> \in history.sent
      BY <3>1 DEF AssistantInv, PastInv, Types, History
    <3>2. CASE \E j \in Objects : Granted(object[j]) /\ Key(object[j]) = <<c, q, r>>
      BY <3>2, AssistantAssumption DEF AssistantInv, PastInv, Key
    <3>3. QED
      BY <2>2, <3>1, <3>2 DEF Spent
  <2>3. QED
    BY <2>1, <2>2
<1>3. FreshRow(o) /\ FreshSettled(o)
  BY <1>0, <1>2 DEF FreshRow, FreshSettled, KeepsPayload, AssistantInv, PastInv
<1>4. FreshCount(o)
  <2>1. AskedWith(o) = history.asked
    BY <1>0 DEF AskedWith
  <2>2. QED
    BY <2>1 DEF FreshCount, AssistantInv, RowInv
<1>5. FreshSent(o)
  BY <1>0, <1>2 DEF FreshSent, KeepsPayload, OnTurn, Beyond
<1>6. QED
  BY <1>1, <1>3, <1>4, <1>5 DEF ObjectInv, FreshInv, Granted, OnTurn, AssistantInv, RowInv

\* A turn whose cancel waits to be saved is out of reach: no tick may cancel or
\* start it while its own save is queued, and no pump is on it.
LEMMA CancelWaits ==
  ASSUME NEW o \in Instance, CancelInv(o), o.conversation.pending.question # None,
         ~Queues(o, "task") \/ OnTurn(o)
  PROVE  ~Queues(o, "cancel")
  BY DEF CancelInv, Queues, OnTurn

\* The pending turn is cancelled or answered: its message says so, and nothing
\* counts it as cancelled for good before its save.
LEMMA SettledInv ==
  ASSUME NEW o \in Instance, ObjectInv(o), NEW q \in Questions, NEW how \in {"answered", "cancelled"},
         o.conversation.pending.question = q, ~Queues(o, "cancel"),
         NEW p, p = [o EXCEPT !.conversation = Settled(o.conversation, q, how)]
  PROVE  p \in Instance /\ ObjectInv(p) /\ ~Granted(p) /\ p.conversation.pending = NoTurn
<1> DEFINE c == o.conversation
           d == Settled(c, q, how)
<1>1. c \in Conversation /\ c.messages \in [Questions -> Turns]
  BY DEF Instance, Conversation
<1>2. NoTurn \in Turn /\ NoTurn.question = None /\ None \notin Questions
  BY AssistantAssumption DEF NoTurn, Turn, Stages
<1>3. /\ d \in Conversation /\ d.id = c.id /\ d.pending = NoTurn
      /\ \A r \in Questions : d.messages[r] = IF r = q THEN how ELSE c.messages[r]
  BY <1>1, <1>2 DEF Settled, Conversation, Turns
<1> HIDE DEF d
<1>4. /\ p \in Instance
      /\ p.role = o.role /\ p.conversation = d /\ p.over = o.over
      /\ p.questions = o.questions /\ p.fresh = o.fresh /\ p.payload = o.payload
      /\ p.pump = o.pump /\ p.turn = o.turn /\ p.next = o.next /\ p.saves = o.saves
  BY <1>3 DEF d, Instance
<1>5. ~OnTurn(p)
  BY <1>2, <1>3, <1>4 DEF OnTurn
<1>6. QueueInv(p)
  BY <1>4 DEF ObjectInv, LocalInv, QueueInv, Queues, HasPayload
<1>7. MemoryInv(p)
  <2>1. TurnIsKnown(d)
    BY <1>2, <1>3 DEF TurnIsKnown
  <2>2. o.turn # None => o.turn \in Questions
    BY DEF Instance
  <2>3. QED
    BY <1>3, <1>4, <1>5, <2>1, <2>2 DEF ObjectInv, LocalInv, MemoryInv
<1>8. PayloadInv(p)
  BY <1>3, <1>4, <1>5 DEF ObjectInv, LocalInv, PayloadInv, HasPayload, KeepsPayload
<1>9. CancelInv(p)
  <2>1. o.saves # <<>> => Head(o.saves) # "cancel"
    BY DEF Queues, Instance
  <2>2. QED
    BY <1>2, <1>3, <1>4, <2>1 DEF ObjectInv, LocalInv, QueueInv, CancelInv, KeepsPayload, HasPayload, Queues
<1>10. ASSUME o.fresh PROVE FreshInv(p)
  <2> USE DEF ObjectInv, FreshInv
  <2>1. FreshRow(p)
    BY <1>3, <1>4, <1>10 DEF FreshRow, KeepsPayload
  <2>2. FreshSettled(p)
    BY <1>2, <1>3, <1>4, <1>10 DEF FreshSettled, KeepsPayload
  <2>3. AskedWith(p) = AskedWith(o)
    BY <1>3, <1>4 DEF AskedWith, LocalInv, MemoryInv, TurnIsKnown
  <2>4. FreshCount(p)
    BY <1>4, <1>10, <2>3 DEF FreshCount
  <2>5. Beyond(c.id, NoTurn)
    BY <1>2 DEF Beyond
  <2>6. FreshSent(p)
    BY <1>3, <1>4, <1>5, <1>10, <2>5 DEF FreshSent, KeepsPayload
  <2>7. QED
    BY <2>1, <2>2, <2>4, <2>6
<1>11. QED
  BY <1>3, <1>4, <1>5, <1>6, <1>7, <1>8, <1>9, <1>10 DEF ObjectInv, LocalInv, Granted

\* cancel(c): the pending turn, if there is one, is cancelled.
LEMMA CancelledInv ==
  ASSUME NEW o \in Instance, ObjectInv(o), o.conversation.pending # NoTurn => ~Queues(o, "cancel"),
         NEW p, p = Cancelled(o)
  PROVE  /\ p \in Instance /\ ObjectInv(p) /\ p.conversation.pending = NoTurn
         /\ p.pump = o.pump /\ p.saves = o.saves /\ p.conversation.id = o.conversation.id
         /\ Granted(p) => Granted(o) /\ Key(p) = Key(o)
<1>1. CASE o.conversation.pending = NoTurn
  BY <1>1 DEF Cancelled
<1>2. CASE o.conversation.pending # NoTurn
  <2>1. o.conversation.pending.question \in Questions
    BY <1>2 DEF ObjectInv, LocalInv, MemoryInv, TurnIsKnown
  <2>2. p = [o EXCEPT !.conversation = Settled(o.conversation, o.conversation.pending.question, "cancelled")]
    BY <1>2 DEF Cancelled
  <2>3. p \in Instance /\ ObjectInv(p) /\ ~Granted(p) /\ p.conversation.pending = NoTurn
    BY <1>2, <2>1, <2>2, SettledInv
  <2>4. p.pump = o.pump /\ p.saves = o.saves /\ p.conversation.id = o.conversation.id
    BY <2>2 DEF Instance, Settled, Conversation
  <2>5. QED
    BY <2>3, <2>4
<1>3. QED
  BY <1>1, <1>2

\* A checkpoint of the turn that is not saved yet.
LEMMA StageInv ==
  ASSUME NEW o \in Instance, ObjectInv(o), OnTurn(o), o.pump \in {"running", "waiting"},
         NEW t \in Turn, t.question = o.conversation.pending.question,
         o.fresh => Beyond(o.conversation.id, t),
         NEW d \in Conversation, d.id = o.conversation.id, d.pending = t,
         d.messages = o.conversation.messages,
         NEW p, p = [o EXCEPT !.conversation = d]
  PROVE  /\ p \in Instance /\ ObjectInv(p) /\ OnTurn(p)
         /\ p.pump = o.pump /\ p.saves = o.saves /\ p.fresh = o.fresh
         /\ p.conversation.pending = t /\ p.conversation.id = o.conversation.id
         /\ Key(p) = <<o.conversation.id, o.turn, t.round>>
<1> DEFINE c == o.conversation
<1>1. c \in Conversation /\ c.pending \in Turn /\ o.turn \in Questions /\ c.pending.question = o.turn
  BY DEF Instance, Conversation, OnTurn
<1>2. t.question = c.pending.question
  OBVIOUS
<1>3. d.id = c.id /\ d.pending = t /\ d.messages = c.messages
  OBVIOUS
<1>4. p = [o EXCEPT !.conversation = d]
  OBVIOUS
<1>5. /\ p \in Instance
      /\ p.role = o.role /\ p.conversation = d /\ p.over = o.over
      /\ p.questions = o.questions /\ p.fresh = o.fresh /\ p.payload = o.payload
      /\ p.pump = o.pump /\ p.turn = o.turn /\ p.next = o.next /\ p.saves = o.saves
  BY <1>3, <1>4 DEF Instance
<1>6. OnTurn(p) /\ Key(p) = <<c.id, o.turn, t.round>>
  BY <1>2, <1>3, <1>5 DEF OnTurn, Key
<1>7. ~Queues(o, "cancel") /\ ~Queues(o, "pump")
  BY <1>1, AssistantAssumption, CancelWaits DEF ObjectInv, LocalInv, QueueInv
<1>8. o.saves # <<>> => Head(o.saves) # "cancel" /\ Head(o.saves) # "pump"
  BY <1>7 DEF Queues, Instance
<1>9. QueueInv(p)
  BY <1>5 DEF ObjectInv, LocalInv, QueueInv, Queues, HasPayload
<1>10. MemoryInv(p)
  <2>1. TurnIsKnown(d)
    BY <1>1, <1>2, <1>3, AssistantAssumption DEF ObjectInv, LocalInv, MemoryInv, TurnIsKnown, NoTurn
  <2>2. QED
    BY <1>3, <1>5, <2>1 DEF ObjectInv, LocalInv, MemoryInv
<1>11. PayloadInv(p)
  BY <1>3, <1>5, <1>8 DEF ObjectInv, LocalInv, QueueInv, PayloadInv, HasPayload, KeepsPayload
<1>12. CancelInv(p)
  BY <1>5, <1>7, <1>8 DEF ObjectInv, LocalInv, QueueInv, CancelInv, KeepsPayload, HasPayload, Queues
<1>13. ASSUME o.fresh PROVE FreshInv(p)
  <2> USE DEF ObjectInv, FreshInv
  <2>1. FreshRow(p)
    BY <1>3, <1>5, <1>13 DEF FreshRow, KeepsPayload
  <2>2. FreshSettled(p)
    BY <1>2, <1>3, <1>5, <1>13 DEF FreshSettled, KeepsPayload
  <2>3. AskedWith(p) = AskedWith(o)
    BY <1>3, <1>5 DEF AskedWith
  <2>4. FreshCount(p)
    BY <1>5, <1>13, <2>3 DEF FreshCount
  <2>5. Beyond(c.id, t)
    BY <1>13
  <2>6. FreshSent(p)
    BY <1>3, <1>5, <1>13, <2>5 DEF FreshSent, KeepsPayload
  <2>7. QED
    BY <2>1, <2>2, <2>4, <2>6
<1>14. QED
  BY <1>2, <1>3, <1>5, <1>6, <1>9, <1>10, <1>11, <1>12, <1>13 DEF ObjectInv, LocalInv

\* The pump's own save: it goes on at pc once it is done. To go on to the
\* submission it must not have been granted before.
LEMMA PumpSavesInv ==
  ASSUME NEW o \in Instance, ObjectInv(o), o.pump \in {"running", "submit", "waiting"},
         NEW pc \in PumpStates,
         pc = "submit" => /\ o.conversation.pending.stage = "requesting"
                          /\ o.fresh => ~Spent(Key(o)),
         NEW p, p = Saving([o EXCEPT !.pump = "saving", !.next = pc], "pump")
  PROVE  p \in Instance /\ ObjectInv(p) /\ ~Granted(p) /\ p.conversation.id = o.conversation.id
<1> DEFINE s == [o EXCEPT !.pump = "saving", !.next = pc]
<1>1. /\ s \in Instance
      /\ s.role = o.role /\ s.conversation = o.conversation /\ s.over = o.over
      /\ s.questions = o.questions /\ s.fresh = o.fresh /\ s.payload = o.payload
      /\ s.pump = "saving" /\ s.turn = o.turn /\ s.next = pc /\ s.saves = o.saves
  BY DEF Instance, PumpStates
<1> HIDE DEF s
<1>2. ~Queues(s, "pump") /\ (o.saves # <<>> => Head(o.saves) # "pump")
  BY <1>1 DEF ObjectInv, LocalInv, QueueInv, Queues, Instance
<1>3. QueueInv(s)
  BY <1>1 DEF ObjectInv, LocalInv, QueueInv, Queues, HasPayload
<1>4. MemoryInv(s) /\ CancelInv(s)
  BY <1>1 DEF ObjectInv, LocalInv, MemoryInv, CancelInv, KeepsPayload
<1>5. PayloadInv(s)
  BY <1>1, <1>2 DEF ObjectInv, LocalInv, QueueInv, PayloadInv, HasPayload, KeepsPayload
<1>6. o.fresh => FreshInv(s)
  BY <1>1 DEF ObjectInv, FreshInv, FreshRow, FreshSettled, FreshCount, FreshSent, AskedWith, KeepsPayload,
    OnTurn, Key
<1>7. ObjectInv(s)
  BY <1>1, <1>3, <1>4, <1>5, <1>6 DEF ObjectInv, LocalInv
<1>8. Saving(s, "pump") \in Instance /\ ObjectInv(Saving(s, "pump")) /\ ~Granted(Saving(s, "pump"))
  BY <1>1, <1>2, <1>7, SavingInv DEF Savers, Granted
<1>9. p = Saving(s, "pump")
  BY DEF s
<1>10. p.conversation.id = o.conversation.id
  BY <1>1, <1>9 DEF Saving, Instance
<1>11. QED
  BY <1>8, <1>9, <1>10

\* enqueue: the question is new to the conversation, and is counted.
LEMMA AskInv ==
  ASSUME NEW o \in Instance, ObjectInv(o), NEW q \in Questions,
         o.conversation.messages[q] = "none", o.conversation.pending = NoTurn,
         o.conversation.id # None, ~Queues(o, "task"), o.questions < QuestionLimit,
         NEW p, p = Saving([o EXCEPT !.questions = @ + 1, !.conversation = Asked(@, q)], "task")
  PROVE  p \in Instance /\ ObjectInv(p) /\ ~Granted(p) /\ p.conversation.id = o.conversation.id
<1> DEFINE c == o.conversation
           t == [NoTurn EXCEPT !.question = q]
           d == [c EXCEPT !.pending = t, !.messages[q] = "asked"]
           k == o.questions + 1
           x == [o EXCEPT !.questions = k, !.conversation = d]
           n == Len(o.saves) + 1
<1>1. c \in Conversation /\ c.messages \in [Questions -> Turns] /\ o.saves \in Seq(Savers)
      /\ Len(o.saves) \in Nat /\ o.questions \in Nat
  BY DEF Instance, Conversation
<1>2. NoTurn \in Turn /\ NoTurn.question = None /\ None \notin Questions /\ NoTurn.round = 0
      /\ NoTurn.stage = "new"
  BY AssistantAssumption DEF NoTurn, Turn, Stages
<1>3. t \in Turn /\ t.question = q
  BY <1>2 DEF Turn
<1> HIDE DEF t
<1>4. /\ d \in Conversation /\ d.id = c.id /\ d.pending = t
      /\ \A r \in Questions : d.messages[r] = IF r = q THEN "asked" ELSE c.messages[r]
  BY <1>1, <1>3 DEF Conversation, Turns
<1>5. d = Asked(c, q)
  BY DEF Asked, t
<1> HIDE DEF d
<1>a. k \in Nat /\ k <= QuestionLimit
  BY <1>1, AssistantAssumption
<1>b. p = Saving(x, "task")
  BY <1>5
<1>c. \A m \in Nat : m <= o.questions => m <= k /\ m + 1 <= k
  BY <1>1
<1> HIDE DEF k
<1>6. /\ x \in Instance
      /\ x.role = o.role /\ x.conversation = d /\ x.over = o.over
      /\ x.questions = k /\ x.fresh = o.fresh /\ x.payload = o.payload
      /\ x.pump = o.pump /\ x.turn = o.turn /\ x.next = o.next /\ x.saves = o.saves
  BY <1>1, <1>4, <1>a DEF Instance
<1> HIDE DEF x
<1>8. /\ p \in Instance
      /\ p.role = o.role /\ p.conversation = d /\ p.over = o.over
      /\ p.questions = k /\ p.fresh = o.fresh /\ p.payload = o.payload
      /\ p.pump = o.pump /\ p.turn = o.turn /\ p.next = o.next
      /\ p.saves = Append(o.saves, "task")
  <2>1. Append(x.saves, "task") \in Seq(Savers)
    BY <1>1, <1>6 DEF Savers
  <2>2. p = [x EXCEPT !.saves = Append(x.saves, "task")]
    BY <1>b DEF Saving
  <2>3. QED
    BY <1>6, <2>1, <2>2 DEF Instance
<1>9. /\ Len(p.saves) = n /\ p.saves[n] = "task"
      /\ \A m \in 1..Len(o.saves) : p.saves[m] = o.saves[m]
      /\ o.saves # <<>> => Head(p.saves) = Head(o.saves)
      /\ p.saves # <<>>
  BY <1>1, <1>8
<1>10. ~OnTurn(p) /\ o.turn # q
  BY <1>2, <1>3, <1>4, <1>8 DEF OnTurn, ObjectInv, LocalInv, MemoryInv
<1>11. QueueInv(p)
  <2>1. QueueInv(o)
    BY DEF ObjectInv, LocalInv
  <2>2. \A m \in 1..Len(o.saves) : o.saves[m] # "task"
    BY DEF Queues
  <2>3. \A m \in 1..Len(p.saves) : m \in 1..Len(o.saves) \/ m = n
    BY <1>1, <1>9
  <2>4. QED
    BY <1>8, <1>9, <2>1, <2>2, <2>3 DEF QueueInv, Queues, HasPayload
<1>12. MemoryInv(p)
  <2>1. TurnIsKnown(d)
    BY <1>3, <1>4 DEF TurnIsKnown
  <2>2. o.turn # None => o.turn \in Questions
    BY DEF Instance
  <2>3. QED
    BY <1>4, <1>8, <1>10, <2>1, <2>2 DEF ObjectInv, LocalInv, MemoryInv
<1>13. PayloadInv(p)
  BY <1>4, <1>8, <1>9, <1>10 DEF ObjectInv, LocalInv, QueueInv, PayloadInv, HasPayload, KeepsPayload
<1>14. CancelInv(p)
  <2>1. \A m \in 1..Len(p.saves) : p.saves[m] = "cancel" => m < n /\ n \in 1..Len(p.saves)
    BY <1>1, <1>9
  <2>2. p.conversation.messages[q] = "asked" /\ p.conversation.pending.question = q
    BY <1>3, <1>4, <1>8
  <2>3. KeepsPayload(p) /\ Head(p.saves) = "cancel" => p.payload.pending.question = None
    BY <1>2, <1>8, <1>9 DEF ObjectInv, LocalInv, QueueInv, CancelInv, KeepsPayload, HasPayload
  <2>4. QED
    BY <1>8, <1>9, <1>10, <2>1, <2>2, <2>3 DEF CancelInv
<1>15. ASSUME o.fresh PROVE FreshInv(p)
  <2> USE DEF ObjectInv, FreshInv
  <2>1. FreshRow(p)
    BY <1>4, <1>8, <1>15 DEF FreshRow, KeepsPayload
  <2>2. FreshSettled(p)
    BY <1>3, <1>4, <1>8, <1>15 DEF FreshSettled, KeepsPayload
  <2>3. AskedWith(p) = AskedWith(o) \union {<<c.id, q>>}
    BY <1>4, <1>8 DEF AskedWith
  <2>4. FreshCount(p)
    <3>1. IsFiniteSet(AskedWith(o)) /\ Cardinality(AskedWith(o)) <= o.questions
      BY <1>15 DEF FreshCount
    <3>2. /\ IsFiniteSet(AskedWith(o) \union {<<c.id, q>>})
          /\ Cardinality(AskedWith(o) \union {<<c.id, q>>}) \in
               {Cardinality(AskedWith(o)), Cardinality(AskedWith(o)) + 1}
      BY <3>1, FS_AddElement
    <3>3. Cardinality(AskedWith(o)) \in Nat
      BY <3>1, FS_CardinalityType
    <3>4. QED
      BY <1>1, <1>8, <1>c, <2>3, <3>1, <3>2, <3>3 DEF FreshCount
  <2>5. \A r \in Nat : ~Spent(<<c.id, q, r>>)
    BY <1>15 DEF FreshSent
  <2>6. FreshSent(p)
    BY <1>3, <1>4, <1>8, <1>10, <1>15, <2>5 DEF FreshSent, KeepsPayload, Beyond
  <2>7. QED
    BY <2>1, <2>2, <2>4, <2>6
<1>16. p.questions <= QuestionLimit
  BY <1>8, <1>a
<1>17. QED
  BY <1>4, <1>8, <1>10, <1>11, <1>12, <1>13, <1>14, <1>15, <1>16 DEF ObjectInv, LocalInv, Granted

\* The payload of a save is what the object has in memory.
LEMMA PayloadTakenInv ==
  ASSUME NEW o \in Instance, ObjectInv(o), o.saves # <<>>, o.payload = None,
         NEW p, p = [o EXCEPT !.payload = IF o.over THEN NoConversation ELSE o.conversation]
  PROVE  /\ p \in Instance /\ ObjectInv(p) /\ p.conversation.id = o.conversation.id
         /\ Granted(p) => Granted(o) /\ Key(p) = Key(o)
<1> DEFINE v == IF o.over THEN NoConversation ELSE o.conversation
<1>1. NoConversation \in Conversation /\ NoConversation.id = None
  BY AssistantAssumption
     DEF NoConversation, Conversation, NoTurn, Turn, Stages, Turns
<1>2. v \in Conversation /\ (v.id # None => ~o.over /\ v = o.conversation)
      /\ (v.id = None => o.over \/ o.conversation.id = None)
  BY <1>1 DEF Instance
<1> HIDE DEF v
<1>3. /\ p \in Instance
      /\ p.role = o.role /\ p.conversation = o.conversation /\ p.over = o.over
      /\ p.questions = o.questions /\ p.fresh = o.fresh /\ p.payload = v
      /\ p.pump = o.pump /\ p.turn = o.turn /\ p.next = o.next /\ p.saves = o.saves
  BY <1>2 DEF Instance, v
<1>4. QueueInv(p) /\ MemoryInv(p)
  BY <1>3 DEF ObjectInv, LocalInv, QueueInv, MemoryInv, Queues, HasPayload, OnTurn
<1>5. PayloadInv(p)
  BY <1>2, <1>3 DEF ObjectInv, LocalInv, MemoryInv, TurnIsKnown, PayloadInv, HasPayload, KeepsPayload
<1>6. CancelInv(p)
  BY <1>2, <1>3 DEF ObjectInv, LocalInv, CancelInv, KeepsPayload
<1>7. ASSUME o.fresh PROVE FreshInv(p)
  <2> USE DEF ObjectInv, FreshInv
  <2>1. FreshRow(p) /\ FreshSettled(p)
    BY <1>2, <1>3, <1>7 DEF FreshRow, FreshSettled, KeepsPayload
  <2>2. FreshCount(p)
    BY <1>3, <1>7 DEF FreshCount, AskedWith
  <2>3. FreshSent(p)
    BY <1>2, <1>3, <1>7 DEF FreshSent, KeepsPayload, OnTurn, Key
  <2>4. QED
    BY <2>1, <2>2, <2>3
<1>8. QED
  BY <1>3, <1>4, <1>5, <1>6, <1>7 DEF ObjectInv, LocalInv, Granted, OnTurn, Key

\* endOwned: the conversation is gone from memory.
LEMMA OverInv ==
  ASSUME NEW o \in Instance, ObjectInv(o), NEW p, p = [o EXCEPT !.over = TRUE]
  PROVE  /\ p \in Instance /\ ObjectInv(p) /\ ~Granted(p)
         /\ p.conversation.id = o.conversation.id /\ p.saves = o.saves
<1>1. /\ p \in Instance
      /\ p.role = o.role /\ p.conversation = o.conversation /\ p.over = TRUE
      /\ p.questions = o.questions /\ p.fresh = o.fresh /\ p.payload = o.payload
      /\ p.pump = o.pump /\ p.turn = o.turn /\ p.next = o.next /\ p.saves = o.saves
  BY DEF Instance
<1>2. ~OnTurn(p)
  BY <1>1 DEF OnTurn
<1>3. QueueInv(p) /\ MemoryInv(p)
  BY <1>1, <1>2 DEF ObjectInv, LocalInv, QueueInv, MemoryInv, Queues, HasPayload
<1>4. PayloadInv(p) /\ CancelInv(p)
  BY <1>1, <1>2 DEF ObjectInv, LocalInv, PayloadInv, CancelInv, HasPayload, KeepsPayload
<1>5. o.fresh => FreshInv(p)
  BY <1>1, <1>2 DEF ObjectInv, FreshInv, FreshRow, FreshSettled, FreshCount, FreshSent, AskedWith, KeepsPayload
<1>6. QED
  BY <1>1, <1>2, <1>3, <1>4, <1>5 DEF ObjectInv, LocalInv, Granted

\* The pump takes the pending turn up, goes on or stops, and the connection opens
\* or closes: memory and queue stay as they are.
LEMMA PumpInv ==
  ASSUME NEW o \in Instance, ObjectInv(o), NEW p \in Instance,
         p.conversation = o.conversation, p.over = o.over, p.questions = o.questions,
         p.fresh = o.fresh, p.saves = o.saves, p.payload = o.payload,
         p.role \in {"opening", "control"} => o.role \in {"opening", "control"},
         o.pump # "saving", p.pump \notin {"saving", "submit"},
         \/ p.turn \in {o.turn, None}
         \/ /\ p.turn = o.conversation.pending.question
            /\ o.conversation.pending.question \in Questions /\ ~Queues(o, "cancel")
  PROVE  ObjectInv(p) /\ ~Granted(p)
<1>1. ~Queues(o, "pump") /\ (o.saves # <<>> => Head(o.saves) # "pump")
  BY DEF ObjectInv, LocalInv, QueueInv, Queues, Instance
<1>2. QueueInv(p)
  BY <1>1 DEF ObjectInv, LocalInv, QueueInv, Queues, HasPayload
<1>3. MemoryInv(p)
  BY DEF ObjectInv, LocalInv, MemoryInv, TurnIsKnown
<1>4. PayloadInv(p)
  BY <1>1 DEF ObjectInv, LocalInv, QueueInv, PayloadInv, HasPayload, KeepsPayload
<1>5. CancelInv(p)
  BY DEF ObjectInv, LocalInv, CancelInv, KeepsPayload, Queues
<1>6. o.fresh => FreshInv(p)
  BY DEF ObjectInv, FreshInv, FreshRow, FreshSettled, FreshCount, FreshSent, AskedWith, KeepsPayload
<1>7. QED
  BY <1>2, <1>3, <1>4, <1>5, <1>6 DEF ObjectInv, LocalInv, Granted

\* openControl and the closing of the socket.
LEMMA RoleInv ==
  ASSUME NEW o \in Instance, ObjectInv(o), o.role \in {"opening", "control"},
         NEW r \in {"control", "closed"}, NEW p, p = [o EXCEPT !.role = r]
  PROVE  /\ p \in Instance /\ ObjectInv(p) /\ p.conversation.id = o.conversation.id
         /\ Granted(p) => Granted(o) /\ Key(p) = Key(o)
<1>1. /\ p \in Instance
      /\ p.role = r /\ p.conversation = o.conversation /\ p.over = o.over
      /\ p.questions = o.questions /\ p.fresh = o.fresh /\ p.payload = o.payload
      /\ p.pump = o.pump /\ p.turn = o.turn /\ p.next = o.next /\ p.saves = o.saves
  BY DEF Instance, Roles
<1>2. LocalInv(p)
  BY <1>1 DEF ObjectInv, LocalInv, QueueInv, MemoryInv, PayloadInv, CancelInv, HasPayload, KeepsPayload,
    OnTurn, Queues
<1>3. o.fresh => FreshInv(p)
  BY <1>1 DEF ObjectInv, FreshInv, FreshRow, FreshSettled, FreshCount, FreshSent, AskedWith, KeepsPayload,
    OnTurn, Key
<1>4. QED
  BY <1>1, <1>2, <1>3 DEF ObjectInv, Granted, OnTurn, Key

\* Somebody else saved: what is said of a stale object is less.
LEMMA StaleInv ==
  ASSUME NEW o \in Instance, LocalInv(o), o.questions <= QuestionLimit,
         NEW p, p = Stale(o)
  PROVE  /\ p \in Instance /\ ObjectInv(p) /\ p.fresh = FALSE /\ p.questions = o.questions
         /\ p.conversation.id = o.conversation.id
         /\ Granted(p) = Granted(o) /\ Key(p) = Key(o)
<1>1. /\ p \in Instance
      /\ p.role = o.role /\ p.conversation = o.conversation /\ p.over = o.over
      /\ p.questions = o.questions /\ p.fresh = FALSE /\ p.payload = o.payload
      /\ p.pump = o.pump /\ p.turn = o.turn /\ p.next = o.next /\ p.saves = o.saves
  BY DEF Stale, Instance
<1>2. LocalInv(p)
  BY <1>1 DEF LocalInv, QueueInv, MemoryInv, PayloadInv, CancelInv, HasPayload, KeepsPayload, OnTurn, Queues
<1>3. QED
  BY <1>1, <1>2 DEF ObjectInv, Granted, OnTurn, Key

-----------------------------------------------------------------------------
(* What a step of one object leaves true                                   *)

\* The part of the past a save alone writes.
SavedPast == <<history.ended, history.asked, history.settled>>

\* As long as nothing is saved and no submission is granted, what is true of an
\* object stays true of it.
LEMMA FrameInv ==
  ASSUME RowInv, row' = row, UNCHANGED SavedPast,
         \A key : Spent(key)' => Spent(key)
  PROVE  RowInv' /\ \A o : ObjectInv(o) => ObjectInv(o)'
<1>1. ASSUME NEW c, NEW t, Beyond(c, t) PROVE Beyond(c, t)'
  BY <1>1 DEF Beyond
<1>2. ASSUME NEW o, ObjectInv(o) PROVE ObjectInv(o)'
  <2>1. LocalInv(o)' = LocalInv(o)
    BY DEF LocalInv, QueueInv, MemoryInv, PayloadInv, CancelInv
  <2>2. ASSUME FreshInv(o) PROVE FreshInv(o)'
    <3>1. FreshRow(o)' /\ FreshSettled(o)' /\ FreshCount(o)'
      BY <2>2 DEF FreshInv, FreshRow, FreshSettled, FreshCount, AskedWith, SavedPast
    <3>2. FreshSent(o)'
      BY <1>1, <2>2 DEF FreshInv, FreshSent
    <3>3. QED
      BY <3>1, <3>2 DEF FreshInv
  <2>3. QED
    BY <1>2, <2>1, <2>2 DEF ObjectInv
<1>3. RowInv'
  BY <1>1 DEF RowInv, SavedPast
<1>4. QED
  BY <1>2, <1>3

\* Every step but a save and a submission changes one object, and grants
\* nothing.
LEMMA StepInv ==
  ASSUME AssistantInv, NEW i \in Objects, NEW p \in Instance,
         object' = [object EXCEPT ![i] = p], row' = row, history' \in History,
         UNCHANGED <<SavedPast, history.sent, history.resent>>, history.used \subseteq history'.used,
         ObjectInv(p), p.conversation.id \in history'.used \union {None},
         Granted(p) => Granted(object[i]) /\ Key(p) = Key(object[i])
  PROVE  /\ Types' /\ RowInv' /\ PastInv' /\ GrantInv'
         /\ \A j \in Objects : ObjectInv(object[j])'
<1> USE DEF AssistantInv
<1>1. Types'
  BY DEF Types
<1>2. \A j \in Objects : object'[j] = IF j = i THEN p ELSE object[j]
  BY DEF Types
<1>3. ASSUME NEW key, Spent(key)' PROVE Spent(key)
  BY <1>2, <1>3 DEF Spent, Granted, Key, OnTurn
<1>4. RowInv' /\ \A o : ObjectInv(o) => ObjectInv(o)'
  BY <1>3, FrameInv
<1>5. \A j \in Objects : ObjectInv(object[j])'
  BY <1>2, <1>4
<1>6. PastInv'
  BY <1>2 DEF PastInv, SavedPast
<1>7. GrantInv'
  BY <1>2 DEF GrantInv
<1>8. QED
  BY <1>1, <1>4, <1>5, <1>6, <1>7

\* A cancel that was carried out stays recorded while its conversation lives.
LEMMA RecordedInv ==
  ASSUME CommandInv, row' = row, history'.cancelled = history.cancelled,
         history'.ended = history.ended, command \subseteq command'
  PROVE  CommandInv'
  BY DEF CommandInv

\* A step that changes one object and counts at most a start.
LEMMA ChangeInv ==
  ASSUME AssistantInv, NEW i \in Objects, NEW p \in Instance, Edit(i, p),
         row' = row, command' = command, history' = history \/ Started,
         ObjectInv(p), p.conversation.id \in history.used \union {None},
         Granted(p) => Granted(object[i]) /\ Key(p) = Key(object[i])
  PROVE  AssistantInv'
<1>1. /\ history' \in History /\ UNCHANGED <<SavedPast, history.sent, history.resent>>
      /\ history'.used = history.used /\ history'.cancelled = history.cancelled
  BY DEF Started, AssistantInv, Types, History, SavedPast
<1>2. CommandInv'
  BY <1>1, RecordedInv DEF AssistantInv, SavedPast
<1>3. /\ Types' /\ RowInv' /\ PastInv' /\ GrantInv'
      /\ \A j \in Objects : ObjectInv(object[j])'
  BY <1>1, StepInv DEF Edit
<1>4. QED
  BY <1>2, <1>3 DEF AssistantInv

\* A step that changes no object.
LEMMA QuietInv ==
  ASSUME AssistantInv, object' = object, row' = row, command' = command,
         \/ history' = history \/ Started
         \/ history' = [history EXCEPT !.expired = @ + 1]
  PROVE  AssistantInv'
<1> USE DEF AssistantInv
<1>1. /\ history' \in History /\ UNCHANGED <<SavedPast, history.sent, history.resent>>
      /\ history'.used = history.used /\ history'.cancelled = history.cancelled
  BY DEF Started, Types, History, SavedPast
<1>2. CommandInv'
  BY <1>1, RecordedInv DEF SavedPast
<1>3. ASSUME NEW key, Spent(key)' PROVE Spent(key)
  BY <1>1, <1>3 DEF Spent, Granted, Key, OnTurn
<1>4. RowInv' /\ \A o : ObjectInv(o) => ObjectInv(o)'
  BY <1>1, <1>3, FrameInv
<1>5. \A j \in Objects : ObjectInv(object[j])'
  BY <1>4
<1>6. Types' /\ PastInv' /\ GrantInv'
  BY <1>1 DEF Types, PastInv, GrantInv, SavedPast
<1>7. QED
  BY <1>2, <1>4, <1>5, <1>6

\* What initialize loads is an object.
LEMMA LoadedFields ==
  ASSUME Types, NEW role \in Roles
  PROVE  /\ Loaded(role) \in Instance /\ Loaded(role).role = role
         /\ Loaded(role).conversation = row.conversation
         /\ Loaded(role).questions = row.questions /\ Loaded(role).saves = <<>>
         /\ Loaded(role).payload = None /\ Loaded(role).turn = None /\ Loaded(role).over = FALSE
<1>1. /\ NoObject \in Instance
      /\ NoObject.saves = <<>> /\ NoObject.payload = None /\ NoObject.turn = None
      /\ NoObject.over = FALSE
  BY NoObjectInv DEF NoObject
<1>2. QED
  BY <1>1 DEF Loaded, Instance, Types

\* A save may be queued when none of its kind is.
LEMMA MayQueueIs ==
  ASSUME NEW i \in Objects, object[i] \in Instance, NEW who, MayQueue(i, who)
  PROVE  ~Queues(object[i], who)
<1>1. object[i].saves \in Seq(Savers)
  BY DEF Instance
<1>2. DOMAIN object[i].saves = 1..Len(object[i].saves)
  BY <1>1
<1>3. QED
  BY <1>2 DEF MayQueue, Queues

\* endOwned after initialize: one save is queued.
LEMMA RetiredInv ==
  ASSUME AssistantInv, NEW role \in {"ending", "sweep"}, NEW who \in {"request", "task"},
         NEW p, p = EndOwned(Loaded(role), who)
  PROVE  /\ p \in Instance /\ ObjectInv(p) /\ ~Granted(p)
         /\ p.conversation.id = row.conversation.id
<1> DEFINE o == Loaded(role)
           x == [o EXCEPT !.over = TRUE]
<1>1. /\ o \in Instance /\ o.role = role /\ o.conversation = row.conversation
      /\ o.questions = row.questions /\ o.saves = <<>> /\ o.payload = None /\ o.turn = None
  BY LoadedFields DEF AssistantInv, Roles
<1>2. ObjectInv(o)
  BY <1>1, LoadedInv
<1>3. p = Saving(x, who)
  BY DEF EndOwned
<1> HIDE DEF o
<1>4. x \in Instance /\ ObjectInv(x) /\ ~Granted(x) /\ x.conversation.id = o.conversation.id /\ x.saves = <<>>
  BY <1>1, <1>2, OverInv
<1> HIDE DEF x
<1>5. ~Queues(x, who)
  BY <1>4 DEF Queues
<1>6. p \in Instance /\ ObjectInv(p) /\ ~Granted(p)
  BY <1>3, <1>4, <1>5, SavingInv DEF Savers
<1>7. p.conversation = x.conversation
  BY <1>3, <1>4 DEF Saving, Instance
<1>8. QED
  BY <1>1, <1>4, <1>6, <1>7

-----------------------------------------------------------------------------
(* The actions                                                             *)

\* What an object that runs satisfies.
LEMMA ObjectFacts ==
  ASSUME AssistantInv, NEW i \in Objects
  PROVE  /\ object[i] \in Instance /\ ObjectInv(object[i])
         /\ object[i].conversation.id \in history.used \union {None}
         /\ row.conversation.id \in history.used \union {None}
         /\ None \notin history.used
  BY AssistantAssumption DEF AssistantInv, Types, PastInv, History

\* POST /conversations.
LEMMA CreateConversationInv ==
  ASSUME AssistantInv, NEW i \in Objects, NEW c \in Conversations, CreateConversation(i, c)
  PROVE  AssistantInv'
<1> DEFINE o == Loaded("ending")
           n == NewConversation(c, FALSE)
           x == [o EXCEPT !.conversation = n]
           p == Saving(x, "request")
<1>1. /\ o \in Instance /\ o.role = "ending" /\ o.questions = row.questions
      /\ o.saves = <<>> /\ o.payload = None /\ o.turn = None
  BY LoadedFields DEF AssistantInv, Roles
<1>2. n \in Conversation /\ n.id = c
  <2>1. NoConversation \in Conversation
    BY AssistantAssumption DEF NoConversation, Conversation, NoTurn, Turn, Stages, Turns
  <2>2. QED
    BY <2>1 DEF NewConversation, Conversation
<1>3. row.conversation.id = None /\ c \notin history.used /\ Edit(i, p)
      /\ row' = row /\ command' = command
      /\ history' = [history EXCEPT !.used = history.used \union {c}, !.starts = history.starts + 1]
  BY DEF CreateConversation, d1Vars
<1> HIDE DEF o, n
<1>4. /\ x \in Instance /\ x.conversation = n /\ x.role = "ending" /\ x.questions = row.questions
      /\ x.saves = <<>> /\ x.payload = None /\ x.turn = None
  BY <1>1, <1>2 DEF Instance
<1>5. ObjectInv(x) /\ ~Granted(x)
  BY <1>3, <1>4, CreatedInv DEF n
<1> HIDE DEF x
<1>6. ~Queues(x, "request")
  BY <1>4 DEF Queues
<1>7. p \in Instance /\ ObjectInv(p) /\ ~Granted(p)
  BY <1>4, <1>5, <1>6, SavingInv DEF Savers
<1>8. p.conversation.id = c
  BY <1>2, <1>4 DEF Saving, Instance
<1> HIDE DEF p
<1>9. /\ history' \in History /\ UNCHANGED <<SavedPast, history.sent, history.resent>>
      /\ history'.used = history.used \union {c} /\ history'.cancelled = history.cancelled
  <2> DEFINE u == history.used \union {c}
             k == history.starts + 1
  <2>1. history \in History
    BY DEF AssistantInv, Types
  <2>2. u \in SUBSET Conversations /\ k \in Nat
    BY <2>1 DEF History
  <2>3. history' = [history EXCEPT !.used = u, !.starts = k]
    BY <1>3
  <2> HIDE DEF u, k
  <2>4. history' \in History /\ UNCHANGED <<SavedPast, history.sent, history.resent>>
      /\ history'.used = u
        /\ history'.cancelled = history.cancelled
    BY <2>1, <2>2, <2>3 DEF History, SavedPast
  <2>5. QED
    BY <2>4 DEF u
<1>10. CommandInv'
  BY <1>3, <1>9, RecordedInv DEF AssistantInv, SavedPast
<1>11. /\ Types' /\ RowInv' /\ PastInv' /\ GrantInv'
       /\ \A j \in Objects : ObjectInv(object[j])'
  BY <1>3, <1>7, <1>8, <1>9, StepInv DEF Edit
<1>12. QED
  BY <1>10, <1>11 DEF AssistantInv

\* /end and /logout, second half.
LEMMA EndLoadInv ==
  ASSUME AssistantInv, NEW i \in Objects, EndLoad(i)
  PROVE  AssistantInv'
<1>1. row' = row /\ command' = command /\ history' = history
  BY DEF EndLoad, d1Vars
<1>2. CASE Edit(i, NoObject)
  BY <1>1, <1>2, NoObjectInv, ChangeInv DEF NoObject, NoConversation
<1>3. CASE Edit(i, EndOwned(Loaded("ending"), "request"))
  <2> DEFINE p == EndOwned(Loaded("ending"), "request")
  <2>1. p \in Instance /\ ObjectInv(p) /\ ~Granted(p) /\ p.conversation.id = row.conversation.id
    BY RetiredInv
  <2> HIDE DEF p
  <2>2. QED
    BY <1>1, <1>3, <2>1, ObjectFacts, ChangeInv DEF p
<1>4. QED
  BY <1>2, <1>3 DEF EndLoad

\* /events.
LEMMA OpenControlInv ==
  ASSUME AssistantInv, NEW i \in Objects, OpenControl(i)
  PROVE  AssistantInv'
<1>1. row' = row /\ command' = command /\ Started /\ row.conversation.id # None
  BY DEF OpenControl, d1Vars
<1>2. CASE Edit(i, Loaded("opening"))
  <2> DEFINE p == Loaded("opening")
  <2>1. /\ p \in Instance /\ p.conversation = row.conversation
        /\ p.questions = row.questions /\ p.saves = <<>> /\ p.payload = None /\ p.turn = None
    BY LoadedFields DEF AssistantInv, Roles
  <2> HIDE DEF p
  <2>2. ObjectInv(p) /\ ~Granted(p)
    BY <1>1, <2>1, LoadedInv
  <2>3. QED
    BY <1>1, <1>2, <2>1, <2>2, ObjectFacts, ChangeInv DEF p
<1>3. CASE Edit(i, EndOwned(Loaded("ending"), "request"))
  <2> DEFINE p == EndOwned(Loaded("ending"), "request")
  <2>1. p \in Instance /\ ObjectInv(p) /\ ~Granted(p) /\ p.conversation.id = row.conversation.id
    BY RetiredInv
  <2> HIDE DEF p
  <2>2. QED
    BY <1>1, <1>3, <2>1, ObjectFacts, ChangeInv DEF p
<1>4. QED
  BY <1>2, <1>3 DEF OpenControl

\* openControl, the closing of the socket, and objects that are forgotten.
LEMMA ConnectionInv ==
  ASSUME AssistantInv, NEW i \in Objects,
         ClaimConnection(i) \/ CloseControl(i) \/ Forgotten(i) \/ SweepDone(i) \/ Crash(i)
  PROVE  AssistantInv'
<1>1. row' = row /\ command' = command /\ history' = history
  BY DEF ClaimConnection, CloseControl, Forgotten, SweepDone, Crash, d1Vars
<1>2. CASE Edit(i, NoObject)
  BY <1>1, <1>2, NoObjectInv, ChangeInv DEF NoObject, NoConversation
<1>3. ASSUME NEW r \in {"control", "closed"}, object[i].role \in {"opening", "control"},
             Edit(i, [object[i] EXCEPT !.role = r])
      PROVE  AssistantInv'
  <2> DEFINE p == [object[i] EXCEPT !.role = r]
  <2>1. /\ p \in Instance /\ ObjectInv(p) /\ p.conversation.id = object[i].conversation.id
        /\ Granted(p) => Granted(object[i]) /\ Key(p) = Key(object[i])
    BY <1>3, ObjectFacts, RoleInv
  <2>2. Edit(i, p)
    BY <1>3
  <2> HIDE DEF p
  <2>3. QED
    BY <1>1, <2>1, <2>2, ObjectFacts, ChangeInv
<1>4. QED
  BY <1>2, <1>3 DEF ClaimConnection, CloseControl, Forgotten, SweepDone, Crash

\* drive: the row is loaded again, and the pump has lost its turn.
LEMMA DriveReloadInv ==
  ASSUME AssistantInv, NEW i \in Objects, DriveReload(i)
  PROVE  AssistantInv'
<1> DEFINE o == Loaded("control")
           p == [o EXCEPT !.pump = object[i].pump, !.turn = None, !.next = object[i].next,
                          !.over = row.conversation.id = None]
<1>1. /\ o \in Instance /\ o.role = "control" /\ o.conversation = row.conversation
      /\ o.questions = row.questions /\ o.saves = <<>> /\ o.payload = None
  BY LoadedFields DEF AssistantInv, Roles
<1>2. row' = row /\ command' = command /\ history' = history /\ Edit(i, p)
  BY DEF DriveReload, d1Vars
<1> HIDE DEF o
<1>3. (row.conversation.id = None) \in BOOLEAN /\ object[i].pump \in PumpStates /\ object[i].next \in PumpStates
  BY ObjectFacts DEF Instance
<1>4. /\ p \in Instance /\ p.conversation = row.conversation
      /\ p.questions = row.questions /\ p.saves = <<>> /\ p.payload = None /\ p.turn = None
      /\ p.over = (row.conversation.id = None)
  BY <1>1, <1>3 DEF Instance
<1> HIDE DEF p
<1>5. ObjectInv(p) /\ ~Granted(p)
  BY <1>4, LoadedInv
<1>6. QED
  BY <1>2, <1>4, <1>5, ObjectFacts, ChangeInv

\* controlMessage "questions".
LEMMA AskStepInv ==
  ASSUME AssistantInv, NEW i \in Objects, NEW q \in Questions, Ask(i, q)
  PROVE  AssistantInv'
<1> DEFINE o == object[i]
           p == Saving([o EXCEPT !.questions = @ + 1, !.conversation = Asked(@, q)], "task")
<1>1. row' = row /\ command' = command /\ history' = history /\ Edit(i, p)
  BY DEF Ask, d1Vars
<1>2. /\ o \in Instance /\ ObjectInv(o) /\ ~Queues(o, "task")
  BY ObjectFacts, MayQueueIs DEF Ask
<1>3. /\ o.conversation.messages[q] = "none" /\ o.conversation.pending = NoTurn
      /\ o.questions < QuestionLimit /\ o.conversation.id # None
  BY <1>2 DEF Ask, Pending, Control, ObjectInv, LocalInv, MemoryInv
<1>4. p \in Instance /\ ObjectInv(p) /\ ~Granted(p) /\ p.conversation.id = o.conversation.id
  BY <1>2, <1>3, AskInv
<1> HIDE DEF p
<1>5. QED
  BY <1>1, <1>4, ObjectFacts, ChangeInv

\* controlMessage "cancel": it is recorded with the turn it cancels.
LEMMA CancelStepInv ==
  ASSUME AssistantInv, NEW i \in Objects, NEW k \in Cancels, Cancel(i, k)
  PROVE  AssistantInv'
<1> DEFINE o == object[i]
           x == Cancelled(o)
           p == Saving(x, "cancel")
           key == <<o.conversation.id, k>>
           h == history.cancelled
<1>1. /\ o \in Instance /\ ObjectInv(o) /\ ~Queues(o, "cancel")
      /\ o.conversation.id \in history.used /\ o.conversation.id \in Conversations
  <2>1. o \in Instance /\ ObjectInv(o) /\ ~Queues(o, "cancel")
    BY ObjectFacts, MayQueueIs DEF Cancel
  <2>2. o.conversation.id # None
    BY <2>1 DEF Cancel, Control, ObjectInv, LocalInv, MemoryInv
  <2>3. QED
    BY <2>1, <2>2, ObjectFacts DEF AssistantInv, Types, History
<1>2. /\ row' = row /\ Edit(i, p) /\ key \notin command /\ command' = command \union {key}
      /\ \/ history' = history
         \/ /\ row.conversation.id = o.conversation.id
            /\ history' = [history EXCEPT !.cancelled = [h EXCEPT ![key] = h[key] + 1]]
  BY DEF Cancel, CommandKey
<1>3. /\ x \in Instance /\ ObjectInv(x) /\ x.conversation.pending = NoTurn
      /\ x.saves = o.saves /\ x.conversation.id = o.conversation.id
      /\ Granted(x) => Granted(o) /\ Key(x) = Key(o)
  BY <1>1, CancelledInv
<1> HIDE DEF x
<1>4. /\ p \in Instance /\ ObjectInv(p)
      /\ Granted(p) => Granted(o) /\ Key(p) = Key(o)
  <2>1. ~Queues(x, "cancel") /\ x.conversation.pending.question = None
    BY <1>1, <1>3 DEF Queues, NoTurn
  <2>2. QED
    BY <1>3, <2>1, SavingInv DEF Savers
<1>5. p.conversation.id = o.conversation.id
  BY <1>3 DEF Saving, Instance
<1> HIDE DEF p
<1>6. /\ history' \in History /\ UNCHANGED <<SavedPast, history.sent, history.resent>>
      /\ history'.used = history.used
      /\ \/ history'.cancelled = h
         \/ row.conversation.id = o.conversation.id /\ history'.cancelled = [h EXCEPT ![key] = h[key] + 1]
  <2>1. history \in History /\ h \in [Conversations \X Cancels -> Nat] /\ key \in Conversations \X Cancels
    BY <1>1 DEF AssistantInv, Types, History
  <2>2. [h EXCEPT ![key] = h[key] + 1] \in [Conversations \X Cancels -> Nat]
    BY <2>1
  <2>3. QED
    BY <1>2, <2>1, <2>2 DEF History, SavedPast
<1>7. /\ Types' /\ RowInv' /\ PastInv' /\ GrantInv'
      /\ \A j \in Objects : ObjectInv(object[j])'
  BY <1>1, <1>2, <1>4, <1>5, <1>6, StepInv DEF Edit
<1>8. CommandInv'
  <2>1. CASE history'.cancelled = h
    BY <1>2, <1>6, <2>1, RecordedInv DEF AssistantInv, SavedPast
  <2>2. CASE row.conversation.id = o.conversation.id /\ history'.cancelled = [h EXCEPT ![key] = h[key] + 1]
    <3>1. h[key] = 0
      BY <1>1, <1>2, <2>2 DEF AssistantInv, CommandInv, RowInv
    <3>2. h \in [Conversations \X Cancels -> Nat] /\ key \in Conversations \X Cancels
      BY <1>1 DEF AssistantInv, Types, History
    <3>3. SUFFICES ASSUME NEW c \in Conversations, NEW l \in Cancels
                   PROVE  /\ history'.cancelled[<<c, l>>] <= 1
                          /\ history'.cancelled[<<c, l>>] # 0
                               => c \in history'.ended \/ (c = row'.conversation.id /\ <<c, l>> \in command')
      BY DEF CommandInv
    <3>4. CASE <<c, l>> = key
      BY <1>2, <2>2, <3>1, <3>2, <3>4
    <3>5. CASE <<c, l>> # key
      <4>1. history'.cancelled[<<c, l>>] = h[<<c, l>>]
        BY <2>2, <3>2, <3>5
      <4>2. QED
        BY <1>2, <1>6, <4>1 DEF AssistantInv, CommandInv, SavedPast
    <3>6. QED
      BY <3>4, <3>5
  <2>3. QED
    BY <1>6, <2>1, <2>2
<1>9. QED
  BY <1>7, <1>8 DEF AssistantInv

\* A tick cancels the turn past its deadline, or ends the conversation.
LEMMA TickInv ==
  ASSUME AssistantInv, NEW i \in Objects, TurnTimeout(i) \/ TickEnds(i)
  PROVE  AssistantInv'
<1> DEFINE o == object[i]
<1>1. o \in Instance /\ ObjectInv(o) /\ ~Queues(o, "task")
  BY ObjectFacts, MayQueueIs DEF TurnTimeout, TickEnds, Ticks
<1>2. row' = row /\ command' = command /\ history' = history
  BY DEF TurnTimeout, TickEnds, d1Vars
<1>3. ASSUME NEW x \in Instance, ObjectInv(x), x.saves = o.saves, x.conversation.id = o.conversation.id,
             Granted(x) => Granted(o) /\ Key(x) = Key(o), Edit(i, Saving(x, "task"))
      PROVE  AssistantInv'
  <2> DEFINE p == Saving(x, "task")
  <2>1. ~Queues(x, "task")
    BY <1>1, <1>3 DEF Queues
  <2>2. /\ p \in Instance /\ ObjectInv(p)
        /\ Granted(p) => Granted(o) /\ Key(p) = Key(o)
    BY <1>3, <2>1, SavingInv DEF Savers
  <2>3. p.conversation.id = o.conversation.id
    BY <1>3 DEF Saving, Instance
  <2>4. Edit(i, p)
    BY <1>3
  <2> HIDE DEF p
  <2>5. QED
    BY <1>2, <2>2, <2>3, <2>4, ObjectFacts, ChangeInv
<1>4. CASE TurnTimeout(i)
  <2> DEFINE x == Cancelled(o)
  <2>1. Edit(i, Saving(x, "task")) /\ o.conversation.pending # NoTurn
    BY <1>4 DEF TurnTimeout, Pending
  <2>2. o.conversation.pending.question # None
    BY <1>1, <2>1, AssistantAssumption DEF ObjectInv, LocalInv, MemoryInv, TurnIsKnown
  <2>3. ~Queues(o, "cancel")
    BY <1>1, <2>2, CancelWaits DEF ObjectInv, LocalInv
  <2>4. /\ x \in Instance /\ ObjectInv(x) /\ x.saves = o.saves
        /\ x.conversation.id = o.conversation.id
        /\ Granted(x) => Granted(o) /\ Key(x) = Key(o)
    BY <1>1, <2>3, CancelledInv
  <2> HIDE DEF x
  <2>5. QED
    BY <1>3, <2>1, <2>4
<1>5. CASE TickEnds(i)
  <2> DEFINE x == [o EXCEPT !.over = TRUE]
  <2>1. Edit(i, Saving(x, "task"))
    BY <1>5 DEF TickEnds, EndOwned
  <2>2. x \in Instance /\ ObjectInv(x) /\ ~Granted(x) /\ x.saves = o.saves
        /\ x.conversation.id = o.conversation.id
    BY <1>1, OverInv
  <2> HIDE DEF x
  <2>3. QED
    BY <1>3, <2>1, <2>2
<1>6. QED
  BY <1>4, <1>5

\* The sweep loads the user it takes, and retires what must not run.
LEMMA SweepStartInv ==
  ASSUME AssistantInv, NEW i \in Objects, SweepStart(i)
  PROVE  AssistantInv'
<1>1. row' = row /\ command' = command /\ Started
  BY DEF SweepStart
<1>2. CASE Edit(i, Loaded("sweep"))
  <2> DEFINE p == Loaded("sweep")
  <2>1. /\ p \in Instance /\ p.conversation = row.conversation /\ p.role = "sweep"
        /\ p.questions = row.questions /\ p.saves = <<>> /\ p.payload = None /\ p.turn = None
    BY LoadedFields DEF AssistantInv, Roles
  <2> HIDE DEF p
  <2>2. ObjectInv(p) /\ ~Granted(p)
    BY <2>1, LoadedInv
  <2>3. QED
    BY <1>1, <1>2, <2>1, <2>2, ObjectFacts, ChangeInv DEF p
<1>3. CASE Edit(i, EndOwned(Loaded("sweep"), "task"))
  <2> DEFINE p == EndOwned(Loaded("sweep"), "task")
  <2>1. p \in Instance /\ ObjectInv(p) /\ ~Granted(p) /\ p.conversation.id = row.conversation.id
    BY RetiredInv
  <2> HIDE DEF p
  <2>2. QED
    BY <1>1, <1>3, <2>1, ObjectFacts, ChangeInv DEF p
<1>4. QED
  BY <1>2, <1>3 DEF SweepStart

\* A pump step that ends in a save.
LEMMA PumpSavesStep ==
  ASSUME AssistantInv, NEW i \in Objects, NEW x \in Instance, ObjectInv(x),
         x.pump \in {"running", "submit", "waiting"},
         x.conversation.id = object[i].conversation.id, NEW pc \in PumpStates,
         pc = "submit" => /\ x.conversation.pending.stage = "requesting"
                          /\ x.fresh => ~Spent(Key(x)),
         PumpSaves(i, x, pc), row' = row, command' = command, history' = history
  PROVE  AssistantInv'
<1> DEFINE p == Saving([x EXCEPT !.pump = "saving", !.next = pc], "pump")
<1>1. Edit(i, p)
  BY DEF PumpSaves
<1>2. p \in Instance /\ ObjectInv(p) /\ ~Granted(p) /\ p.conversation.id = x.conversation.id
  BY PumpSavesInv
<1> HIDE DEF p
<1>3. QED
  BY <1>1, <1>2, ObjectFacts, ChangeInv

\* The pump gives the turn up or answers it.
LEMMA PumpSettles ==
  ASSUME AssistantInv, NEW i \in Objects, OnTurn(object[i]),
         object[i].pump \in {"running", "submit", "waiting"},
         PumpSaves(i, Cancelled(object[i]), "done") \/ PumpSaves(i, Answered(object[i]), "done"),
         row' = row, command' = command, history' = history
  PROVE  AssistantInv'
<1> DEFINE o == object[i]
<1>1. o \in Instance /\ ObjectInv(o) /\ o.turn \in Questions /\ o.conversation.pending.question = o.turn
  BY ObjectFacts DEF OnTurn, Instance
<1>2. ~Queues(o, "cancel") /\ o.turn # None
  BY <1>1, CancelWaits, AssistantAssumption DEF ObjectInv, LocalInv, OnTurn
<1>3. CASE PumpSaves(i, Cancelled(o), "done")
  <2> DEFINE x == Cancelled(o)
  <2>1. x \in Instance /\ ObjectInv(x) /\ x.pump = o.pump /\ x.conversation.id = o.conversation.id
    BY <1>1, <1>2, CancelledInv
  <2>2. PumpSaves(i, x, "done")
    BY <1>3
  <2> HIDE DEF x
  <2>3. QED
    BY <2>1, <2>2, PumpSavesStep DEF PumpStates
<1>4. CASE PumpSaves(i, Answered(o), "done")
  <2> DEFINE x == [o EXCEPT !.conversation = Settled(o.conversation, o.turn, "answered")]
  <2>1. x \in Instance /\ ObjectInv(x)
    BY <1>1, <1>2, SettledInv
  <2>2. x.pump = o.pump /\ x.conversation.id = o.conversation.id
    BY <1>1 DEF Instance, Settled, Conversation
  <2>3. PumpSaves(i, x, "done")
    BY <1>4 DEF Answered
  <2> HIDE DEF x
  <2>4. QED
    BY <2>1, <2>2, <2>3, PumpSavesStep DEF PumpStates
<1>5. QED
  BY <1>3, <1>4

\* pump: the pending turn is taken up.
LEMMA PumpStartInv ==
  ASSUME AssistantInv, NEW i \in Objects, PumpStart(i)
  PROVE  AssistantInv'
<1> DEFINE o == object[i]
           p == [o EXCEPT !.pump = "running", !.turn = o.conversation.pending.question]
<1>1. /\ o \in Instance /\ ObjectInv(o) /\ ~Queues(o, "task") /\ o.pump = "idle"
      /\ o.conversation.pending # NoTurn
  BY ObjectFacts, MayQueueIs DEF PumpStart, Ticks, Pumping, Pending
<1>2. o.conversation.pending.question \in Questions /\ o.conversation.pending.question # None
  BY <1>1, AssistantAssumption DEF ObjectInv, LocalInv, MemoryInv, TurnIsKnown
<1>3. ~Queues(o, "cancel")
  BY <1>1, <1>2, CancelWaits DEF ObjectInv, LocalInv
<1>4. row' = row /\ command' = command /\ history' = history /\ Edit(i, p)
  BY DEF PumpStart, Pending
<1>5. /\ p \in Instance
      /\ p.role = o.role /\ p.conversation = o.conversation /\ p.over = o.over
      /\ p.questions = o.questions /\ p.fresh = o.fresh /\ p.payload = o.payload
      /\ p.pump = "running" /\ p.turn = o.conversation.pending.question /\ p.saves = o.saves
  BY <1>1, <1>2 DEF Instance, PumpStates
<1> HIDE DEF p
<1>6. ObjectInv(p) /\ ~Granted(p)
  BY <1>1, <1>2, <1>3, <1>5, PumpInv
<1>7. QED
  BY <1>4, <1>5, <1>6, ObjectFacts, ChangeInv

\* The pump is over, or stops without a save.
LEMMA PumpStopsInv ==
  ASSUME AssistantInv, NEW i \in Objects,
         \/ PumpDone(i)
         \/ /\ object[i].pump \in {"running", "submit", "waiting"} /\ PumpGoes(i, "done")
            /\ UNCHANGED <<d1Vars, history>>
  PROVE  AssistantInv'
<1> DEFINE o == object[i]
<1>1. o \in Instance /\ ObjectInv(o)
  BY ObjectFacts
<1>2. row' = row /\ command' = command /\ history' = history
  BY DEF PumpDone, d1Vars
<1>3. ASSUME NEW p \in Instance, Edit(i, p), p.conversation = o.conversation, p.over = o.over,
             p.questions = o.questions, p.fresh = o.fresh, p.saves = o.saves, p.payload = o.payload,
             p.role = o.role, p.pump \in {"idle", "done"}, p.turn \in {o.turn, None}, o.pump # "saving"
      PROVE  AssistantInv'
  <2>1. ObjectInv(p) /\ ~Granted(p)
    BY <1>1, <1>3, PumpInv
  <2>2. QED
    BY <1>2, <1>3, <2>1, ObjectFacts, ChangeInv
<1>4. CASE PumpDone(i)
  <2> DEFINE p == [o EXCEPT !.pump = "idle", !.turn = None]
  <2>1. Edit(i, p) /\ o.pump = "done"
    BY <1>4 DEF PumpDone
  <2>2. /\ p \in Instance
        /\ p.role = o.role /\ p.conversation = o.conversation /\ p.over = o.over
        /\ p.questions = o.questions /\ p.fresh = o.fresh /\ p.payload = o.payload
        /\ p.pump = "idle" /\ p.turn = None /\ p.saves = o.saves
    BY <1>1 DEF Instance, PumpStates
  <2> HIDE DEF p
  <2>3. QED
    BY <1>3, <2>1, <2>2
<1>5. CASE o.pump \in {"running", "submit", "waiting"} /\ PumpGoes(i, "done")
  <2> DEFINE p == [o EXCEPT !.pump = "done"]
  <2>1. Edit(i, p)
    BY <1>5 DEF PumpGoes
  <2>2. /\ p \in Instance
        /\ p.role = o.role /\ p.conversation = o.conversation /\ p.over = o.over
        /\ p.questions = o.questions /\ p.fresh = o.fresh /\ p.payload = o.payload
        /\ p.pump = "done" /\ p.turn = o.turn /\ p.saves = o.saves
    BY <1>1 DEF Instance, PumpStates
  <2> HIDE DEF p
  <2>3. QED
    BY <1>3, <1>5, <2>1, <2>2
<1>6. QED
  BY <1>4, <1>5

\* The rounds of a turn: each checkpoint is ahead of everything submitted.
LEMMA PumpTurnInv ==
  ASSUME AssistantInv, NEW i \in Objects,
         RouteTurn(i) \/ RunTurn(i) \/ Receive(i) \/ PublishTurn(i) \/ PumpFails(i)
  PROVE  AssistantInv'
<1> DEFINE o == object[i]
           t == o.conversation.pending
<1>1. /\ o \in Instance /\ ObjectInv(o) /\ t \in Turn /\ t.round \in Nat
  BY ObjectFacts DEF Instance, Conversation, Turn
<1>2. /\ row' = row /\ command' = command /\ history' = history
      /\ o.pump \in {"running", "submit", "waiting"}
  BY DEF RouteTurn, RunTurn, Receive, PublishTurn, PumpFails, d1Vars
<1>3. TurnValid(i) => OnTurn(o)
  BY DEF TurnValid, OnTurn, Pending
<1>4. ASSUME NEW stage \in Stages, NEW round \in Nat, NEW pc \in PumpStates, OnTurn(o),
             o.pump \in {"running", "waiting"}, PumpSaves(i, AtStage(o, stage, round), pc),
             \A r \in Nat : r < t.round \/ (r = t.round /\ t.stage = "requesting")
                              => r < round \/ (r = round /\ stage = "requesting"),
             pc = "submit" => stage = "requesting" /\ round = t.round /\ t.stage # "requesting"
      PROVE  AssistantInv'
  <2> DEFINE x == AtStage(o, stage, round)
             s == [t EXCEPT !.stage = stage, !.round = round]
             d == [o.conversation EXCEPT !.pending = s]
  <2>1. s \in Turn /\ s.question = t.question /\ s.stage = stage /\ s.round = round
    BY <1>1 DEF Turn
  <2>a. x = [o EXCEPT !.conversation = d]
    BY DEF AtStage
  <2>b. PumpSaves(i, x, pc)
    BY <1>4
  <2> HIDE DEF s, x
  <2>c. /\ d \in Conversation /\ d.id = o.conversation.id /\ d.pending = s
        /\ d.messages = o.conversation.messages
    BY <1>1, <2>1 DEF Instance, Conversation
  <2> HIDE DEF d
  <2>2. o.fresh => Beyond(o.conversation.id, s)
    BY <1>1, <1>4, <2>1 DEF Beyond, ObjectInv, FreshInv, FreshSent
  <2>3. /\ x \in Instance /\ ObjectInv(x) /\ x.pump = o.pump /\ x.fresh = o.fresh
        /\ x.conversation.pending.stage = stage /\ x.conversation.id = o.conversation.id
        /\ Key(x) = <<o.conversation.id, o.turn, round>>
    <3>1. OnTurn(o) /\ o.pump \in {"running", "waiting"}
      BY <1>4
    <3>2. QED
      BY <1>1, <2>1, <2>2, <2>a, <2>c, <3>1, StageInv
  <2>4. pc = "submit" /\ o.fresh => ~Spent(<<o.conversation.id, o.turn, round>>)
    BY <1>1, <1>4 DEF Beyond, ObjectInv, FreshInv, FreshSent, OnTurn
  <2>5. QED
    BY <1>2, <1>4, <2>3, <2>4, <2>b, PumpSavesStep
<1>5. CASE RouteTurn(i)
  <2>1. OnTurn(o) /\ t.stage = "new" /\ o.pump = "running"
    BY <1>3, <1>5 DEF RouteTurn, Pending
  <2>2. CASE PumpSaves(i, AtStage(o, "routed", t.round), "running")
    BY <1>1, <1>4, <2>1, <2>2 DEF Stages, PumpStates
  <2>3. CASE PumpSaves(i, Answered(o), "done")
    BY <1>2, <2>1, <2>3, PumpSettles
  <2>4. QED
    BY <1>5, <2>2, <2>3 DEF RouteTurn, Pending
<1>6. CASE RunTurn(i)
  <2>1. OnTurn(o) /\ o.pump = "running"
    BY <1>3, <1>6 DEF RunTurn
  <2>2. CASE PumpSaves(i, AtStage(o, "requesting", t.round), "submit") /\ MaySubmit(t)
    BY <1>1, <1>4, <2>1, <2>2 DEF Stages, PumpStates, MaySubmit
  <2>3. CASE PumpSaves(i, Cancelled(o), "done")
    BY <1>2, <2>1, <2>3, PumpSettles
  <2>4. QED
    BY <1>6, <2>2, <2>3 DEF RunTurn, Pending
<1>7. CASE Receive(i)
  <2>1. OnTurn(o) /\ o.pump = "waiting" /\ PumpSaves(i, AtStage(o, "received", t.round + 1), "running")
    BY <1>3, <1>7 DEF Receive, Pending
  <2>2. t.round + 1 \in Nat /\ \A r \in Nat : r < t.round \/ r = t.round => r < t.round + 1
    BY <1>1
  <2>3. QED
    BY <1>4, <2>1, <2>2 DEF Stages, PumpStates
<1>8. CASE PublishTurn(i)
  <2>1. OnTurn(o) /\ PumpSaves(i, Answered(o), "done")
    BY <1>3, <1>8 DEF PublishTurn
  <2>2. QED
    BY <1>2, <2>1, PumpSettles
<1>9. CASE PumpFails(i)
  <2>1. CASE PumpGoes(i, "done")
    BY <1>2, <1>9, <2>1, PumpStopsInv DEF PumpFails
  <2>2. CASE TurnValid(i) /\ PumpSaves(i, Cancelled(o), "done")
    BY <1>2, <1>3, <2>2, PumpSettles
  <2>3. QED
    BY <1>9, <2>1, <2>2 DEF PumpFails
<1>10. QED
  BY <1>5, <1>6, <1>7, <1>8, <1>9

\* The submission uses the grant of its round, which nobody else has.
LEMMA SubmitInv ==
  ASSUME AssistantInv, NEW i \in Objects, Submit(i)
  PROVE  AssistantInv'
<1> DEFINE o == object[i]
           p == [o EXCEPT !.pump = "waiting"]
           k == Key(o)
<1>1. o \in Instance /\ ObjectInv(o)
  BY ObjectFacts
<1>2. o.pump = "submit" /\ OnTurn(o) /\ Granted(o)
  BY DEF Submit, TurnValid, OnTurn, Granted, Pending
<1>3. k \notin history.sent
  BY <1>2 DEF AssistantInv, GrantInv
<1>4. k \in Conversations \X Questions \X Nat /\ k[1] = o.conversation.id /\ k[1] \in history.used
  <2>1. o.conversation.pending.question \in Questions /\ o.turn \in Questions /\ o.conversation.id # None
    BY <1>1, <1>2, AssistantAssumption
       DEF OnTurn, ObjectInv, LocalInv, MemoryInv, TurnIsKnown, NoTurn, Instance
  <2>2. o.conversation.id \in history.used /\ o.conversation.id \in Conversations
    BY <2>1, ObjectFacts DEF AssistantInv, Types, History
  <2>3. o.conversation.pending.round \in Nat
    BY <1>1 DEF Instance, Conversation, Turn
  <2>4. QED
    BY <2>1, <2>2, <2>3 DEF Key
<1>5. /\ row' = row /\ command' = command /\ Edit(i, p)
      /\ history' = [history EXCEPT !.sent = history.sent \union {k}, !.resent = history.resent]
  BY <1>3 DEF Submit, PumpGoes, d1Vars, Key, Pending
<1>6. /\ history' \in History /\ UNCHANGED SavedPast /\ history'.sent = history.sent \union {k}
      /\ history'.resent = history.resent /\ history'.used = history.used
      /\ history'.cancelled = history.cancelled
  <2>1. history \in History
    BY DEF AssistantInv, Types
  <2>2. history.sent \union {k} \in SUBSET (Conversations \X Questions \X Nat)
    BY <1>4, <2>1 DEF History
  <2> HIDE DEF k
  <2>3. QED
    BY <1>5, <2>1, <2>2 DEF History, SavedPast
<1>7. /\ p \in Instance
      /\ p.role = o.role /\ p.conversation = o.conversation /\ p.over = o.over
      /\ p.questions = o.questions /\ p.fresh = o.fresh /\ p.payload = o.payload
      /\ p.pump = "waiting" /\ p.turn = o.turn /\ p.saves = o.saves
  BY <1>1 DEF Instance, PumpStates
<1>8. object' = [object EXCEPT ![i] = p]
  BY <1>5 DEF Edit
<1> HIDE DEF p, k
<1>9. ObjectInv(p) /\ ~Granted(p)
  BY <1>1, <1>2, <1>7, PumpInv
<1>10. Types' /\ \A j \in Objects : object'[j] = IF j = i THEN p ELSE object[j]
  BY <1>5, <1>6, <1>7, <1>8 DEF AssistantInv, Types
<1>11. ASSUME NEW key, Spent(key)' PROVE Spent(key)
  <2>1. CASE key \in history'.sent
    BY <1>2, <1>6, <2>1 DEF Spent, k
  <2>2. CASE \E j \in Objects : Granted(object'[j]) /\ Key(object'[j]) = key
    BY <1>9, <1>10, <2>2 DEF Spent
  <2>3. QED
    BY <1>11, <2>1, <2>2 DEF Spent, Granted, OnTurn, Key
<1>12. RowInv' /\ \A x : ObjectInv(x) => ObjectInv(x)'
  BY <1>5, <1>6, <1>11, FrameInv DEF AssistantInv
<1>13. \A j \in Objects : ObjectInv(object[j])'
  BY <1>9, <1>10, <1>12 DEF AssistantInv
<1>14. PastInv'
  <2>1. \A j \in Objects : object'[j].conversation.id = object[j].conversation.id
    BY <1>7, <1>10
  <2>2. ASSUME NEW c \in Conversations, NEW q \in Questions, NEW r \in Nat, <<c, q, r>> \in history'.sent
        PROVE  c \in history'.used
    BY <1>4, <1>6, <2>2 DEF AssistantInv, PastInv
  <2>3. QED
    BY <1>5, <1>6, <2>1, <2>2 DEF AssistantInv, PastInv, SavedPast
<1>15. GrantInv'
  <2>1. ASSUME NEW j \in Objects, Granted(object'[j])
        PROVE  Key(object'[j]) \notin history'.sent /\ j # i /\ object'[j] = object[j]
    BY <1>2, <1>6, <1>9, <1>10, <2>1 DEF AssistantInv, GrantInv, k
  <2>2. QED
    BY <1>6, <2>1 DEF AssistantInv, GrantInv
<1>16. CommandInv'
  BY <1>5, <1>6, RecordedInv DEF AssistantInv, SavedPast
<1>17. QED
  BY <1>10, <1>12, <1>13, <1>14, <1>15, <1>16 DEF AssistantInv

\* requestEnd: every copy in memory goes stale, and the row stays.
LEMMA RequestEndInv ==
  ASSUME AssistantInv, NEW i \in Objects, RequestEnd(i)
  PROVE  AssistantInv'
<1> DEFINE e == [NoObject EXCEPT !.role = "ending"]
<1>1. /\ row' = row /\ command' = command /\ Started
      /\ object' = [j \in Objects |-> IF j = i THEN e ELSE Stale(object[j])]
  BY DEF RequestEnd
<1>2. e \in Instance /\ ~Granted(e) /\ ObjectInv(e) /\ e.conversation.id = None
  <2>1. NoObject \in Instance /\ NoObject.conversation = NoConversation /\ NoConversation.id = None
    BY NoObjectInv DEF NoObject, NoConversation
  <2>2. e.conversation = NoConversation
    BY <2>1 DEF Instance
  <2>3. QED
    BY <2>1, <2>2, NoObjectInv
<1> HIDE DEF e
<1>3. ASSUME NEW j \in Objects, j # i
      PROVE  /\ object'[j] \in Instance /\ ObjectInv(object'[j])
             /\ object'[j].conversation.id = object[j].conversation.id
             /\ Granted(object'[j]) = Granted(object[j]) /\ Key(object'[j]) = Key(object[j])
  <2> DEFINE p == Stale(object[j])
  <2>1. object'[j] = p
    BY <1>1, <1>3
  <2>2. /\ p \in Instance /\ ObjectInv(p) /\ p.conversation.id = object[j].conversation.id
        /\ Granted(p) = Granted(object[j]) /\ Key(p) = Key(object[j])
    BY ObjectFacts, StaleInv DEF ObjectInv
  <2>3. QED
    BY <2>1, <2>2
<1>4. object'[i] = e
  BY <1>1
<1>5. /\ history' \in History /\ UNCHANGED <<SavedPast, history.sent, history.resent>>
      /\ history'.used = history.used /\ history'.cancelled = history.cancelled
  BY <1>1 DEF Started, AssistantInv, Types, History, SavedPast
<1>6. Types'
  <2>1. \A j \in Objects : object'[j] \in Instance
    BY <1>2, <1>3, <1>4
  <2>2. object' \in [Objects -> Instance]
    BY <1>1, <2>1
  <2>3. QED
    BY <1>1, <1>5, <2>2 DEF AssistantInv, Types
<1>7. ASSUME NEW j \in Objects, Granted(object'[j])
      PROVE  j # i /\ Granted(object[j]) /\ Key(object'[j]) = Key(object[j])
  BY <1>2, <1>3, <1>4, <1>7
<1>8. ASSUME NEW key, Spent(key)' PROVE Spent(key)
  <2>1. key \in history'.sent \/ \E j \in Objects : Granted(object'[j]) /\ Key(object'[j]) = key
    BY <1>8 DEF Spent, Granted, OnTurn, Key
  <2>2. QED
    BY <1>5, <1>7, <2>1 DEF Spent
<1>9. RowInv' /\ \A x : ObjectInv(x) => ObjectInv(x)'
  BY <1>1, <1>5, <1>8, FrameInv DEF AssistantInv
<1>10. \A j \in Objects : ObjectInv(object[j])'
  BY <1>2, <1>3, <1>4, <1>9
<1>11. PastInv'
  BY <1>1, <1>2, <1>3, <1>4, <1>5 DEF AssistantInv, PastInv, SavedPast
<1>12. GrantInv'
  BY <1>5, <1>7 DEF AssistantInv, GrantInv
<1>13. CommandInv'
  BY <1>1, <1>5, RecordedInv DEF AssistantInv, SavedPast
<1>14. QED
  BY <1>6, <1>9, <1>10, <1>11, <1>12, <1>13 DEF AssistantInv

\* The first half of a save.
LEMMA SaveStartInv ==
  ASSUME AssistantInv, NEW i \in Objects, SaveStart(i)
  PROVE  AssistantInv'
<1> DEFINE o == object[i]
           p == [o EXCEPT !.payload = IF o.over THEN NoConversation ELSE o.conversation]
<1>1. o \in Instance /\ ObjectInv(o) /\ o.saves # <<>> /\ o.payload = None
  BY ObjectFacts DEF SaveStart
<1>2. row' = row /\ command' = command /\ history' = history /\ Edit(i, p)
  BY DEF SaveStart, d1Vars
<1>3. /\ p \in Instance /\ ObjectInv(p) /\ p.conversation.id = o.conversation.id
      /\ Granted(p) => Granted(o) /\ Key(p) = Key(o)
  BY <1>1, PayloadTakenInv
<1> HIDE DEF p
<1>4. QED
  BY <1>2, <1>3, ObjectFacts, ChangeInv

\* The first state: nothing runs, and nothing has happened.
LEMMA AssistantInit == Init => AssistantInv
<1> SUFFICES ASSUME Init PROVE AssistantInv
  OBVIOUS
<1>1. /\ NoObject \in Instance /\ ~Granted(NoObject) /\ ObjectInv(NoObject)
      /\ NoObject.conversation.id = None
  BY NoObjectInv DEF NoObject, NoConversation
<1>2. NoConversation \in Conversation /\ NoConversation.id = None /\ NoConversation.pending = NoTurn
      /\ NoTurn.question = None /\ \A q \in Questions : NoConversation.messages[q] = "none"
  BY AssistantAssumption DEF NoConversation, Conversation, NoTurn, Turn, Stages, Turns
<1>3. /\ row \in [conversation : Conversation, questions : Nat] /\ row.questions = 0
      /\ row.conversation.id = None => row.conversation = NoConversation
      /\ row.conversation.pending = NoTurn /\ \A q \in Questions : row.conversation.messages[q] = "none"
  <2>1. PICK d \in {NoConversation} \union {NewConversation(c, TRUE) : c \in Conversations} :
          row = [conversation |-> d, questions |-> 0]
    BY DEF Init
  <2>2. /\ d \in Conversation /\ (d.id = None => d = NoConversation)
        /\ d.pending = NoTurn /\ \A q \in Questions : d.messages[q] = "none"
    <3>1. CASE d = NoConversation
      BY <1>2, <3>1
    <3>2. ASSUME NEW c \in Conversations, d = NewConversation(c, TRUE)
          PROVE  /\ d \in Conversation /\ d.id # None
                 /\ d.pending = NoTurn /\ \A q \in Questions : d.messages[q] = "none"
      BY <1>2, <3>2, AssistantAssumption DEF NewConversation, Conversation
    <3>3. QED
      BY <3>1, <3>2
  <2>3. QED
    BY <2>1, <2>2
<1>4. /\ history \in History /\ history.used = {row.conversation.id} \ {None} /\ history.ended = {}
      /\ history.asked = {} /\ history.settled = {} /\ history.sent = {} /\ history.resent = {}
      /\ \A key \in Conversations \X Cancels : history.cancelled[key] = 0
  <2>1. {row.conversation.id} \ {None} \in SUBSET Conversations
    BY <1>3 DEF Conversation
  <2>2. QED
    BY <2>1 DEF Init, History
<1>5. object \in [Objects -> Instance] /\ \A i \in Objects : object[i] = NoObject
  BY <1>1 DEF Init
<1>6. ASSUME NEW key PROVE ~Spent(key)
  BY <1>1, <1>4, <1>5 DEF Spent
<1>7. Types /\ \A i \in Objects : ObjectInv(object[i])
  BY <1>1, <1>3, <1>4, <1>5 DEF Types
<1>8. RowInv
  <2>1. IsFiniteSet({}) /\ Cardinality({}) = 0
    BY FS_EmptySet
  <2>2. TurnIsKnown(row.conversation)
    BY <1>2, <1>3, AssistantAssumption DEF TurnIsKnown
  <2>3. Beyond(row.conversation.id, row.conversation.pending)
    BY <1>2, <1>3 DEF Beyond
  <2>4. QED
    BY <1>3, <1>4, <1>6, <2>1, <2>2, <2>3, AssistantAssumption DEF RowInv
<1>9. PastInv /\ GrantInv /\ CommandInv
  BY <1>1, <1>4, <1>5 DEF PastInv, GrantInv, CommandInv
<1>10. QED
  BY <1>7, <1>8, <1>9 DEF AssistantInv

-----------------------------------------------------------------------------
(* The second half of a save                                               *)

\* Who waited goes on: the queue moves up, and nothing else of the object.
LEMMA ResumedInv ==
  ASSUME NEW o \in Instance, LocalInv(o), o.saves # <<>>,
         NEW p \in Instance, p.role = o.role, p.conversation = o.conversation, p.over = o.over,
         p.turn = o.turn, p.saves = Tail(o.saves), p.payload = None,
         Head(o.saves) = "pump" => p.next = "idle",
         Head(o.saves) # "pump" => p.pump = o.pump /\ p.next = o.next
  PROVE  LocalInv(p)
<1>1. o.saves \in Seq(Savers) /\ Len(o.saves) \in Nat \ {0} /\ Head(o.saves) = o.saves[1]
  BY DEF Instance
<1>2. /\ Len(p.saves) = Len(o.saves) - 1
      /\ \A m \in 1..Len(p.saves) : m + 1 \in 1..Len(o.saves) /\ p.saves[m] = o.saves[m + 1]
  BY <1>1
<1>3. QueueInv(o) /\ MemoryInv(o) /\ CancelInv(o)
  BY DEF LocalInv
<1>4. \A m \in 1..Len(p.saves) : p.saves[m] # Head(o.saves)
  <2> SUFFICES ASSUME NEW m \in 1..Len(p.saves), p.saves[m] = Head(o.saves) PROVE FALSE
    OBVIOUS
  <2>1. m \in Nat /\ m + 1 # 1 /\ 1 \in 1..Len(o.saves) /\ o.saves[m + 1] = o.saves[1]
    BY <1>1, <1>2
  <2>2. QED
    BY <1>2, <1>3, <2>1 DEF QueueInv
<1>5. QueueInv(p)
  <2>1. ASSUME NEW m \in 1..Len(p.saves), NEW n \in 1..Len(p.saves), p.saves[m] = p.saves[n]
        PROVE  m = n
    <3>1. m + 1 = n + 1
      BY <1>2, <1>3, <2>1 DEF QueueInv
    <3>2. QED
      BY <1>1, <1>2, <3>1
  <2>2. ASSUME Queues(p, "pump") PROVE p.pump = "saving"
    <3>1. Queues(o, "pump") /\ Head(o.saves) # "pump"
      BY <1>2, <1>4, <2>2 DEF Queues
    <3>2. QED
      BY <1>3, <3>1 DEF QueueInv
  <2>3. QED
    BY <2>1, <2>2 DEF QueueInv, HasPayload
<1>6. MemoryInv(p)
  BY <1>3 DEF MemoryInv, OnTurn
<1>7. PayloadInv(p)
  BY DEF PayloadInv, HasPayload, KeepsPayload
<1>8. CancelInv(p)
  <2>1. ASSUME NEW m \in 1..Len(p.saves), p.saves[m] = "cancel", p.conversation.pending.question # None
        PROVE  /\ \E n \in 1..Len(p.saves) : m < n /\ p.saves[n] = "task"
               /\ p.conversation.messages[p.conversation.pending.question] = "asked"
               /\ p.turn # p.conversation.pending.question
    <3>1. /\ \E n \in 1..Len(o.saves) : m + 1 < n /\ o.saves[n] = "task"
          /\ o.conversation.messages[o.conversation.pending.question] = "asked"
          /\ o.turn # o.conversation.pending.question
      BY <1>2, <1>3, <2>1 DEF CancelInv
    <3>2. PICK n \in 1..Len(o.saves) : m + 1 < n /\ o.saves[n] = "task"
      BY <3>1
    <3>3. n - 1 \in 1..Len(p.saves) /\ m < n - 1 /\ p.saves[n - 1] = "task"
      <4>1. n - 1 \in 1..Len(p.saves) /\ m < n - 1 /\ (n - 1) + 1 = n
        BY <1>1, <1>2, <3>2
      <4>2. QED
        BY <1>2, <3>2, <4>1
    <3>4. QED
      BY <3>1, <3>3
  <2>2. QED
    BY <2>1 DEF CancelInv, KeepsPayload
<1>9. QED
  BY <1>5, <1>6, <1>7, <1>8 DEF LocalInv

\* The object that saved, field by field.
LEMMA ResumeFields ==
  ASSUME NEW i \in Objects, NEW o \in Instance, o.saves # <<>>, Head(o.saves) # "request",
         NEW p, p \in {Resume(i, o, TRUE), Resume(i, o, FALSE)}
  PROVE  /\ p \in Instance /\ p.role = o.role /\ p.conversation = o.conversation
         /\ p.over = o.over /\ p.questions = o.questions /\ p.fresh = o.fresh
         /\ p.turn = o.turn /\ p.saves = Tail(o.saves) /\ p.payload = None
         /\ Head(o.saves) = "pump" => p.next = "idle"
         /\ Head(o.saves) # "pump" => p.pump = o.pump /\ p.next = o.next
         /\ Head(o.saves) = "pump" /\ p = Resume(i, o, TRUE) => p.pump = o.next
         /\ Head(o.saves) = "pump" /\ p = Resume(i, o, FALSE) => p.pump = "done"
<1> DEFINE s == Tail(o.saves)
           x == [o EXCEPT !.saves = s, !.payload = None]
           y(pc) == [x EXCEPT !.pump = pc, !.next = "idle"]
<1>1. s \in Seq(Savers)
  BY DEF Instance
<1>2. /\ Head(o.saves) # "pump" => p = x
      /\ Head(o.saves) = "pump" => /\ Resume(i, o, TRUE) = y(o.next)
                                   /\ Resume(i, o, FALSE) = y("done")
  BY DEF Resume
<1> HIDE DEF s
<1>3. /\ x \in Instance /\ x.role = o.role /\ x.conversation = o.conversation
      /\ x.over = o.over /\ x.questions = o.questions /\ x.fresh = o.fresh
      /\ x.turn = o.turn /\ x.saves = s /\ x.payload = None /\ x.pump = o.pump /\ x.next = o.next
  BY <1>1 DEF Instance
<1> HIDE DEF x
<1>4. ASSUME NEW pc \in PumpStates
      PROVE  /\ y(pc) \in Instance /\ y(pc).role = o.role /\ y(pc).conversation = o.conversation
             /\ y(pc).over = o.over /\ y(pc).questions = o.questions /\ y(pc).fresh = o.fresh
             /\ y(pc).turn = o.turn /\ y(pc).saves = s /\ y(pc).payload = None
             /\ y(pc).pump = pc /\ y(pc).next = "idle"
  BY <1>3 DEF Instance, PumpStates
<1>5. o.next \in PumpStates /\ "done" \in PumpStates
  BY DEF Instance, PumpStates
<1>6. x.saves = Tail(o.saves) /\ y(o.next).saves = Tail(o.saves) /\ y("done").saves = Tail(o.saves)
  BY <1>3, <1>4, <1>5 DEF s
<1> HIDE DEF y
<1>7. CASE Head(o.saves) # "pump"
  BY <1>2, <1>3, <1>6, <1>7
<1>8. CASE Head(o.saves) = "pump"
  <2>1. p = y(o.next) \/ p = y("done")
    BY <1>2, <1>8
  <2>2. /\ p \in Instance /\ p.role = o.role /\ p.conversation = o.conversation
        /\ p.over = o.over /\ p.questions = o.questions /\ p.fresh = o.fresh
        /\ p.turn = o.turn /\ p.saves = Tail(o.saves) /\ p.payload = None /\ p.next = "idle"
    BY <1>4, <1>5, <1>6, <2>1
  <2>3. y(o.next).pump = o.next /\ y("done").pump = "done"
    BY <1>4, <1>5
  <2>4. QED
    BY <1>2, <1>8, <2>2, <2>3
<1>9. QED
  BY <1>7, <1>8

\* A save that is refused changes the object that made it, and nothing in D1.
LEMMA SaveRefusedInv ==
  ASSUME AssistantInv, NEW i \in Objects, SaveCommit(i), ~MayCommit(i)
  PROVE  AssistantInv'
<1> DEFINE o == object[i]
           p == Resume(i, o, FALSE)
<1>1. o \in Instance /\ ObjectInv(o) /\ o.saves # <<>>
  BY ObjectFacts DEF SaveCommit, ObjectInv, LocalInv, QueueInv, HasPayload
<1>2. row' = row /\ command' = command
  BY DEF SaveCommit
<1>3. history' = history
  <2>1. history \in History
    BY DEF AssistantInv, Types
  <2>2. history' = [history EXCEPT !.ended = history.ended, !.asked = history.asked,
                                   !.settled = history.settled]
    BY DEF SaveCommit
  <2>3. QED
    BY <2>1, <2>2 DEF History
<1>4. Edit(i, p)
  <2>1. object' = [j \in Objects |-> IF j = i THEN p ELSE object[j]]
    <3>1. MayCommit(i) = FALSE
      BY DEF MayCommit
    <3>2. object' = [j \in Objects |-> IF j = i THEN Resume(i, object[i], MayCommit(i))
                                      ELSE IF MayCommit(i) THEN Stale(object[j]) ELSE object[j]]
      BY DEF SaveCommit
    <3>3. QED
      BY <3>1, <3>2
  <2> HIDE DEF p
  <2>2. QED
    BY <2>1 DEF Edit, AssistantInv, Types
<1>5. CASE Head(o.saves) = "request"
  <2>1. p = NoObject
    BY <1>5 DEF Resume
  <2>2. QED
    BY <1>2, <1>3, <1>4, <2>1, NoObjectInv, ChangeInv DEF NoObject, NoConversation
<1>6. CASE Head(o.saves) # "request"
  <2>1. /\ p \in Instance /\ p.role = o.role /\ p.conversation = o.conversation
        /\ p.over = o.over /\ p.questions = o.questions /\ p.fresh = o.fresh
        /\ p.turn = o.turn /\ p.saves = Tail(o.saves) /\ p.payload = None
        /\ Head(o.saves) = "pump" => p.next = "idle" /\ p.pump = "done"
        /\ Head(o.saves) # "pump" => p.pump = o.pump /\ p.next = o.next
    <3>1. p = Resume(i, o, FALSE)
      OBVIOUS
    <3> HIDE DEF p
    <3>2. QED
      BY <1>1, <1>6, <3>1, ResumeFields
  <2> HIDE DEF p
  <2>2. LocalInv(p)
    BY <1>1, <2>1, ResumedInv DEF ObjectInv
  <2>3. o.fresh => FreshInv(p)
    BY <1>1, <2>1 DEF ObjectInv, FreshInv, FreshRow, FreshSettled, FreshCount, FreshSent, AskedWith,
      KeepsPayload, OnTurn, Key
  <2>4. ObjectInv(p) /\ (Granted(p) => Granted(o) /\ Key(p) = Key(o))
    BY <1>1, <2>1, <2>2, <2>3 DEF ObjectInv, Granted, OnTurn, Key
  <2>5. QED
    BY <1>2, <1>3, <1>4, <2>1, <2>4, ObjectFacts, ChangeInv
<1>7. QED
  BY <1>5, <1>6

\* A submission is granted for a turn of a conversation.
LEMMA GrantedKey ==
  ASSUME NEW o \in Instance, MemoryInv(o), OnTurn(o)
  PROVE  /\ o.conversation.id \in Conversations /\ o.turn \in Questions
         /\ o.conversation.pending.question = o.turn /\ o.conversation.pending.round \in Nat
         /\ Key(o) \in Conversations \X Questions \X Nat
<1>1. o.turn \in Questions /\ o.conversation.pending.question = o.turn
  BY DEF OnTurn, Instance
<1>2. o.conversation.id \in Conversations
  BY <1>1, AssistantAssumption DEF MemoryInv, TurnIsKnown, NoTurn, Instance, Conversation
<1>3. o.conversation.pending.round \in Nat
  BY DEF Instance, Conversation, Turn
<1>4. QED
  BY <1>1, <1>2, <1>3 DEF Key

\* A save that is carried out: the row is what a fresh object had in memory, the
\* other objects are stale, and the pump that waited for it is granted its round.
LEMMA SaveDoneInv ==
  ASSUME AssistantInv, NEW i \in Objects, SaveCommit(i), MayCommit(i)
  PROVE  AssistantInv'
<1>0. PICK o, p, w : o = object[i] /\ p = object'[i] /\ w = row'
  OBVIOUS
<1> USE <1>0
<1> DEFINE c == o.conversation
           v == o.payload
           mine == {<<c.id, q>> : q \in {r \in Questions : c.messages[r] # "none"}}
           gone == {<<c.id, q>> : q \in {r \in Questions : c.messages[r] = "cancelled"}}
\* What the batch did.
<1>1. /\ o \in Instance /\ ObjectInv(o) /\ LocalInv(o) /\ FreshInv(o) /\ o.fresh = TRUE
      /\ v # None /\ o.saves # <<>> /\ c \in Conversation /\ v \in Conversation
      /\ c.id \in history.used \union {None}
  BY ObjectFacts
     DEF SaveCommit, MayCommit, ObjectInv, LocalInv, QueueInv, HasPayload, Instance
<1>2. /\ w.questions = o.questions
      /\ v.id = None => w.conversation = NoConversation
      /\ v.id # None => w.conversation = [v EXCEPT !.messages = c.messages]
      /\ w \in [conversation : Conversation, questions : Nat]
  <2>1. NoConversation \in Conversation
    BY AssistantAssumption DEF NoConversation, Conversation, NoTurn, Turn, Stages, Turns
  <2>2. [v EXCEPT !.messages = c.messages] \in Conversation
    BY <1>1 DEF Conversation
  <2>3. o.questions \in Nat
    BY <1>1 DEF Instance
  <2>4. w = [conversation |-> IF v.id = None THEN NoConversation ELSE [v EXCEPT !.messages = c.messages],
             questions |-> o.questions]
    BY DEF SaveCommit, Written
  <2>5. QED
    BY <2>1, <2>2, <2>3, <2>4
<1>3. v.id # None => /\ w.conversation.id = c.id /\ v.id = c.id /\ w.conversation.pending = v.pending
                     /\ w.conversation.messages = c.messages
  BY <1>1, <1>2 DEF LocalInv, PayloadInv, KeepsPayload, Conversation
<1>4. /\ NoConversation.id = None /\ NoConversation.pending = NoTurn /\ NoTurn.question = None
  BY DEF NoConversation, NoTurn
<1>5. /\ history' \in History /\ history'.used = history.used /\ history'.cancelled = history.cancelled
      /\ history'.sent = history.sent /\ history'.resent = history.resent
      /\ history'.ended = IF row.conversation.id # None /\ v.id = None
                          THEN history.ended \union {row.conversation.id} ELSE history.ended
      /\ history'.asked = IF v.id # None THEN history.asked \union mine ELSE history.asked
      /\ history'.settled = IF v.id # None /\ Head(o.saves) = "cancel"
                            THEN history.settled \union gone ELSE history.settled
      /\ command' = IF row.conversation.id # None /\ v.id = None THEN {} ELSE command
  <2> DEFINE e == history'.ended
  <2>1. history \in History /\ row.conversation.id \in Conversations \union {None}
    BY DEF AssistantInv, Types, Conversation
  <2>2. v.id # None => mine \subseteq Conversations \X Questions /\ gone \subseteq Conversations \X Questions
    BY <1>1, <1>3 DEF Conversation
  <2>3. w.conversation.id # None <=> v.id # None
    BY <1>2, <1>3, <1>4
  <2> DEFINE E == IF row.conversation.id # None /\ v.id = None
                  THEN history.ended \union {row.conversation.id} ELSE history.ended
             A == IF v.id # None THEN history.asked \union mine ELSE history.asked
             S == IF v.id # None /\ Head(o.saves) = "cancel"
                  THEN history.settled \union gone ELSE history.settled
  <2>4. history' = [history EXCEPT !.ended = E, !.asked = A, !.settled = S]
    <3>0. row' = Written(i)
      BY DEF SaveCommit
    <3>1. history' =
       [history EXCEPT
          !.ended = IF Ended /\ v.id = None THEN history.ended \union {row.conversation.id} ELSE history.ended,
          !.asked = IF w.conversation.id # None
                    THEN history.asked \union {<<w.conversation.id, q>> :
                                     q \in {r \in Questions : w.conversation.messages[r] # "none"}}
                    ELSE history.asked,
          !.settled = IF Head(o.saves) = "cancel" /\ w.conversation.id # None
                      THEN history.settled \union {<<w.conversation.id, q>> :
                                       q \in {r \in Questions :
                                                w.conversation.messages[r] = "cancelled"}}
                      ELSE history.settled]
      BY <3>0 DEF SaveCommit
    <3>2. /\ A = IF w.conversation.id # None
                    THEN history.asked \union {<<w.conversation.id, q>> :
                                     q \in {r \in Questions : w.conversation.messages[r] # "none"}}
                    ELSE history.asked
          /\ S = IF Head(o.saves) = "cancel" /\ w.conversation.id # None
                      THEN history.settled \union {<<w.conversation.id, q>> :
                                       q \in {r \in Questions :
                                                w.conversation.messages[r] = "cancelled"}}
                      ELSE history.settled
      BY <1>3, <2>3
    <3>3. E = IF Ended /\ v.id = None THEN history.ended \union {row.conversation.id} ELSE history.ended
      BY DEF Ended
    <3> HIDE DEF A, S, E
    <3>4. QED
      BY <3>1, <3>2, <3>3
  <2>5. E \in SUBSET Conversations
    BY <2>1 DEF History
  <2>6. A \in SUBSET (Conversations \X Questions) /\ S \in SUBSET (Conversations \X Questions)
    BY <2>1, <2>2 DEF History
  <2>7. command' = IF row.conversation.id # None /\ v.id = None THEN {} ELSE command
    BY DEF SaveCommit, Ended
  <2> HIDE DEF A, S, E
  <2>8. /\ history' \in History /\ history'.used = history.used /\ history'.cancelled = history.cancelled
        /\ history'.sent = history.sent /\ history'.resent = history.resent
        /\ history'.ended = E /\ history'.asked = A /\ history'.settled = S
    BY <2>1, <2>4, <2>5, <2>6 DEF History
  <2>9. QED
    BY <2>7, <2>8 DEF E, A, S

\* What it did to the objects.
<1>6. /\ object' = [j \in Objects |-> IF j = i THEN Resume(i, o, TRUE) ELSE Stale(object[j])]
      /\ p = Resume(i, o, TRUE)
  <2>1. MayCommit(i) = TRUE
    BY DEF MayCommit
  <2>2. object' = [j \in Objects |-> IF j = i THEN Resume(i, object[i], MayCommit(i))
                                     ELSE IF MayCommit(i) THEN Stale(object[j]) ELSE object[j]]
    BY DEF SaveCommit
  <2>3. QED
    BY <2>1, <2>2
<1>7. ASSUME NEW j \in Objects, j # i
      PROVE  /\ object'[j] \in Instance /\ LocalInv(object'[j]) /\ object'[j].fresh = FALSE
             /\ object'[j].questions <= QuestionLimit
             /\ object'[j].conversation.id = object[j].conversation.id
             /\ Granted(object'[j]) = Granted(object[j]) /\ Key(object'[j]) = Key(object[j])
  <2> DEFINE x == Stale(object[j])
  <2>1. object'[j] = x
    BY <1>6, <1>7
  <2>2. /\ x \in Instance /\ ObjectInv(x) /\ x.fresh = FALSE /\ x.conversation.id = object[j].conversation.id
        /\ Granted(x) = Granted(object[j]) /\ Key(x) = Key(object[j])
    BY ObjectFacts, StaleInv DEF ObjectInv
  <2> HIDE DEF x
  <2>3. QED
    BY <2>1, <2>2 DEF ObjectInv
<1> DEFINE G == Head(o.saves) = "pump" /\ o.next = "submit" /\ OnTurn(o)
<1>8. /\ p \in Instance /\ LocalInv(p) /\ p.questions <= QuestionLimit
      /\ p.conversation.id \in {c.id, None}
      /\ Granted(p) => (G \/ Granted(o)) /\ Key(p) = Key(o)
      /\ p.fresh => /\ p.conversation = c /\ p.over = o.over /\ p.questions = o.questions
                    /\ p.turn = o.turn /\ p.payload = None
                    /\ p.pump = "saving" /\ p.next = "submit"
                         => o.pump = "saving" /\ o.next = "submit" /\ Head(o.saves) # "pump"
  <2>1. CASE Head(o.saves) = "request"
    <3>1. p = NoObject
      BY <1>6, <2>1 DEF Resume
    <3>2. /\ NoObject.conversation = NoConversation /\ NoObject.fresh = FALSE
          /\ NoObject \in Instance /\ ~Granted(NoObject) /\ ObjectInv(NoObject)
      BY NoObjectInv DEF NoObject
    <3>3. QED
      BY <1>4, <3>1, <3>2 DEF ObjectInv
  <2>2. CASE Head(o.saves) # "request"
    <3>1. /\ p \in Instance /\ p.role = o.role /\ p.conversation = o.conversation
          /\ p.over = o.over /\ p.questions = o.questions /\ p.fresh = o.fresh
          /\ p.turn = o.turn /\ p.saves = Tail(o.saves) /\ p.payload = None
          /\ Head(o.saves) = "pump" => p.next = "idle" /\ p.pump = o.next
          /\ Head(o.saves) # "pump" => p.pump = o.pump /\ p.next = o.next
      <4>1. o \in Instance /\ o.saves # <<>> /\ p = Resume(i, o, TRUE)
        BY <1>1, <1>6
      <4>2. p \in {Resume(i, o, TRUE), Resume(i, o, FALSE)}
        BY <4>1
      <4>3. QED
        <5> HIDE <1>0
        <5>1. QED
          BY <2>2, <4>1, <4>2, ResumeFields
    <3>2. LocalInv(p)
      BY <1>1, <3>1, ResumedInv
    <3>3. QED
      BY <1>1, <3>1, <3>2 DEF ObjectInv, Granted, OnTurn, Key
  <2>3. QED
    BY <2>1, <2>2
\* The round a pump is granted was not, and its checkpoint is what was saved.
<1>9. ASSUME G
      PROVE  /\ ~Spent(Key(o)) /\ c.pending.stage = "requesting" /\ c.id \in Conversations
             /\ v.id # None /\ v.pending = c.pending /\ o.turn \in Questions
             /\ c.pending.question = o.turn /\ o.pump = "saving"
             /\ Key(o) = <<c.id, o.turn, c.pending.round>>
  <2>1. o.pump = "saving"
    <3>1. Queues(o, "pump")
      <4>1. o.saves \in Seq(Savers)
        BY <1>1 DEF Instance
      <4>2. 1 \in 1..Len(o.saves) /\ o.saves[1] = "pump"
        BY <1>1, <1>9, <4>1
      <4>3. QED
        BY <4>2 DEF Queues
    <3>2. QED
      BY <1>1, <3>1 DEF LocalInv, QueueInv
  <2>2. ~Spent(Key(o)) /\ c.pending.stage = "requesting"
    BY <1>1, <1>9, <2>1 DEF FreshInv, FreshSent, LocalInv, MemoryInv
  <2>3. c.id \in Conversations /\ o.turn \in Questions /\ c.pending.question = o.turn
    BY <1>1, <1>9, GrantedKey DEF LocalInv
  <2>4. v.id # None
    BY <1>1, <1>9, <2>3, AssistantAssumption DEF LocalInv, PayloadInv, HasPayload, OnTurn
  <2>5. v.pending = c.pending
    BY <1>1, <1>9, <2>4 DEF LocalInv, PayloadInv, KeepsPayload
  <2>6. QED
    BY <2>1, <2>2, <2>3, <2>4, <2>5 DEF Key
<1> HIDE DEF G
<1>10. ASSUME NEW j \in Objects, Granted(object'[j])
       PROVE  \/ Granted(object[j]) /\ Key(object'[j]) = Key(object[j])
              \/ j = i /\ G /\ Key(object'[j]) = Key(o)
  BY <1>7, <1>8, <1>10
<1>11. ASSUME NEW key, Spent(key)' PROVE Spent(key) \/ (G /\ key = Key(o))
  <2>1. key \in history'.sent \/ \E j \in Objects : Granted(object'[j]) /\ Key(object'[j]) = key
    BY <1>11 DEF Spent, Granted, OnTurn, Key
  <2>2. QED
    BY <1>5, <1>10, <2>1 DEF Spent
<1>12. ASSUME NEW t \in {c.pending, v.pending}, t = v.pending => v.id # None
       PROVE  Beyond(c.id, t)'
  <2>1. Beyond(c.id, t)
    BY <1>1, <1>12 DEF FreshInv, FreshSent, KeepsPayload
  <2> SUFFICES ASSUME t.question # None, NEW r \in Nat, Spent(<<c.id, t.question, r>>)'
               PROVE  r < t.round \/ (r = t.round /\ t.stage = "requesting")
    BY DEF Beyond
  <2>2. CASE Spent(<<c.id, t.question, r>>)
    BY <2>1, <2>2 DEF Beyond
  <2>3. CASE G /\ <<c.id, t.question, r>> = Key(o)
    BY <1>9, <2>3, <1>12
  <2>4. QED
    BY <1>11, <2>2, <2>3
<1>13. ASSUME NEW q \in Questions, NEW r \in Nat, Spent(<<c.id, q, r>>)' PROVE c.messages[q] # "none"
  <2>1. CASE Spent(<<c.id, q, r>>)
    BY <1>1, <2>1 DEF FreshInv, FreshSent
  <2>2. CASE G /\ <<c.id, q, r>> = Key(o)
    BY <1>1, <1>9, <2>2, AssistantAssumption DEF LocalInv, MemoryInv
  <2>3. QED
    BY <1>11, <1>13, <2>1, <2>2
<1>14. ASSUME NEW q \in Questions, <<c.id, q>> \in history'.settled
       PROVE  /\ c.messages[q] = "cancelled" /\ c.pending.question # q
              /\ v.id # None => v.pending.question # q
  <2>1. CASE <<c.id, q>> \in history.settled
    BY <1>1, <2>1 DEF FreshInv, FreshSettled, KeepsPayload
  <2>2. CASE v.id # None /\ Head(o.saves) = "cancel" /\ <<c.id, q>> \in gone
    <3>1. c.messages[q] = "cancelled" /\ q # None
      BY <2>2, AssistantAssumption
    <3>2. 1 \in 1..Len(o.saves) /\ o.saves[1] = "cancel"
      <4>1. o.saves \in Seq(Savers)
        BY <1>1 DEF Instance
      <4>2. QED
        BY <1>1, <2>2, <4>1
    <3>3. c.pending.question # q
      BY <1>1, <3>1, <3>2 DEF LocalInv, CancelInv
    <3>4. v.pending.question # q
      BY <1>1, <2>2, <3>1, <3>3 DEF LocalInv, CancelInv, KeepsPayload
    <3>5. QED
      BY <3>1, <3>3, <3>4
  <2>3. QED
    BY <1>5, <1>14, <2>1, <2>2

\* No turn, and no command, is of no conversation.
<1>15. /\ \A q \in Questions : <<None, q>> \notin history'.settled
       /\ \A q \in Questions, r \in Nat : ~Spent(<<None, q, r>>)'
  <2>1. \A q \in Questions : <<None, q>> \notin history'.settled
    BY <1>5, AssistantAssumption DEF History
  <2>2. ASSUME NEW q \in Questions, NEW r \in Nat, Spent(<<None, q, r>>)' PROVE FALSE
    <3>1. <<None, q, r>> # Key(o) \/ ~G
      BY <1>9, AssistantAssumption
    <3>2. CASE <<None, q, r>> \in history.sent
      BY <1>5, <3>2, AssistantAssumption DEF History
    <3>3. CASE \E j \in Objects : Granted(object[j]) /\ Key(object[j]) = <<None, q, r>>
      <4>1. PICK j \in Objects : Granted(object[j]) /\ Key(object[j]) = <<None, q, r>>
        BY <3>3
      <4>2. object[j].conversation.id \in Conversations
        BY <4>1, ObjectFacts, GrantedKey DEF ObjectInv, LocalInv, Granted
      <4>3. QED
        BY <4>1, <4>2, AssistantAssumption DEF Key
    <3>4. QED
      BY <1>11, <2>2, <3>1, <3>2, <3>3 DEF Spent
  <2>3. QED
    BY <2>1, <2>2
<1>16. /\ IsFiniteSet(history.asked \union mine) /\ Cardinality(history.asked \union mine) <= o.questions
       /\ IsFiniteSet(history'.asked) /\ Cardinality(history'.asked) <= o.questions
       /\ history'.asked \union mine = history.asked \union mine
  <2>1. IsFiniteSet(history.asked \union mine) /\ Cardinality(history.asked \union mine) <= o.questions
    BY <1>1 DEF FreshInv, FreshCount, AskedWith
  <2>2. history'.asked \subseteq history.asked \union mine /\ history.asked \subseteq history'.asked
    BY <1>5
  <2>3. /\ IsFiniteSet(history'.asked)
        /\ Cardinality(history'.asked) <= Cardinality(history.asked \union mine)
    BY <2>1, <2>2, FS_Subset
  <2>4. o.questions \in Nat /\ Cardinality(history'.asked) \in Nat
        /\ Cardinality(history.asked \union mine) \in Nat
    BY <1>1, <2>1, <2>3, FS_CardinalityType DEF Instance
  <2>5. QED
    BY <2>1, <2>2, <2>3, <2>4
<1>17. RowInv'
  <2>1. w.questions <= QuestionLimit
    BY <1>1, <1>2 DEF ObjectInv
  <2>2. CASE v.id = None
    <3>1. /\ w.conversation = NoConversation
          /\ \A q \in Questions : NoConversation.messages[q] = "none"
      BY <1>2, <2>2 DEF NoConversation
    <3>2. TurnIsKnown(NoConversation)
      BY <1>4, AssistantAssumption DEF TurnIsKnown
    <3>3. TurnIsKnown(w.conversation)
      BY <3>1, <3>2
    <3>4. Beyond(w.conversation.id, w.conversation.pending)'
      BY <1>4, <3>1 DEF Beyond
    <3>5. None \notin history'.ended
      BY <1>5, AssistantAssumption DEF History
    <3>6. TurnIsKnown(row.conversation)'
      BY <3>3 DEF TurnIsKnown
    <3>7. QED
      BY <1>2, <1>4, <1>15, <1>16, <2>1, <3>1, <3>4, <3>5, <3>6 DEF RowInv
  <2>3. CASE v.id # None
    <3>1. /\ w.conversation.id = c.id /\ v.id = c.id /\ w.conversation.pending = v.pending
          /\ w.conversation.messages = c.messages
      BY <1>3, <2>3
    <3>2. TurnIsKnown(row.conversation)'
      BY <1>1, <2>3, <3>1 DEF TurnIsKnown, LocalInv, PayloadInv, KeepsPayload
    <3>3. c.id \notin history'.ended
      BY <1>1, <1>5, <2>3, <3>1 DEF FreshInv, FreshRow, KeepsPayload
    <3>4. \A q \in Questions : c.messages[q] # "none" => <<c.id, q>> \in history'.asked
      BY <1>5, <2>3
    <3>5. Beyond(c.id, v.pending)'
      BY <1>12, <2>3
    <3>6. Beyond(row.conversation.id, row.conversation.pending)'
      BY <3>1, <3>5
    <3>7. QED
      BY <1>2, <1>13, <1>14, <1>16, <2>1, <2>3, <3>1, <3>2, <3>3, <3>4, <3>6 DEF RowInv
  <2>4. QED
    BY <2>2, <2>3
<1>18. ASSUME p.fresh PROVE FreshInv(p)'
  <2>1. /\ p.conversation = c /\ p.over = o.over /\ p.questions = o.questions
        /\ p.turn = o.turn /\ p.payload = None
        /\ p.pump = "saving" /\ p.next = "submit"
             => o.pump = "saving" /\ o.next = "submit" /\ Head(o.saves) # "pump"
    BY <1>8, <1>18
  <2>2. FreshRow(p)'
    <3>1. c.id # None => w.conversation.id \in {c.id, None}
      BY <1>2, <1>3, <1>4
    <3>2. c.id # None /\ ~o.over => c.id \notin history'.ended
      BY <1>1, <1>5 DEF FreshInv, FreshRow, LocalInv, PayloadInv, HasPayload
    <3>3. QED
      BY <2>1, <3>1, <3>2 DEF FreshRow, KeepsPayload
  <2>3. FreshSettled(p)'
    BY <1>14, <2>1 DEF FreshSettled, KeepsPayload
  <2>4. FreshCount(p)'
    BY <1>16, <2>1 DEF FreshCount, AskedWith
  <2>5. FreshSent(p)'
    <3>1. Beyond(c.id, c.pending)'
      <4>1. CASE c.pending = v.pending /\ v.id = None
        <5>1. ~G
          BY <1>9, <4>1
        <5>2. Beyond(c.id, c.pending)
          BY <1>1 DEF FreshInv, FreshSent
        <5>3. QED
          BY <1>11, <5>1, <5>2 DEF Beyond
      <4>2. QED
        BY <1>12, <4>1
    <3>2. ASSUME p.pump = "saving", p.next = "submit", OnTurn(p) PROVE ~Spent(Key(p))'
      <4>1. Key(p) = Key(o) /\ OnTurn(o) /\ ~G
        BY <2>1, <3>2 DEF Key, OnTurn, G
      <4>2. ~Spent(Key(o))
        BY <1>1, <2>1, <3>2, <4>1 DEF FreshInv, FreshSent
      <4>3. QED
        BY <1>11, <4>1, <4>2
    <3>3. QED
      BY <1>13, <2>1, <3>1, <3>2 DEF FreshSent, KeepsPayload
  <2>6. QED
    BY <2>2, <2>3, <2>4, <2>5 DEF FreshInv
<1>19. \A j \in Objects : ObjectInv(object[j])'
  <2>1. ASSUME NEW x, LocalInv(x) PROVE LocalInv(x)'
    BY <2>1 DEF LocalInv, QueueInv, MemoryInv, PayloadInv, CancelInv
  <2>2. ASSUME NEW j \in Objects, j # i PROVE ObjectInv(object[j])'
    BY <1>7, <2>1, <2>2 DEF ObjectInv
  <2>3. ObjectInv(object[i])'
    BY <1>8, <1>18, <2>1 DEF ObjectInv
  <2>4. QED
    BY <2>2, <2>3
<1>20. Types'
  <2>1. \A j \in Objects : object'[j] \in Instance
    BY <1>7, <1>8
  <2>2. object' \in [Objects -> Instance]
    BY <1>6, <2>1
  <2>3. QED
    BY <1>2, <1>5, <2>2 DEF Types
<1>21. PastInv'
  <2>1. w.conversation.id \in {c.id, None}
    BY <1>2, <1>3, <1>4
  <2>2. \A j \in Objects : object'[j].conversation.id \in history.used \union {None}
    BY <1>1, <1>7, <1>8, ObjectFacts
  <2>3. history'.ended \subseteq history.used
    BY <1>5, ObjectFacts DEF AssistantInv, PastInv
  <2>4. ASSUME NEW x \in Conversations, NEW q \in Questions, <<x, q>> \in history'.settled
        PROVE  x \in history.used
    BY <1>1, <1>5, <2>4, AssistantAssumption DEF AssistantInv, PastInv
  <2>5. QED
    BY <1>1, <1>5, <2>1, <2>2, <2>3, <2>4 DEF AssistantInv, PastInv
<1>22. GrantInv'
  <2>1. ASSUME NEW j \in Objects, Granted(object'[j]) PROVE Key(object'[j]) \notin history.sent
    BY <1>9, <1>10, <2>1 DEF AssistantInv, GrantInv, Spent
  <2>2. ASSUME NEW j \in Objects, NEW k \in Objects, Granted(object'[j]), Granted(object'[k]),
               Key(object'[j]) = Key(object'[k])
        PROVE  j = k
    BY <1>9, <1>10, <2>2 DEF AssistantInv, GrantInv, Spent
  <2>3. history'.resent = {}
    BY <1>5 DEF AssistantInv, GrantInv
  <2>4. QED
    BY <1>5, <2>1, <2>2, <2>3 DEF GrantInv
<1>23. CommandInv'
  <2> SUFFICES ASSUME NEW x \in Conversations, NEW k \in Cancels, history.cancelled[<<x, k>>] # 0
               PROVE  x \in history'.ended \/ (x = w.conversation.id /\ <<x, k>> \in command')
    BY <1>5 DEF AssistantInv, CommandInv
  <2>1. x \in history.ended \/ (x = row.conversation.id /\ <<x, k>> \in command)
    BY DEF AssistantInv, CommandInv
  <2>2. CASE v.id = None
    BY <1>5, <2>1, <2>2, AssistantAssumption
  <2>3. CASE v.id # None
    <3>1. row.conversation.id \in {c.id, None} /\ w.conversation.id = c.id
      BY <1>1, <1>3, <2>3 DEF FreshInv, FreshRow
    <3>2. QED
      BY <1>5, <2>1, <2>3, <3>1, AssistantAssumption
  <2>4. QED
    BY <2>2, <2>3
<1>24. QED
  BY <1>17, <1>19, <1>20, <1>21, <1>22, <1>23 DEF AssistantInv

-----------------------------------------------------------------------------
(* The theorems                                                            *)

\* Every step keeps the invariant.
LEMMA AssistantNext == AssistantInv /\ [Next]_vars => AssistantInv'
<1> SUFFICES ASSUME AssistantInv, [Next]_vars PROVE AssistantInv'
  OBVIOUS
<1>1. CASE UNCHANGED vars
  BY <1>1, QuietInv DEF vars, d1Vars
<1>2. CASE SignInStep
  BY <1>2, QuietInv DEF SignInStep, BeginNative, ClaimAuth, CompleteNative, AuthGone
<1>3. CASE \E key \in DOMAIN lease : LeaseExpires(key)
  BY <1>3, QuietInv DEF LeaseExpires
<1>4. ASSUME NEW i \in Objects, RequestStep(i) PROVE AssistantInv'
  BY <1>4, CreateConversationInv, RequestEndInv, EndLoadInv DEF RequestStep
<1>5. ASSUME NEW i \in Objects, ControlStep(i) PROVE AssistantInv'
  BY <1>5, OpenControlInv, ConnectionInv, DriveReloadInv, AskStepInv, CancelStepInv DEF ControlStep
<1>6. ASSUME NEW i \in Objects, TickStep(i) PROVE AssistantInv'
  BY <1>6, TickInv, SweepStartInv, ConnectionInv DEF TickStep
<1>7. ASSUME NEW i \in Objects, PumpStep(i) PROVE AssistantInv'
  BY <1>7, PumpStartInv, PumpTurnInv, SubmitInv, PumpStopsInv DEF PumpStep
<1>8. ASSUME NEW i \in Objects, SaveStep(i) PROVE AssistantInv'
  BY <1>8, SaveStartInv, SaveRefusedInv, SaveDoneInv DEF SaveStep
<1>9. ASSUME NEW i \in Objects, Crash(i) PROVE AssistantInv'
  BY <1>9, ConnectionInv
<1>10. QED
  BY <1>1, <1>2, <1>3, <1>4, <1>5, <1>6, <1>7, <1>8, <1>9 DEF Next

\* The row, the objects in memory and what happened agree in every state, for
\* any number of objects, conversations and questions.
THEOREM AssistantInvHolds == Spec => []AssistantInv
<1>1. Init => AssistantInv
  BY AssistantInit
<1>2. AssistantInv /\ [Next]_vars => AssistantInv'
  BY AssistantNext
<1>3. QED
  BY <1>1, <1>2, PTL DEF Spec

\* runDeepSeekTurn: no prompt of a round is submitted to the provider twice.
THEOREM SubmittedOnceHolds == Spec => []SubmittedOnce
<1>1. AssistantInv => SubmittedOnce
  BY DEF AssistantInv, GrantInv, SubmittedOnce
<1>2. QED
  BY <1>1, AssistantInvHolds, PTL

\* endOwned, cancel and the day's counter: what was saved stays settled, whatever
\* an object that had an older copy saves later.
THEOREM SettledForGoodHolds == Spec => []SettledForGood
<1>1. ASSUME AssistantInv PROVE SettledForGood
  <2>1. CancelledOnce
    <3> SUFFICES ASSUME NEW key \in Conversations \X Cancels PROVE history.cancelled[key] <= 1
      BY DEF CancelledOnce
    <3>1. PICK c \in Conversations, k \in Cancels : key = <<c, k>>
      OBVIOUS
    <3>2. QED
      BY <1>1, <3>1 DEF AssistantInv, CommandInv
  <2>2. QED
    BY <1>1, <2>1 DEF AssistantInv, RowInv, SettledForGood, EndedForGood, CancelIsFinal, CountedQuestions
<1>2. QED
  BY <1>1, AssistantInvHolds, PTL


\* The sign-in's phase and the requests to end: no other step writes them.
D1Types == auth \in {"absent", "pending", "claiming", "active"} /\ stops \subseteq Conversations

\* D1 rows and AssistantUser objects keep their types.
THEOREM TypeOKHolds == Spec => []TypeOK
<1>1. Init => D1Types
  BY DEF Init, D1Types
<1>2. ASSUME AssistantInv, D1Types, [Next]_vars PROVE D1Types'
  <2>1. row.conversation.id \in Conversations \union {None}
    BY <1>2 DEF AssistantInv, Types, Conversation
  <2>2. CASE SignInStep \/ UNCHANGED vars
    BY <1>2, <2>2 DEF D1Types, SignInStep, BeginNative, ClaimAuth, CompleteNative, AuthGone, vars, d1Vars
  <2>3. ASSUME NEW key, LeaseExpires(key) PROVE D1Types'
    BY <1>2, <2>3 DEF D1Types, LeaseExpires
  <2>4. ASSUME NEW i, RequestStep(i) PROVE D1Types'
    BY <1>2, <2>1, <2>4 DEF D1Types, RequestStep, CreateConversation, RequestEnd, EndLoad, d1Vars
  <2>5. ASSUME NEW i, ControlStep(i) PROVE D1Types'
    BY <1>2, <2>5
       DEF D1Types, ControlStep, OpenControl, ClaimConnection, CloseControl, Forgotten, DriveReload,
           Ask, Cancel, d1Vars
  <2>6. ASSUME NEW i, TickStep(i) PROVE D1Types'
    BY <1>2, <2>6 DEF D1Types, TickStep, TurnTimeout, TickEnds, SweepStart, SweepDone, d1Vars
  <2>7. ASSUME NEW i, PumpStep(i) PROVE D1Types'
    BY <1>2, <2>7
       DEF D1Types, PumpStep, PumpStart, RouteTurn, RunTurn, Submit, Receive, PublishTurn, PumpFails,
           PumpDone, d1Vars
  <2>8. ASSUME NEW i, SaveStep(i) \/ Crash(i) PROVE D1Types'
    <3>1. stops' = stops
      BY <2>8 DEF SaveStep, SaveStart, SaveCommit, Crash, d1Vars
    <3>2. auth' \in {auth, "absent"}
      BY <2>8 DEF SaveStep, SaveStart, SaveCommit, Crash, d1Vars
    <3>3. QED
      BY <1>2, <3>1, <3>2 DEF D1Types
  <2>9. QED
    BY <1>2, <2>2, <2>3, <2>4, <2>5, <2>6, <2>7, <2>8 DEF Next
<1>3. ASSUME AssistantInv, D1Types PROVE TypeOK
  <2>1. /\ row.conversation.id \in Conversations \union {None}
        /\ row.conversation.messages \in [Questions -> Turns]
    BY <1>3 DEF AssistantInv, Types, Conversation
  <2>2. row.questions \in 0..QuestionLimit
    BY <1>3, AssistantAssumption DEF AssistantInv, Types, RowInv
  <2>3. ASSUME NEW i \in Objects PROVE object[i].role \in Roles /\ object[i].pump \in PumpStates
    BY <1>3 DEF AssistantInv, Types, Instance
  <2>4. QED
    BY <1>3, <2>1, <2>2, <2>3 DEF D1Types, TypeOK
<1>4. QED
  BY <1>1, <1>2, <1>3, AssistantInvHolds, PTL DEF Spec
=============================================================================
