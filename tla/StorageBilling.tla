---------------------------- MODULE StorageBilling ----------------------------
(***************************************************************************)
(* When storage is charged: the 24h timer of the canister, the resumable   *)
(* timer run it drives (storage_billing_state), the controller's recovery  *)
(* batches, and what happens around them: errors half way, upgrades, and   *)
(* the mount switches of an evidence rebuild.  What one charge does to the *)
(* balance is StorageCharge of DatabaseCycles.                             *)
(*                                                                         *)
(* Active databases have a storage_charged_at_ms: reservation and          *)
(* activation write it, so the branch for NULL never runs for them.        *)
(***************************************************************************)
EXTENDS Integers, FiniteSets, FiniteSetsExt

CONSTANTS
  Databases,
  MaxMountId,
  Interval,            \* STORAGE_BILLING_INTERVAL_MS
  BatchLimit,          \* TIMER_STORAGE_BILLING_BATCH_LIMIT
  BatchesPerMessage,   \* STORAGE_BILLING_TIMER_BATCHES_PER_MESSAGE
  SizeBytes,           \* logical_size_bytes of an active database
  GibBytes,            \* GIB_BYTES over the rate
  MaxWait,             \* how long a purchase waits for the ledger
  MaxTime,             \* bound: later instants are not told apart
  MaxContinuations,    \* bound: continuation timers pending at a time
  MaxUpgrades          \* bound: upgrades of the canister

ASSUME BillingAssumption ==
  /\ IsFiniteSet(Databases)
  /\ MaxMountId \in Nat /\ MaxWait \in Nat /\ MaxTime \in Nat
  /\ Interval \in Nat \ {0}
  /\ BatchLimit \in Nat \ {0} /\ BatchesPerMessage \in Nat \ {0}
  /\ SizeBytes \in Nat /\ GibBytes \in Nat \ {0}
  /\ MaxContinuations \in Nat \ {0} /\ MaxUpgrades \in Nat

VARIABLES
  clock,          \* now_millis
  nextTick,       \* when the interval timer fires next
  waiting,        \* a tick awaits the cycles top-up before it bills
  continuations,  \* continuation timers set and not fired
  upgrades,       \* upgrades so far
  mount,          \* databases.mount_id of active databases, otherwise 0
  previous,       \* source mount of a rebuild activated read-only, otherwise 0
  usedMounts,     \* database_mount_history
  chargedAt,      \* storage_charged_at_ms
  run             \* storage_billing_state: cursor_mount_id and billing_now_ms

\* History variables, for the properties.
VARIABLES
  since,    \* when the database began to owe for its storage
  charged,  \* cycles charged for storage since then, forgiven ones included
  steady,   \* databases active and in place since the current run began
  done      \* the last completed run: its billing_now_ms, its steady databases

timerVars == <<clock, nextTick, waiting, continuations, upgrades>>
rowVars   == <<mount, previous, usedMounts>>
billVars  == <<chargedAt, charged>>
runVars   == <<run, steady, done>>
vars      == <<timerVars, rowVars, billVars, runVars, since>>

Active == {d \in Databases : mount[d] # 0}
NoRun  == [on |-> FALSE, cursor |-> 0, now |-> 0]

-----------------------------------------------------------------------------
(* One batch                                                               *)

\* load_active_databases_for_storage_billing_batch: mount_id > cursor, in the
\* order of the mounts, at most n.
After(cursor) == {d \in Active : mount[d] > cursor}
First(n, cursor) ==
  {d \in After(cursor) : Cardinality({e \in After(cursor) : mount[e] < mount[d]}) < n}

NextCursor_Popped(n, cursor) ==
  LET rest == {mount[d] : d \in After(cursor) \ First(n, cursor)}
  IN IF n = 0 \/ rest = {} THEN cursor ELSE Min(rest)

NextCursor_Kept(n, cursor) == cursor

\* The cursor after n databases when more remain: the last mount of the batch,
\* not the one fetched to see whether there are more.
NextCursor(n, cursor) ==
  IF First(n, cursor) = {} THEN cursor ELSE Max({mount[d] : d \in First(n, cursor)})

\* compute_storage_charge_cycles
StorageCycles(elapsed) == IF elapsed <= 0 THEN 0 ELSE (SizeBytes * elapsed) \div GibBytes

IsDue_Always(d, now) == TRUE

\* Less than an interval since the last charge, or a charge later than now.
IsDue(d, now) == now - chargedAt[d] >= Interval

\* settle_database_storage_billing_batch: the same for the loop and the bulk
\* statements.
Settle(S, now) ==
  /\ chargedAt' = [d \in Databases |-> IF d \in S /\ IsDue(d, now) THEN now ELSE chargedAt[d]]
  /\ charged' = [d \in Databases |->
       IF d \in S /\ IsDue(d, now) THEN charged[d] + StorageCycles(now - chargedAt[d])
       ELSE charged[d]]

-----------------------------------------------------------------------------
(* Timers                                                                  *)

Advance ==
  /\ clock < MaxTime
  /\ clock' = clock + 1
  /\ UNCHANGED <<nextTick, waiting, continuations, upgrades, rowVars, billVars, runVars, since>>

\* The interval timer fires, on time or late, and awaits the top-up check.
Tick ==
  /\ clock >= nextTick \/ clock = MaxTime
  /\ ~waiting
  /\ waiting' = TRUE
  /\ nextTick' = nextTick + (IF nextTick > MaxTime THEN 0 ELSE Interval)
  /\ UNCHANGED <<clock, continuations, upgrades, rowVars, billVars, runVars, since>>

Message_KeepsTimer(again) ==
  \/ /\ waiting /\ waiting' = FALSE
     /\ continuations + again <= MaxContinuations
     /\ continuations' = continuations + again
  \/ /\ continuations > 0
     /\ continuations' = continuations + again
     /\ UNCHANGED waiting

\* run_storage_billing_timer_batches runs when the await of a tick is over or
\* when a continuation timer fires; it may set one continuation timer.
Message(again) ==
  \/ /\ waiting /\ waiting' = FALSE
     /\ continuations + again <= MaxContinuations
     /\ continuations' = continuations + again
  \/ /\ continuations > 0
     /\ continuations' = continuations - 1 + again
     /\ UNCHANGED waiting

\* load_or_create_storage_billing_timer_state
Current == IF run.on THEN run ELSE [on |-> TRUE, cursor |-> 0, now |-> clock]
InPlace == IF run.on THEN steady ELSE Active

\* All batches of the message succeed: the run is finished, or its cursor is
\* stored and the rest continues.
TimerRuns ==
  LET n    == BatchesPerMessage * BatchLimit
      more == After(Current.cursor) # First(n, Current.cursor)
  IN
  /\ Message(IF more THEN 1 ELSE 0)
  /\ Settle(First(n, Current.cursor), Current.now)
  /\ IF more
     THEN /\ run' = [on |-> TRUE, cursor |-> NextCursor(n, Current.cursor),
                     now |-> Current.now]
          /\ steady' = InPlace
          /\ UNCHANGED done
     ELSE /\ run' = NoRun
          /\ steady' = {}
          /\ done' = [now |-> Current.now, dbs |-> InPlace]
  /\ UNCHANGED <<clock, nextTick, upgrades, rowVars, since>>

\* The batch after the first j fails: no continuation is set.  Either nothing
\* of it was committed, or its charges were and its cursor was not.
TimerFails(j, chargesCommitted) ==
  LET settled == (IF chargesCommitted THEN j + 1 ELSE j) * BatchLimit IN
  /\ j > 0 => After(Current.cursor) # First(j * BatchLimit, Current.cursor)
  /\ Message(0)
  /\ Settle(First(settled, Current.cursor), Current.now)
  /\ run' = [on |-> TRUE, cursor |-> NextCursor(j * BatchLimit, Current.cursor),
             now |-> Current.now]
  /\ steady' = InPlace
  /\ UNCHANGED <<clock, nextTick, upgrades, rowVars, since, done>>

\* settle_database_storage_charges_batch by a controller, at its own time.
ControllerBatch(cursor, limit) ==
  /\ Settle(First(limit, cursor), clock)
  /\ UNCHANGED <<timerVars, rowVars, runVars, since>>

\* post_upgrade: timers are gone with the heap, schedule_storage_billing_timer
\* starts a new interval; the index DB keeps the run.
Upgrade ==
  /\ upgrades < MaxUpgrades
  /\ upgrades' = upgrades + 1
  /\ waiting' = FALSE
  /\ continuations' = 0
  /\ nextTick' = clock + Interval
  /\ UNCHANGED <<clock, rowVars, billVars, runVars, since>>

-----------------------------------------------------------------------------
(* Databases come, move and go                                             *)

\* Creation, or activation by a purchase: the instant written is the one when
\* purchase_database_cycles began, before its await.
ActivateDatabase(d, m, began) ==
  /\ mount[d] = 0 /\ m \notin usedMounts
  /\ began <= clock /\ clock - began <= MaxWait
  /\ mount' = [mount EXCEPT ![d] = m]
  /\ usedMounts' = usedMounts \union {m}
  /\ chargedAt' = [chargedAt EXCEPT ![d] = began]
  /\ since' = [since EXCEPT ![d] = began]
  /\ charged' = [charged EXCEPT ![d] = 0]
  /\ UNCHANGED <<timerVars, previous, runVars>>

\* evidence_rebuild_activate points the row at the rebuilt copy.
SwitchMount(d, m) ==
  /\ mount[d] # 0 /\ previous[d] = 0 /\ m \notin usedMounts
  /\ mount' = [mount EXCEPT ![d] = m]
  /\ previous' = [previous EXCEPT ![d] = mount[d]]
  /\ usedMounts' = usedMounts \union {m}
  /\ steady' = steady \ {d}
  /\ UNCHANGED <<timerVars, billVars, since, run, done>>

\* evidence_rebuild_rollback points it back.
RollbackMount(d) ==
  /\ previous[d] # 0
  /\ mount' = [mount EXCEPT ![d] = previous[d]]
  /\ previous' = [previous EXCEPT ![d] = 0]
  /\ steady' = steady \ {d}
  /\ UNCHANGED <<timerVars, billVars, since, usedMounts, run, done>>

\* evidence_rebuild_resume_writes: no way back.
ResumeWrites(d) ==
  /\ previous[d] # 0
  /\ previous' = [previous EXCEPT ![d] = 0]
  /\ UNCHANGED <<timerVars, billVars, since, mount, usedMounts, runVars>>

\* delete_database; a rebuild that holds writes keeps it off.
DeleteDatabase(d) ==
  /\ mount[d] # 0 /\ previous[d] = 0
  /\ mount' = [mount EXCEPT ![d] = 0]
  /\ chargedAt' = [chargedAt EXCEPT ![d] = 0]
  /\ since' = [since EXCEPT ![d] = 0]
  /\ charged' = [charged EXCEPT ![d] = 0]
  /\ steady' = steady \ {d}
  /\ done' = [now |-> done.now, dbs |-> done.dbs \ {d}]
  /\ UNCHANGED <<timerVars, previous, usedMounts, run>>

-----------------------------------------------------------------------------

Init ==
  /\ clock = 0 /\ nextTick = Interval
  /\ waiting = FALSE /\ continuations = 0 /\ upgrades = 0
  /\ mount = [d \in Databases |-> 0]
  /\ previous = [d \in Databases |-> 0]
  /\ usedMounts = {}
  /\ chargedAt = [d \in Databases |-> 0]
  /\ since = [d \in Databases |-> 0]
  /\ charged = [d \in Databases |-> 0]
  /\ run = NoRun
  /\ steady = {}
  /\ done = [now |-> 0, dbs |-> {}]

DatabaseStep(d) ==
  \/ \E m \in 1..MaxMountId, began \in 0..MaxTime : ActivateDatabase(d, m, began)
  \/ \E m \in 1..MaxMountId : SwitchMount(d, m)
  \/ RollbackMount(d)
  \/ ResumeWrites(d)
  \/ DeleteDatabase(d)

Next ==
  \/ Advance
  \/ Tick
  \/ TimerRuns
  \/ \E j \in 0..BatchesPerMessage - 1, committed \in BOOLEAN : TimerFails(j, committed)
  \/ \E cursor \in 0..MaxMountId, limit \in 1..Cardinality(Databases) :
       ControllerBatch(cursor, limit)
  \/ Upgrade
  \/ \E d \in Databases : DatabaseStep(d)

Spec == Init /\ [][Next]_vars

\* Time passes, due timers fire (the IC runs them), and a message that can
\* succeed again and again is not failed by storage for ever.
Fairness == WF_vars(Advance) /\ WF_vars(Tick) /\ SF_vars(TimerRuns)

FairSpec == Spec /\ Fairness

-----------------------------------------------------------------------------
(* Properties                                                              *)

\* Timers, rows and the stored run hold what the code can write; in particular
\* a continuation sets no more timers than it uses up.
TypeOK ==
  /\ clock \in 0..MaxTime /\ nextTick \in Nat
  /\ waiting \in BOOLEAN /\ continuations \in 0..MaxContinuations
  /\ upgrades \in 0..MaxUpgrades
  /\ mount \in [Databases -> 0..MaxMountId]
  /\ previous \in [Databases -> 0..MaxMountId]
  /\ usedMounts \in SUBSET (1..MaxMountId)
  /\ chargedAt \in [Databases -> 0..MaxTime]
  /\ since \in [Databases -> 0..MaxTime]
  /\ charged \in [Databases -> Nat]
  /\ run \in [on : BOOLEAN, cursor : 0..MaxMountId, now : 0..MaxTime]
  /\ steady \in SUBSET Databases
  /\ done \in [now : 0..MaxTime, dbs : SUBSET Databases]

\* A database is never charged for more time than passed: timer runs with an
\* old billing_now_ms, batches charged twice after a lost cursor, controller
\* batches in between and mount switches charge no span of time twice.
NeverOvercharged ==
  \A d \in Active : charged[d] * GibBytes <= SizeBytes * (clock - since[d])

\* A timer run that ends has reached every database that was there and in
\* place since it began: none is skipped between two batches.
RunSkipsNobody ==
  \A d \in done.dbs : done.now - chargedAt[d] < Interval

\* A stored run does not stay for ever, through errors and upgrades.
RunCompletes == run.on ~> ~run.on

=============================================================================
