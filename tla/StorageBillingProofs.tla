------------------------- MODULE StorageBillingProofs -------------------------
(* Theorems about StorageBilling, for any set of databases, any batch      *)
(* sizes, interval, size and rate, and any order of timers, controller     *)
(* batches, errors, upgrades and mount switches.                           *)
EXTENDS StorageBilling, FiniteSetTheorems, TLAPS

-----------------------------------------------------------------------------
(* The inductive invariant                                                 *)

\* The part of the types that charging depends on.
BillTypes ==
  /\ clock \in Nat
  /\ chargedAt \in [Databases -> Nat]
  /\ since \in [Databases -> Nat]
  /\ charged \in [Databases -> Nat]
  /\ run.now \in Nat

\* No charge lies in the future, and what was charged is for the time up to
\* the last charge, not only for the time up to now.
PaidUpTo(d) ==
  /\ since[d] <= chargedAt[d]
  /\ chargedAt[d] <= clock
  /\ charged[d] * GibBytes <= SizeBytes * (chargedAt[d] - since[d])

\* A stored run has a billing_now_ms of the past.
RunIsPast == run.now <= clock

BillInv == BillTypes /\ RunIsPast /\ \A d \in Databases : PaidUpTo(d)

-----------------------------------------------------------------------------
(* Arithmetic of one charge                                                *)

\* Integer division rounds the charge down.
LEMMA ChargeRoundsDown ==
  ASSUME NEW x \in Nat, NEW g \in Nat \ {0}
  PROVE  x \div g \in Nat /\ (x \div g) * g <= x
  OBVIOUS

\* A product of naturals is a natural.
LEMMA ProductIsNatural ==
  ASSUME NEW x \in Nat, NEW y \in Nat
  PROVE  x * y \in Nat
  OBVIOUS

\* Charges for two adjacent spans add up to at most the charge for both.
LEMMA SpansAddUp ==
  ASSUME NEW s \in Nat, NEW g \in Nat, NEW a \in Nat, NEW b \in Nat, NEW c \in Nat,
         NEW p \in Nat, NEW q \in Nat, a <= b, b <= c,
         p * g <= s * (b - a), q * g <= s * (c - b)
  PROVE  (p + q) * g <= s * (c - a)
<1>1. (p + q) * g = p * g + q * g
  OBVIOUS
<1>2. s * (c - a) = s * (b - a) + s * (c - b)
  OBVIOUS
<1>3. p * g \in Int /\ q * g \in Int /\ s * (b - a) \in Int /\ s * (c - b) \in Int
  OBVIOUS
<1> QED
  BY <1>1, <1>2, <1>3

\* A later instant only allows more.
LEMMA MoreTimeMoreDue ==
  ASSUME NEW s \in Nat, NEW x \in Int, NEW y \in Int, x <= y
  PROVE  s * x <= s * y
  OBVIOUS

\* compute_storage_charge_cycles charges at most the size for the time.
LEMMA StorageCyclesBound ==
  ASSUME NEW elapsed \in Nat
  PROVE  /\ StorageCycles(elapsed) \in Nat
         /\ StorageCycles(elapsed) * GibBytes <= SizeBytes * elapsed
<1>1. SizeBytes \in Nat /\ GibBytes \in Nat \ {0}
  BY BillingAssumption
<1>2. SizeBytes * elapsed \in Nat
  BY <1>1, ProductIsNatural
<1>3. CASE elapsed <= 0
  <2>1. elapsed = 0 /\ StorageCycles(elapsed) = 0
    BY <1>3 DEF StorageCycles
  <2> QED
    BY <2>1, <1>1
<1>4. CASE ~(elapsed <= 0)
  <2>1. StorageCycles(elapsed) = (SizeBytes * elapsed) \div GibBytes
    BY <1>4 DEF StorageCycles
  <2> HIDE DEF StorageCycles
  <2> QED
    BY <2>1, <1>1, <1>2, ChargeRoundsDown
<1> QED
  BY <1>3, <1>4

-----------------------------------------------------------------------------
(* Steps                                                                   *)

\* A batch settled at any instant that is not in the future, over any set of
\* databases, charges no span of time twice: a database charged at that
\* instant or later is not due.
LEMMA SettleKeepsPaidUpTo ==
  ASSUME BillInv, NEW S, NEW now \in Nat, now <= clock, Settle(S, now),
         UNCHANGED <<clock, since>>
  PROVE  /\ chargedAt' \in [Databases -> Nat]
         /\ charged' \in [Databases -> Nat]
         /\ \A d \in Databases : PaidUpTo(d)'
<1> DEFINE billed(d) == d \in S /\ IsDue(d, now)
<1>1. /\ chargedAt' = [d \in Databases |-> IF billed(d) THEN now ELSE chargedAt[d]]
      /\ charged' = [d \in Databases |->
           IF billed(d) THEN charged[d] + StorageCycles(now - chargedAt[d]) ELSE charged[d]]
  BY DEF Settle
<1> HIDE DEF billed
<1>2. ASSUME NEW d \in Databases
      PROVE  chargedAt'[d] \in Nat /\ charged'[d] \in Nat /\ PaidUpTo(d)'
  <2>1. /\ chargedAt[d] \in Nat /\ since[d] \in Nat /\ charged[d] \in Nat /\ clock \in Nat
        /\ since[d] <= chargedAt[d] /\ chargedAt[d] <= clock
        /\ charged[d] * GibBytes <= SizeBytes * (chargedAt[d] - since[d])
    BY DEF BillInv, BillTypes, PaidUpTo
  <2>2. SizeBytes \in Nat /\ GibBytes \in Nat /\ Interval \in Nat
    BY BillingAssumption
  <2>3. CASE billed(d)
    <3>1. now - chargedAt[d] >= Interval
      BY <2>3 DEF billed, IsDue
    <3>2. now - chargedAt[d] \in Nat /\ chargedAt[d] <= now
      BY <3>1, <2>1, <2>2
    <3> DEFINE cycles == StorageCycles(now - chargedAt[d])
    <3>3. cycles \in Nat /\ cycles * GibBytes <= SizeBytes * (now - chargedAt[d])
      BY <3>2, StorageCyclesBound
    <3>4. chargedAt'[d] = now /\ charged'[d] = charged[d] + cycles
      BY <1>1, <2>3
    <3> HIDE DEF cycles
    <3>5. (charged[d] + cycles) * GibBytes <= SizeBytes * (now - since[d])
      BY <2>1, <2>2, <3>2, <3>3, SpansAddUp
    <3>6. since'[d] = since[d] /\ clock' = clock
      OBVIOUS
    <3>7. since[d] <= now /\ charged[d] + cycles \in Nat
      BY <2>1, <3>2, <3>3
    <3> QED
      BY <3>4, <3>5, <3>6, <3>7 DEF PaidUpTo
  <2>4. CASE ~billed(d)
    <3>1. chargedAt'[d] = chargedAt[d] /\ charged'[d] = charged[d]
      BY <1>1, <2>4
    <3> QED
      BY <3>1, <2>1 DEF PaidUpTo
  <2> QED
    BY <2>3, <2>4
<1>3. chargedAt' \in [Databases -> Nat] /\ charged' \in [Databases -> Nat]
  <2> DEFINE f == [d \in Databases |-> IF billed(d) THEN now ELSE chargedAt[d]]
             g == [d \in Databases |->
                    IF billed(d) THEN charged[d] + StorageCycles(now - chargedAt[d])
                    ELSE charged[d]]
  <2>1. chargedAt' = f /\ charged' = g
    BY <1>1
  <2>2. \A d \in Databases : f[d] \in Nat /\ g[d] \in Nat
    BY <1>2, <2>1
  <2>3. f \in [Databases -> Nat] /\ g \in [Databases -> Nat]
    BY <2>2
  <2> HIDE DEF f, g
  <2> QED
    BY <2>1, <2>3
<1> QED
  BY <1>2, <1>3

\* load_or_create_storage_billing_timer_state bills at an instant of the past.
LEMMA CurrentIsPast ==
  ASSUME BillInv
  PROVE  Current.now \in Nat /\ Current.now <= clock
  BY DEF BillInv, BillTypes, RunIsPast, Current

\* A database whose rows a step does not touch stays paid up when time does
\* not run backwards.
LEMMA PaidUpToStays ==
  ASSUME BillInv, NEW d \in Databases, clock' \in Nat, clock <= clock',
         since'[d] = since[d], chargedAt'[d] = chargedAt[d], charged'[d] = charged[d]
  PROVE  PaidUpTo(d)'
  BY DEF BillInv, BillTypes, PaidUpTo

\* A database created, activated or deleted starts with nothing charged.
LEMMA PaidUpToStarts ==
  ASSUME NEW d \in Databases, clock' \in Nat, NEW t \in Nat, t <= clock',
         since'[d] = t, chargedAt'[d] = t, charged'[d] = 0
  PROVE  PaidUpTo(d)'
<1>1. SizeBytes \in Nat /\ GibBytes \in Nat
  BY BillingAssumption
<1>2. charged'[d] * GibBytes = 0 /\ SizeBytes * (chargedAt'[d] - since'[d]) = 0
  BY <1>1
<1> QED
  BY <1>2 DEF PaidUpTo

\* Every step keeps the invariant.  Which databases a batch takes does not
\* matter, so nothing is needed of cursors and mounts.
LEMMA BillInvStep ==
  ASSUME BillInv, [Next]_vars
  PROVE  BillInv'
<1> USE DEF BillInv
<1>t. BillTypes
  OBVIOUS
<1>1. CASE UNCHANGED <<clock, billVars, run, since>>
  BY <1>1 DEF BillTypes, RunIsPast, PaidUpTo, billVars
<1>2. CASE Advance
  <2>1. clock' \in Nat /\ clock <= clock' /\ UNCHANGED <<chargedAt, charged, run, since>>
    BY <1>2, <1>t DEF Advance, BillTypes, billVars, runVars
  <2>2. \A d \in Databases : PaidUpTo(d)'
    BY <2>1, PaidUpToStays
  <2>3. BillTypes' /\ RunIsPast'
    BY <2>1 DEF BillTypes, RunIsPast
  <2> QED
    BY <2>2, <2>3
<1>3. CASE Tick \/ Upgrade
  BY <1>1, <1>3 DEF Tick, Upgrade, billVars, runVars
<1>4. CASE TimerRuns
  <2>1. UNCHANGED <<clock, since>> /\ \E n : Settle(First(n, Current.cursor), Current.now)
    BY <1>4 DEF TimerRuns
  <2>2. /\ chargedAt' \in [Databases -> Nat] /\ charged' \in [Databases -> Nat]
        /\ \A d \in Databases : PaidUpTo(d)'
    BY <2>1, CurrentIsPast, SettleKeepsPaidUpTo
  <2>3. run' = NoRun \/ run'.now = Current.now
    BY <1>4 DEF TimerRuns
  <2>4. run'.now \in Nat /\ run'.now <= clock
    BY <2>3, <1>t, CurrentIsPast DEF BillTypes, NoRun
  <2> QED
    BY <2>1, <2>2, <2>4, <1>t DEF BillTypes, RunIsPast
<1>5. ASSUME NEW j \in 0..BatchesPerMessage - 1, NEW committed \in BOOLEAN,
             TimerFails(j, committed)
      PROVE  BillInv'
  <2>1. UNCHANGED <<clock, since>> /\ \E n : Settle(First(n, Current.cursor), Current.now)
    BY <1>5 DEF TimerFails
  <2>2. /\ chargedAt' \in [Databases -> Nat] /\ charged' \in [Databases -> Nat]
        /\ \A d \in Databases : PaidUpTo(d)'
    BY <2>1, CurrentIsPast, SettleKeepsPaidUpTo
  <2>3. run'.now = Current.now
    BY <1>5 DEF TimerFails
  <2> QED
    BY <2>1, <2>2, <2>3, <1>t, CurrentIsPast DEF BillTypes, RunIsPast
<1>6. ASSUME NEW cursor, NEW limit, ControllerBatch(cursor, limit)
      PROVE  BillInv'
  <2>1. UNCHANGED <<clock, since, run>> /\ Settle(First(limit, cursor), clock)
    BY <1>6 DEF ControllerBatch, timerVars, runVars
  <2>2. clock \in Nat /\ clock <= clock
    BY <1>t DEF BillTypes
  <2>3. /\ chargedAt' \in [Databases -> Nat] /\ charged' \in [Databases -> Nat]
        /\ \A d \in Databases : PaidUpTo(d)'
    BY <2>1, <2>2, SettleKeepsPaidUpTo
  <2> QED
    BY <2>1, <2>3, <1>t DEF BillTypes, RunIsPast
<1>7. ASSUME NEW d \in Databases, NEW m, NEW began \in 0..MaxTime, ActivateDatabase(d, m, began)
      PROVE  BillInv'
  <2>1. /\ UNCHANGED <<clock, run>> /\ began \in Nat /\ began <= clock
        /\ chargedAt' = [chargedAt EXCEPT ![d] = began]
        /\ since' = [since EXCEPT ![d] = began]
        /\ charged' = [charged EXCEPT ![d] = 0]
    BY <1>7 DEF ActivateDatabase, timerVars, runVars
  <2>2. BillTypes' /\ RunIsPast'
    BY <2>1, <1>t DEF BillTypes, RunIsPast
  <2>3. PaidUpTo(d)'
    <3>1. since'[d] = began /\ chargedAt'[d] = began /\ charged'[d] = 0 /\ clock' \in Nat
      BY <2>1, <1>t DEF BillTypes
    <3> QED
      BY <3>1, <2>1, PaidUpToStarts
  <2>4. \A e \in Databases \ {d} : PaidUpTo(e)'
    BY <2>1, <1>t, PaidUpToStays DEF BillTypes
  <2> QED
    BY <2>2, <2>3, <2>4
<1>8. ASSUME NEW d \in Databases, NEW m, SwitchMount(d, m)
      PROVE  BillInv'
  BY <1>1, <1>8 DEF SwitchMount, timerVars
<1>9. ASSUME NEW d \in Databases, RollbackMount(d) \/ ResumeWrites(d)
      PROVE  BillInv'
  BY <1>1, <1>9 DEF RollbackMount, ResumeWrites, timerVars, runVars
<1>10. ASSUME NEW d \in Databases, DeleteDatabase(d)
       PROVE  BillInv'
  <2>1. /\ UNCHANGED <<clock, run>>
        /\ chargedAt' = [chargedAt EXCEPT ![d] = 0]
        /\ since' = [since EXCEPT ![d] = 0]
        /\ charged' = [charged EXCEPT ![d] = 0]
    BY <1>10 DEF DeleteDatabase, timerVars
  <2>2. BillTypes' /\ RunIsPast'
    BY <2>1, <1>t DEF BillTypes, RunIsPast
  <2>3. PaidUpTo(d)'
    <3>1. /\ since'[d] = 0 /\ chargedAt'[d] = 0 /\ charged'[d] = 0
          /\ clock' \in Nat /\ 0 <= clock'
      BY <2>1, <1>t DEF BillTypes
    <3> QED
      BY <3>1, PaidUpToStarts
  <2>4. \A e \in Databases \ {d} : PaidUpTo(e)'
    BY <2>1, <1>t, PaidUpToStays DEF BillTypes
  <2> QED
    BY <2>2, <2>3, <2>4
<1>11. CASE UNCHANGED vars
  BY <1>1, <1>11 DEF vars, timerVars, runVars
<1>12. CASE Next
  <2>1. CASE \E d \in Databases : DatabaseStep(d)
    BY <2>1, <1>7, <1>8, <1>9, <1>10 DEF DatabaseStep
  <2> QED
    BY <1>12, <2>1, <1>2, <1>3, <1>4, <1>5, <1>6 DEF Next
<1> QED
  BY <1>11, <1>12

\* Nothing is charged or stored at the start.
LEMMA BillInvInit ==
  ASSUME Init
  PROVE  BillInv
<1>1. SizeBytes \in Nat /\ GibBytes \in Nat
  BY BillingAssumption
<1>2. /\ clock = 0 /\ run.now = 0
      /\ chargedAt = [d \in Databases |-> 0]
      /\ since = [d \in Databases |-> 0]
      /\ charged = [d \in Databases |-> 0]
  BY DEF Init, NoRun
<1>3. \A d \in Databases : PaidUpTo(d)
  BY <1>1, <1>2 DEF PaidUpTo
<1> QED
  BY <1>2, <1>3 DEF BillInv, BillTypes, RunIsPast

\* What was charged up to the last charge is also covered by the time up to
\* now.
LEMMA BillInvBounds ==
  ASSUME BillInv
  PROVE  NeverOvercharged
<1> SUFFICES ASSUME NEW d \in Active
             PROVE  charged[d] * GibBytes <= SizeBytes * (clock - since[d])
  BY DEF NeverOvercharged
<1>1. d \in Databases
  BY DEF Active
<1>2. SizeBytes \in Nat /\ GibBytes \in Nat
  BY BillingAssumption
<1>3. /\ chargedAt[d] \in Nat /\ since[d] \in Nat /\ charged[d] \in Nat /\ clock \in Nat
      /\ chargedAt[d] <= clock
      /\ charged[d] * GibBytes <= SizeBytes * (chargedAt[d] - since[d])
  BY <1>1 DEF BillInv, BillTypes, PaidUpTo
<1>4. chargedAt[d] - since[d] <= clock - since[d]
  BY <1>3
<1>5. SizeBytes * (chargedAt[d] - since[d]) <= SizeBytes * (clock - since[d])
  BY <1>2, <1>3, <1>4, MoreTimeMoreDue
<1>6. /\ charged[d] * GibBytes \in Int /\ SizeBytes * (chargedAt[d] - since[d]) \in Int
      /\ SizeBytes * (clock - since[d]) \in Int
  BY <1>2, <1>3
<1> QED
  BY <1>3, <1>5, <1>6

-----------------------------------------------------------------------------
(* A run reaches everybody: the second inductive invariant                 *)

\* Reached by the current run: nothing is due at its billing_now_ms.
Reached(d, now) == now - chargedAt[d] < Interval

\* While a run is stored, the databases in place since it began are active,
\* and those whose mount the cursor has passed were reached.
CursorInv ==
  run.on => \A d \in steady : d \in Active /\ (mount[d] <= run.cursor => Reached(d, run.now))

\* The databases a completed run had to reach are still active and reached.
DoneInv == \A d \in done.dbs : d \in Active /\ Reached(d, done.now)

RunInv == TypeOK /\ CursorInv /\ DoneInv

-----------------------------------------------------------------------------
(* The order of the mounts                                                 *)

\* A finite set of numbers that is not empty has a largest element.
LEMMA LargestExists ==
  ASSUME NEW S, IsFiniteSet(S), S # {}, S \subseteq Nat
  PROVE  \E x \in S : \A y \in S : x >= y
<1> DEFINE above(x) == {y \in S : y > x}
           T == {above(x) : x \in S}
<1>1. IsWellFoundedOn(StrictSubsetOrdering(S), FiniteSubsetsOf(S))
  BY FS_StrictSubsetOrderingWellFounded
<1>2. T \subseteq FiniteSubsetsOf(S)
  <2>1. SUBSET S = FiniteSubsetsOf(S)
    BY FS_FiniteSubsetsOfFinite
  <2> QED
    BY <2>1
<1>3. T # {}
  OBVIOUS
<1>4. PICK U \in T : \A V \in T : ~(<<V, U>> \in StrictSubsetOrdering(S))
  <2> HIDE DEF T
  <2> QED
    BY <1>1, <1>2, <1>3, WFMin
<1>5. PICK x \in S : U = above(x)
  OBVIOUS
<1>6. ASSUME NEW y \in S, y > x
      PROVE  FALSE
  <2>1. above(y) \in T /\ above(y) \subseteq S /\ above(x) \subseteq S
    OBVIOUS
  <2>2. above(y) \subseteq above(x)
    <3> SUFFICES ASSUME NEW z \in S, z > y
                 PROVE  z > x
      OBVIOUS
    <3>1. x \in Int /\ y \in Int /\ z \in Int
      OBVIOUS
    <3> QED
      BY <3>1, <1>6
  <2>3. y \in above(x) /\ y \notin above(y)
    BY <1>6
  <2> HIDE DEF above, T
  <2>4. <<above(y), above(x)>> \in StrictSubsetOrdering(S)
    BY <2>1, <2>2, <2>3 DEF StrictSubsetOrdering
  <2> QED
    BY <2>1, <2>4, <1>4, <1>5
<1> QED
  BY <1>6

\* The cursor after a batch is the largest mount of the batch.
LEMMA NextCursorIsLast ==
  ASSUME TypeOK, NEW n, NEW cursor \in 0..MaxMountId
  PROVE  /\ NextCursor(n, cursor) \in 0..MaxMountId
         /\ First(n, cursor) = {} => NextCursor(n, cursor) = cursor
         /\ First(n, cursor) # {} =>
              \E d \in First(n, cursor) : NextCursor(n, cursor) = mount[d]
<1>1. CASE First(n, cursor) = {}
  BY <1>1 DEF NextCursor
<1>2. CASE First(n, cursor) # {}
  <2> DEFINE M == {mount[d] : d \in First(n, cursor)}
  <2>1. First(n, cursor) \subseteq Databases
    BY DEF First, After, Active
  <2>2. M \subseteq 0..MaxMountId
    BY <2>1 DEF TypeOK
  <2>3. IsFiniteSet(M)
    <3>1. IsFiniteSet(0..MaxMountId)
      BY BillingAssumption, FS_Interval
    <3> HIDE DEF M
    <3> QED
      BY <3>1, <2>2, FS_Subset
  <2>4. M # {} /\ M \subseteq Nat
    BY <1>2, <2>2
  <2>5. NextCursor(n, cursor) = Max(M)
    BY <1>2 DEF NextCursor
  <2>6. Max(M) \in M
    <3>1. \E x \in M : \A y \in M : x >= y
      <4> HIDE DEF M
      <4> QED
        BY <2>3, <2>4, LargestExists
    <3> HIDE DEF M
    <3> QED
      BY <3>1 DEF Max
  <2> QED
    BY <2>2, <2>5, <2>6, <1>2
<1> QED
  BY <1>1, <1>2

\* A batch takes a prefix in the order of the mounts.
LEMMA FirstIsPrefix ==
  ASSUME TypeOK, NEW n \in Nat, NEW cursor, NEW d \in After(cursor), NEW e \in First(n, cursor),
         mount[d] <= mount[e]
  PROVE  d \in First(n, cursor)
<1> DEFINE before(x) == {y \in After(cursor) : mount[y] < mount[x]}
<1>1. e \in After(cursor) /\ After(cursor) \subseteq Databases
  BY DEF First, After, Active
<1>2. \A x \in After(cursor) : mount[x] \in Int
  BY <1>1 DEF TypeOK
<1>3. before(d) \subseteq before(e)
  BY <1>1, <1>2
<1>4. IsFiniteSet(before(e))
  <2>1. before(e) \subseteq Databases
    BY <1>1
  <2> HIDE DEF before
  <2> QED
    BY <2>1, BillingAssumption, FS_Subset
<1>5. Cardinality(before(d)) <= Cardinality(before(e)) /\ IsFiniteSet(before(d))
  <2> HIDE DEF before
  <2> QED
    BY <1>3, <1>4, FS_Subset
<1>6. Cardinality(before(d)) \in Nat /\ Cardinality(before(e)) \in Nat
  <2> HIDE DEF before
  <2> QED
    BY <1>4, <1>5, FS_CardinalityType
<1>7. Cardinality(before(e)) < n
  BY DEF First
<1>8. Cardinality(before(d)) < n
  <2> HIDE DEF before
  <2> QED
    BY <1>5, <1>6, <1>7
<1> QED
  BY <1>8 DEF First

\* A larger limit takes no fewer.
LEMMA FirstGrows ==
  ASSUME NEW n \in Nat, NEW k \in Nat, n <= k, NEW cursor
  PROVE  First(n, cursor) \subseteq First(k, cursor)
<1> SUFFICES ASSUME NEW d \in First(n, cursor)
             PROVE  d \in First(k, cursor)
  OBVIOUS
<1> DEFINE before == {y \in After(cursor) : mount[y] < mount[d]}
<1>1. Cardinality(before) < n
  BY DEF First
<1>2. Cardinality(before) \in Nat
  <2>1. before \subseteq Databases
    BY DEF After, Active
  <2> HIDE DEF before
  <2> QED
    BY <2>1, BillingAssumption, FS_Subset, FS_CardinalityType
<1>3. Cardinality(before) < k
  <2> HIDE DEF before
  <2> QED
    BY <1>1, <1>2
<1> QED
  BY <1>3 DEF First

\* What lies between the old cursor and the new one was in the batch.
LEMMA CursorPassesOnlyTheBatch ==
  ASSUME TypeOK, NEW n \in Nat, NEW cursor \in 0..MaxMountId, NEW d \in Active,
         mount[d] > cursor, mount[d] <= NextCursor(n, cursor)
  PROVE  d \in First(n, cursor)
<1>1. d \in After(cursor)
  BY DEF After
<1>2. mount[d] \in Int
  BY DEF TypeOK, Active
<1>3. First(n, cursor) # {}
  BY <1>2, NextCursorIsLast
<1>4. PICK e \in First(n, cursor) : NextCursor(n, cursor) = mount[e]
  BY <1>3, NextCursorIsLast
<1> QED
  BY <1>1, <1>4, FirstIsPrefix

-----------------------------------------------------------------------------
(* Steps of the second invariant                                           *)

\* load_or_create_storage_billing_timer_state
LEMMA CurrentTypes ==
  ASSUME TypeOK
  PROVE  Current.cursor \in 0..MaxMountId /\ Current.now \in 0..MaxTime
<1>1. 0 \in 0..MaxMountId
  BY BillingAssumption
<1> QED
  BY <1>1 DEF TypeOK, Current

\* A batch never moves a charge back, and leaves nothing due in what it took.
LEMMA SettleReaches ==
  ASSUME TypeOK, NEW S, NEW now \in 0..MaxTime, Settle(S, now)
  PROVE  /\ chargedAt' \in [Databases -> 0..MaxTime]
         /\ charged' \in [Databases -> Nat]
         /\ \A d \in Databases : chargedAt[d] <= chargedAt'[d]
         /\ \A d \in S \cap Databases : now - chargedAt'[d] < Interval
<1>1. Interval \in Nat \ {0} /\ MaxTime \in Nat
  BY BillingAssumption
<1> DEFINE billed(d) == d \in S /\ now - chargedAt[d] >= Interval
<1>2. /\ chargedAt' = [d \in Databases |-> IF billed(d) THEN now ELSE chargedAt[d]]
      /\ charged' = [d \in Databases |->
           IF billed(d) THEN charged[d] + StorageCycles(now - chargedAt[d]) ELSE charged[d]]
  BY DEF Settle, IsDue
<1>3. chargedAt \in [Databases -> 0..MaxTime] /\ charged \in [Databases -> Nat]
  BY DEF TypeOK
<1>4. ASSUME NEW d \in Databases
      PROVE  /\ chargedAt'[d] \in 0..MaxTime
             /\ charged'[d] \in Nat
             /\ chargedAt[d] <= chargedAt'[d]
             /\ d \in S => now - chargedAt'[d] < Interval
  <2>1. chargedAt[d] \in 0..MaxTime /\ charged[d] \in Nat
    BY <1>3
  <2>2. CASE billed(d)
    <3>1. now - chargedAt[d] \in Nat
      BY <2>1, <2>2, <1>1
    <3>2. StorageCycles(now - chargedAt[d]) \in Nat
      BY <3>1, StorageCyclesBound
    <3> QED
      BY <3>1, <3>2, <2>1, <2>2, <1>1, <1>2
  <2>3. CASE ~billed(d)
    <3>1. chargedAt'[d] = chargedAt[d] /\ charged'[d] = charged[d]
      BY <1>2, <2>3
    <3> QED
      BY <3>1, <2>1, <2>3, <1>1
  <2> QED
    BY <2>2, <2>3
<1>5. /\ chargedAt' = [d \in Databases |-> chargedAt'[d]]
      /\ charged' = [d \in Databases |-> charged'[d]]
  BY <1>2
<1> HIDE DEF billed
<1> QED
  BY <1>4, <1>5

\* Databases that were reached stay so while charges only move forward.
LEMMA ReachedStays ==
  ASSUME NEW d \in Databases, NEW now \in Nat, chargedAt[d] \in Nat, chargedAt'[d] \in Nat,
         chargedAt[d] <= chargedAt'[d], Reached(d, now)
  PROVE  now - chargedAt'[d] < Interval
<1>1. Interval \in Nat
  BY BillingAssumption
<1> QED
  BY <1>1 DEF Reached

\* A message of the timer changes its own flags only.
LEMMA MessageTypes ==
  ASSUME TypeOK, NEW again \in {0, 1}, Message(again)
  PROVE  waiting' \in BOOLEAN /\ continuations' \in 0..MaxContinuations
<1>1. MaxContinuations \in Nat \ {0} /\ continuations \in 0..MaxContinuations
  BY BillingAssumption DEF TypeOK
<1>2. CASE waiting' = FALSE /\ continuations' = continuations + again
           /\ continuations + again <= MaxContinuations
  <2>1. continuations' \in 0..MaxContinuations
    BY <1>1, <1>2
  <2> QED
    BY <2>1, <1>2
<1>3. CASE continuations > 0 /\ continuations' = continuations - 1 + again
           /\ UNCHANGED waiting
  <2>1. continuations' \in 0..MaxContinuations
    BY <1>1, <1>3
  <2> QED
    BY <2>1, <1>3 DEF TypeOK
<1> QED
  BY <1>2, <1>3 DEF Message

\* A batch of the timer writes a run that is well typed.
LEMMA RunTypes ==
  ASSUME TypeOK, NEW n
  PROVE  /\ NoRun \in [on : BOOLEAN, cursor : 0..MaxMountId, now : 0..MaxTime]
         /\ [on |-> TRUE, cursor |-> NextCursor(n, Current.cursor), now |-> Current.now]
              \in [on : BOOLEAN, cursor : 0..MaxMountId, now : 0..MaxTime]
         /\ InPlace \in SUBSET Databases
<1>1. 0 \in 0..MaxMountId /\ 0 \in 0..MaxTime
  BY BillingAssumption
<1>2. NextCursor(n, Current.cursor) \in 0..MaxMountId /\ Current.now \in 0..MaxTime
  BY CurrentTypes, NextCursorIsLast
<1> HIDE DEF NextCursor, Current
<1> QED
  BY <1>1, <1>2 DEF NoRun, InPlace, Active, TypeOK

\* Every step keeps the types.
LEMMA TypesStep ==
  ASSUME TypeOK, [Next]_vars
  PROVE  TypeOK'
<1>b. /\ MaxMountId \in Nat /\ MaxTime \in Nat /\ Interval \in Nat \ {0} /\ MaxUpgrades \in Nat
      /\ MaxContinuations \in Nat
  BY BillingAssumption
<1>1. CASE Advance
  <2>1. clock' \in 0..MaxTime
    BY <1>1, <1>b DEF Advance, TypeOK
  <2> QED
    BY <1>1, <2>1 DEF Advance, TypeOK, rowVars, billVars, runVars
<1>2. CASE Tick
  <2>1. nextTick' \in Nat
    BY <1>2, <1>b DEF Tick, TypeOK
  <2> QED
    BY <1>2, <2>1 DEF Tick, TypeOK, rowVars, billVars, runVars
<1>3. CASE TimerRuns
  <2> DEFINE n == BatchesPerMessage * BatchLimit
             more == After(Current.cursor) # First(n, Current.cursor)
  <2>1. /\ Message(IF more THEN 1 ELSE 0)
        /\ Settle(First(n, Current.cursor), Current.now)
        /\ IF more
           THEN /\ run' = [on |-> TRUE, cursor |-> NextCursor(n, Current.cursor),
                           now |-> Current.now]
                /\ steady' = InPlace
                /\ UNCHANGED done
           ELSE /\ run' = NoRun
                /\ steady' = {}
                /\ done' = [now |-> Current.now, dbs |-> InPlace]
        /\ UNCHANGED <<clock, nextTick, upgrades, rowVars, since>>
    BY <1>3 DEF TimerRuns
  <2> HIDE DEF n, more
  <2>2. chargedAt' \in [Databases -> 0..MaxTime] /\ charged' \in [Databases -> Nat]
    BY <2>1, CurrentTypes, SettleReaches
  <2>3. waiting' \in BOOLEAN /\ continuations' \in 0..MaxContinuations
    <3>1. PICK again \in {0, 1} : Message(again)
      BY <2>1
    <3> QED
      BY <3>1, MessageTypes
  <2>4. /\ run' \in [on : BOOLEAN, cursor : 0..MaxMountId, now : 0..MaxTime]
        /\ steady' \in SUBSET Databases
        /\ done' \in [now : 0..MaxTime, dbs : SUBSET Databases]
    <3>1. done \in [now : 0..MaxTime, dbs : SUBSET Databases] /\ Current.now \in 0..MaxTime
      BY CurrentTypes DEF TypeOK
    <3> HIDE DEF Current, NextCursor, InPlace, NoRun
    <3>2. CASE more
      BY <2>1, <3>1, <3>2, RunTypes
    <3>3. CASE ~more
      BY <2>1, <3>1, <3>3, RunTypes
    <3> QED
      BY <3>2, <3>3
  <2>5. /\ clock' \in 0..MaxTime /\ nextTick' \in Nat /\ upgrades' \in 0..MaxUpgrades
        /\ mount' \in [Databases -> 0..MaxMountId]
        /\ previous' \in [Databases -> 0..MaxMountId]
        /\ usedMounts' \in SUBSET (1..MaxMountId)
        /\ since' \in [Databases -> 0..MaxTime]
    BY <2>1 DEF TypeOK, rowVars
  <2> QED
    BY <2>2, <2>3, <2>4, <2>5 DEF TypeOK
<1>4. ASSUME NEW j \in 0..BatchesPerMessage - 1, NEW committed \in BOOLEAN,
             TimerFails(j, committed)
      PROVE  TypeOK'
  <2>1. /\ Message(0)
        /\ \E k : Settle(First(k, Current.cursor), Current.now)
        /\ \E k : run' = [on |-> TRUE, cursor |-> NextCursor(k, Current.cursor),
                          now |-> Current.now]
        /\ steady' = InPlace
        /\ UNCHANGED <<clock, nextTick, upgrades, rowVars, since, done>>
    BY <1>4 DEF TimerFails
  <2>2. chargedAt' \in [Databases -> 0..MaxTime] /\ charged' \in [Databases -> Nat]
    BY <2>1, CurrentTypes, SettleReaches
  <2>3. waiting' \in BOOLEAN /\ continuations' \in 0..MaxContinuations
    BY <2>1, MessageTypes
  <2>4. /\ run' \in [on : BOOLEAN, cursor : 0..MaxMountId, now : 0..MaxTime]
        /\ steady' \in SUBSET Databases
    BY <2>1, RunTypes
  <2>5. /\ clock' \in 0..MaxTime /\ nextTick' \in Nat /\ upgrades' \in 0..MaxUpgrades
        /\ mount' \in [Databases -> 0..MaxMountId]
        /\ previous' \in [Databases -> 0..MaxMountId]
        /\ usedMounts' \in SUBSET (1..MaxMountId)
        /\ since' \in [Databases -> 0..MaxTime]
        /\ done' \in [now : 0..MaxTime, dbs : SUBSET Databases]
    BY <2>1 DEF TypeOK, rowVars
  <2> QED
    BY <2>2, <2>3, <2>4, <2>5 DEF TypeOK
<1>5. ASSUME NEW cursor, NEW limit, ControllerBatch(cursor, limit)
      PROVE  TypeOK'
  <2>1. Settle(First(limit, cursor), clock) /\ clock \in 0..MaxTime
    BY <1>5 DEF ControllerBatch, TypeOK
  <2>2. chargedAt' \in [Databases -> 0..MaxTime] /\ charged' \in [Databases -> Nat]
    BY <2>1, SettleReaches
  <2> QED
    BY <1>5, <2>2 DEF ControllerBatch, TypeOK, timerVars, rowVars, runVars
<1>6. CASE Upgrade
  <2>1. nextTick' \in Nat /\ upgrades' \in 0..MaxUpgrades /\ continuations' \in 0..MaxContinuations
    BY <1>6, <1>b DEF Upgrade, TypeOK
  <2>2. waiting' \in BOOLEAN
    BY <1>6 DEF Upgrade
  <2> QED
    BY <1>6, <2>1, <2>2 DEF Upgrade, TypeOK, rowVars, billVars, runVars
<1>7. ASSUME NEW d \in Databases, DatabaseStep(d)
      PROVE  TypeOK'
  <2>z. 0 \in 0..MaxMountId /\ 0 \in 0..MaxTime /\ 1..MaxMountId \subseteq 0..MaxMountId
    BY <1>b
  <2>1. ASSUME NEW m \in 1..MaxMountId, NEW began \in 0..MaxTime, ActivateDatabase(d, m, began)
        PROVE  TypeOK'
    BY <2>1, <2>z DEF ActivateDatabase, TypeOK, timerVars, runVars
  <2>2. ASSUME NEW m \in 1..MaxMountId, SwitchMount(d, m)
        PROVE  TypeOK'
    BY <2>2, <2>z DEF SwitchMount, TypeOK, timerVars, billVars
  <2>3. CASE RollbackMount(d)
    BY <2>3, <2>z DEF RollbackMount, TypeOK, timerVars, billVars
  <2>4. CASE ResumeWrites(d)
    BY <2>4, <2>z DEF ResumeWrites, TypeOK, timerVars, billVars, runVars
  <2>5. CASE DeleteDatabase(d)
    BY <2>5, <2>z DEF DeleteDatabase, TypeOK, timerVars
  <2> QED
    BY <1>7, <2>1, <2>2, <2>3, <2>4, <2>5 DEF DatabaseStep
<1>8. CASE UNCHANGED vars
  BY <1>8 DEF TypeOK, vars, timerVars, rowVars, billVars, runVars
<1> QED
  BY <1>1, <1>2, <1>3, <1>4, <1>5, <1>6, <1>7, <1>8 DEF Next

\* Before a batch, the databases in place are active and those up to the cursor
\* are reached: by the stored run, or because a new run has passed nobody.
LEMMA BeforeBatch ==
  ASSUME RunInv, NEW d \in InPlace
  PROVE  d \in Active /\ (mount[d] <= Current.cursor => Reached(d, Current.now))
<1>1. CASE run.on
  BY <1>1 DEF RunInv, CursorInv, InPlace, Current
<1>2. CASE ~run.on
  <2>1. d \in Active /\ Current.cursor = 0
    BY <1>2 DEF InPlace, Current
  <2>2. mount[d] \in 0..MaxMountId /\ mount[d] # 0 /\ MaxMountId \in Nat
    BY <2>1, BillingAssumption DEF Active, RunInv, TypeOK
  <2> QED
    BY <2>1, <2>2
<1> QED
  BY <1>1, <1>2

\* After a batch of the first k, the databases in place up to the mount the
\* cursor moves to are reached, whether or not the cursor is stored.
LEMMA AfterBatch ==
  ASSUME RunInv, NEW n \in Nat, NEW k \in Nat, n <= k,
         Settle(First(k, Current.cursor), Current.now), UNCHANGED mount,
         NEW d \in InPlace, mount[d] <= NextCursor(n, Current.cursor)
  PROVE  Current.now - chargedAt'[d] < Interval
<1>1. TypeOK /\ d \in Active /\ d \in Databases
  BY BeforeBatch DEF RunInv, Active
<1>2. Current.cursor \in 0..MaxMountId /\ Current.now \in 0..MaxTime
  BY <1>1, CurrentTypes
<1>3. /\ chargedAt' \in [Databases -> 0..MaxTime]
      /\ chargedAt[d] <= chargedAt'[d]
      /\ d \in First(k, Current.cursor) => Current.now - chargedAt'[d] < Interval
  BY <1>1, <1>2, SettleReaches
<1>4. chargedAt[d] \in Nat /\ chargedAt'[d] \in Nat /\ Current.now \in Nat /\ mount[d] \in Int
  BY <1>1, <1>2, <1>3, BillingAssumption DEF TypeOK
<1>5. CASE mount[d] <= Current.cursor
  BY <1>5, <1>1, <1>3, <1>4, BeforeBatch, ReachedStays
<1>6. CASE mount[d] > Current.cursor
  <2>1. d \in First(n, Current.cursor)
    BY <1>6, <1>1, <1>2, CursorPassesOnlyTheBatch
  <2> QED
    BY <2>1, <1>3, FirstGrows
<1> QED
  BY <1>2, <1>4, <1>5, <1>6

\* What a completed run reached stays reached by later batches.
LEMMA DoneStays ==
  ASSUME RunInv, NEW S, NEW now \in 0..MaxTime, Settle(S, now), UNCHANGED <<mount, done>>
  PROVE  DoneInv'
<1> SUFFICES ASSUME NEW d \in done.dbs
             PROVE  d \in Active /\ done.now - chargedAt'[d] < Interval
  BY DEF DoneInv, Active, Reached
<1>1. TypeOK /\ d \in Active /\ d \in Databases /\ Reached(d, done.now)
  BY DEF RunInv, DoneInv, Active
<1>2. chargedAt' \in [Databases -> 0..MaxTime] /\ chargedAt[d] <= chargedAt'[d]
  BY <1>1, SettleReaches
<1>3. chargedAt[d] \in Nat /\ chargedAt'[d] \in Nat /\ done.now \in Nat
  BY <1>1, <1>2, BillingAssumption DEF TypeOK
<1> QED
  BY <1>1, <1>2, <1>3, ReachedStays

\* Every step keeps the second invariant.
LEMMA RunInvStep ==
  ASSUME RunInv, [Next]_vars
  PROVE  RunInv'
<1>0. TypeOK /\ TypeOK'
  BY TypesStep DEF RunInv
<1>b. /\ MaxMountId \in Nat /\ MaxTime \in Nat /\ Interval \in Nat \ {0}
      /\ BatchLimit \in Nat \ {0} /\ BatchesPerMessage \in Nat \ {0}
  BY BillingAssumption
<1>c. Current.now \in 0..MaxTime
  BY <1>0, CurrentTypes
<1>1. CASE UNCHANGED <<mount, chargedAt, run, steady, done>>
  BY <1>1, <1>0 DEF RunInv, CursorInv, DoneInv, Active, Reached
<1>2. CASE Advance \/ Tick \/ Upgrade
  BY <1>1, <1>2 DEF Advance, Tick, Upgrade, rowVars, billVars, runVars
<1>3. CASE TimerRuns
  <2> DEFINE n == BatchesPerMessage * BatchLimit
             more == After(Current.cursor) # First(n, Current.cursor)
  <2>1. /\ Settle(First(n, Current.cursor), Current.now)
        /\ more => /\ run' = [on |-> TRUE, cursor |-> NextCursor(n, Current.cursor),
                              now |-> Current.now]
                   /\ steady' = InPlace
                   /\ UNCHANGED done
        /\ ~more => /\ run' = NoRun
                    /\ done' = [now |-> Current.now, dbs |-> InPlace]
        /\ UNCHANGED mount
    BY <1>3 DEF TimerRuns, rowVars
  <2>2. n \in Nat
    BY <1>b, ProductIsNatural
  <2> HIDE DEF n
  <2>3. \A d \in InPlace : d \in Active'
    BY <2>1, BeforeBatch DEF Active
  <2>4. CASE more
    <3>1. DoneInv'
      BY <2>1, <2>4, <1>c, DoneStays
    <3>2. \A d \in InPlace : mount[d] <= NextCursor(n, Current.cursor) =>
            Current.now - chargedAt'[d] < Interval
      BY <2>1, <2>2, AfterBatch
    <3>3. CursorInv'
      <4> HIDE DEF Current, InPlace, NextCursor, more
      <4> QED
        BY <2>1, <2>3, <2>4, <3>2 DEF CursorInv, Reached
    <3> QED
      BY <3>1, <3>3, <1>0 DEF RunInv
  <2>5. CASE ~more
    <3>1. ASSUME NEW d \in InPlace
          PROVE  Current.now - chargedAt'[d] < Interval
      <4>1. d \in Active /\ d \in Databases /\ (mount[d] <= Current.cursor => Reached(d, Current.now))
        BY BeforeBatch DEF Active
      <4>2. /\ chargedAt' \in [Databases -> 0..MaxTime]
            /\ chargedAt[d] <= chargedAt'[d]
            /\ d \in First(n, Current.cursor) => Current.now - chargedAt'[d] < Interval
        BY <2>1, <1>0, <1>c, <4>1, SettleReaches
      <4>3. /\ chargedAt[d] \in Nat /\ chargedAt'[d] \in Nat /\ Current.now \in Nat
            /\ mount[d] \in Int /\ Current.cursor \in Int
        BY <4>1, <4>2, <1>0, <1>b, <1>c, CurrentTypes DEF TypeOK
      <4>4. CASE mount[d] <= Current.cursor
        BY <4>1, <4>2, <4>3, <4>4, ReachedStays
      <4>5. CASE mount[d] > Current.cursor
        BY <4>1, <4>2, <4>5, <2>5 DEF After
      <4> QED
        BY <4>3, <4>4, <4>5
    <3>2. DoneInv'
      BY <2>1, <2>3, <2>5, <3>1 DEF DoneInv, Reached
    <3>3. CursorInv'
      BY <2>1, <2>5 DEF CursorInv, NoRun
    <3> QED
      BY <3>2, <3>3, <1>0 DEF RunInv
  <2> QED
    BY <2>4, <2>5
<1>4. ASSUME NEW j \in 0..BatchesPerMessage - 1, NEW committed \in BOOLEAN,
             TimerFails(j, committed)
      PROVE  RunInv'
  <2> DEFINE n == j * BatchLimit
             k == (IF committed THEN j + 1 ELSE j) * BatchLimit
  <2>1. /\ Settle(First(k, Current.cursor), Current.now)
        /\ run' = [on |-> TRUE, cursor |-> NextCursor(n, Current.cursor), now |-> Current.now]
        /\ steady' = InPlace
        /\ UNCHANGED <<mount, done>>
    BY <1>4 DEF TimerFails, rowVars
  <2>2. n \in Nat /\ k \in Nat /\ n <= k
    <3>1. j \in Nat /\ j + 1 \in Nat /\ BatchLimit \in Nat
      BY <1>b
    <3>2. j * BatchLimit \in Nat /\ (j + 1) * BatchLimit \in Nat
      BY <3>1, ProductIsNatural
    <3>3. (j + 1) * BatchLimit = j * BatchLimit + BatchLimit
      BY <3>1
    <3> QED
      BY <3>1, <3>2, <3>3
  <2> HIDE DEF n, k
  <2>3. \A d \in InPlace : d \in Active'
    BY <2>1, BeforeBatch DEF Active
  <2>4. \A d \in InPlace : mount[d] <= NextCursor(n, Current.cursor) =>
          Current.now - chargedAt'[d] < Interval
    BY <2>1, <2>2, AfterBatch
  <2>5. DoneInv'
    BY <2>1, <1>c, DoneStays
  <2>6. CursorInv'
    <3> HIDE DEF Current, InPlace, NextCursor
    <3> QED
      BY <2>1, <2>3, <2>4 DEF CursorInv, Reached
  <2> QED
    BY <2>5, <2>6, <1>0 DEF RunInv
<1>5. ASSUME NEW cursor, NEW limit, ControllerBatch(cursor, limit)
      PROVE  RunInv'
  <2>1. Settle(First(limit, cursor), clock) /\ UNCHANGED <<mount, run, steady, done>>
    BY <1>5 DEF ControllerBatch, rowVars, runVars
  <2>2. clock \in 0..MaxTime
    BY <1>0 DEF TypeOK
  <2>3. DoneInv'
    BY <2>1, <2>2, DoneStays
  <2>4. ASSUME run.on, NEW d \in steady, mount[d] <= run.cursor
        PROVE  run.now - chargedAt'[d] < Interval
    <3>1. d \in Databases /\ Reached(d, run.now)
      BY <2>4, <1>0 DEF RunInv, CursorInv, TypeOK
    <3>2. chargedAt' \in [Databases -> 0..MaxTime] /\ chargedAt[d] <= chargedAt'[d]
      BY <2>1, <2>2, <1>0, <3>1, SettleReaches
    <3>3. chargedAt[d] \in Nat /\ chargedAt'[d] \in Nat /\ run.now \in Nat
      BY <3>1, <3>2, <1>0, <1>b DEF TypeOK
    <3> QED
      BY <3>1, <3>2, <3>3, ReachedStays
  <2>5. CursorInv'
    BY <2>1, <2>4 DEF RunInv, CursorInv, Reached, Active
  <2> QED
    BY <2>3, <2>5, <1>0 DEF RunInv
<1>6. ASSUME NEW d \in Databases, NEW m \in 1..MaxMountId, NEW began,
             ActivateDatabase(d, m, began)
      PROVE  RunInv'
  <2>1. /\ d \notin Active /\ m # 0
        /\ mount' = [mount EXCEPT ![d] = m]
        /\ chargedAt' = [chargedAt EXCEPT ![d] = began]
        /\ UNCHANGED <<run, steady, done>>
    BY <1>6, <1>b DEF ActivateDatabase, Active, runVars
  <2>2. \A e \in Databases \ {d} : mount'[e] = mount[e] /\ chargedAt'[e] = chargedAt[e]
    BY <2>1, <1>0 DEF TypeOK
  <2>3. \A e \in Active : e \in Active' /\ mount'[e] = mount[e] /\ chargedAt'[e] = chargedAt[e]
    BY <2>1, <2>2 DEF Active
  <2> QED
    BY <2>1, <2>3, <1>0 DEF RunInv, CursorInv, DoneInv, Reached
<1>7. ASSUME NEW d \in Databases, NEW m \in Nat \ {0}, mount' = [mount EXCEPT ![d] = m],
             steady' = steady \ {d}, UNCHANGED <<chargedAt, run, done>>
      PROVE  RunInv'
  <2>1. \A e \in Databases \ {d} : mount'[e] = mount[e]
    BY <1>7, <1>0 DEF TypeOK
  <2>2. \A e \in Active : e \in Active'
    BY <1>7, <2>1, <1>0 DEF Active, TypeOK
  <2>3. CursorInv'
    BY <1>7, <2>1, <2>2 DEF RunInv, CursorInv, Reached, Active
  <2>4. DoneInv'
    BY <1>7, <2>2 DEF RunInv, DoneInv, Reached
  <2> QED
    BY <2>3, <2>4, <1>0 DEF RunInv
<1>8. ASSUME NEW d \in Databases, NEW m \in 1..MaxMountId, SwitchMount(d, m)
      PROVE  RunInv'
  <2>1. m \in Nat \ {0}
    BY <1>b
  <2> QED
    BY <1>7, <1>8, <2>1 DEF SwitchMount, billVars
<1>9. ASSUME NEW d \in Databases, RollbackMount(d)
      PROVE  RunInv'
  <2>1. previous[d] \in Nat \ {0}
    BY <1>9, <1>0, <1>b DEF RollbackMount, TypeOK
  <2> QED
    BY <1>7, <1>9, <2>1 DEF RollbackMount, billVars
<1>10. ASSUME NEW d \in Databases, ResumeWrites(d)
       PROVE  RunInv'
  BY <1>1, <1>10 DEF ResumeWrites, billVars, runVars
<1>11. ASSUME NEW d \in Databases, DeleteDatabase(d)
       PROVE  RunInv'
  <2>1. /\ mount' = [mount EXCEPT ![d] = 0] /\ chargedAt' = [chargedAt EXCEPT ![d] = 0]
        /\ steady' = steady \ {d} /\ UNCHANGED run
        /\ done' = [now |-> done.now, dbs |-> done.dbs \ {d}]
    BY <1>11 DEF DeleteDatabase
  <2>2. \A e \in Databases \ {d} : mount'[e] = mount[e] /\ chargedAt'[e] = chargedAt[e]
    BY <2>1, <1>0 DEF TypeOK
  <2>3. \A e \in Active \ {d} : e \in Active'
    BY <2>2 DEF Active
  <2>4. CursorInv'
    BY <2>1, <2>2, <2>3 DEF RunInv, CursorInv, Reached, Active
  <2>5. DoneInv'
    BY <2>1, <2>2, <2>3 DEF RunInv, DoneInv, Reached, Active
  <2> QED
    BY <2>4, <2>5, <1>0 DEF RunInv
<1>12. CASE UNCHANGED vars
  BY <1>1, <1>12 DEF vars, rowVars, billVars, runVars
<1>13. CASE \E d \in Databases : DatabaseStep(d)
  BY <1>13, <1>6, <1>8, <1>9, <1>10, <1>11 DEF DatabaseStep
<1> QED
  BY <1>2, <1>3, <1>4, <1>5, <1>12, <1>13 DEF Next

\* At the start no database is active and no run is stored.
LEMMA RunInvInit ==
  ASSUME Init
  PROVE  RunInv
<1>b. /\ MaxMountId \in Nat /\ MaxTime \in Nat /\ Interval \in Nat /\ MaxUpgrades \in Nat
      /\ MaxContinuations \in Nat
  BY BillingAssumption
<1>1. 0 \in 0..MaxMountId /\ 0 \in 0..MaxTime /\ 0 \in 0..MaxContinuations /\ 0 \in 0..MaxUpgrades
  BY <1>b
<1>2. TypeOK
  BY <1>1, <1>b DEF Init, TypeOK, NoRun
<1> QED
  BY <1>2 DEF Init, RunInv, CursorInv, DoneInv, NoRun

-----------------------------------------------------------------------------
(* Theorems                                                                *)

\* The timer runs, the controller's batches and the error paths of storage
\* billing charge a database at most for the time up to its last charge.
THEOREM BillInvHolds == Spec => []BillInv
  BY BillInvInit, BillInvStep, PTL DEF Spec

\* No database is charged for more storage than its size for the time that
\* passed, however timer runs, retried batches, controller batches, upgrades
\* and mount switches interleave (settle_database_storage_billing_batch).
THEOREM StorageChargesSafe == Spec => []NeverOvercharged
  BY BillInvHolds, BillInvBounds, PTL

\* A stored run has passed only databases it reached, and what a completed run
\* reached stays reached.
THEOREM RunInvHolds == Spec => []RunInv
  BY RunInvInit, RunInvStep, PTL DEF Spec

\* The rows, timers and the stored run of storage billing keep their types, the
\* number of pending continuation timers included.
THEOREM StorageTypes == Spec => []TypeOK
<1>1. RunInv => TypeOK
  BY DEF RunInv
<1> QED
  BY <1>1, RunInvHolds, PTL

\* No timer run ends without reaching every database that was active and in
\* place since it began: not when batches fail after their charges or before
\* their cursor, nor when databases come, move and go between two batches.
THEOREM RunReachesAll == Spec => []RunSkipsNobody
<1>1. RunInv => RunSkipsNobody
  BY DEF RunInv, DoneInv, Reached, RunSkipsNobody
<1> QED
  BY <1>1, RunInvHolds, PTL

=============================================================================
