------------------------- MODULE WorkerTriggerProofs -------------------------
(***************************************************************************)
(* The sessions that start the wiki generator, for any number of           *)
(* principals, requests and versions and for any lifetimes of which the    *)
(* session's covers a call and the refresh window.                         *)
(*                                                                         *)
(* Everything the browser believes of a session is a promise of the        *)
(* canister to hold it until some time.  The promise is empty once that    *)
(* time has passed, which is why no step has to look at expired sessions.  *)
(***************************************************************************)
EXTENDS WorkerTrigger, TLAPS, FiniteSetTheorems

Kinds == {"request", "run"}
Entry == [nonce : Nat, expires : Nat, pending : BOOLEAN]
CallRecord == [nonce : Nat, by : Users, at : Nat, pc : {"sent", "ok", "failed"}]
SessionRecord == [kind : Kinds, nonce : Nat, by : Users, etag : Nat, expires : Nat]
JobRecord == [kind : Kinds, by : Users, pc : {"wait", "write", "post", "checked"},
              nonce : Nat, id : Nat, at : Nat, etag : Nat]

Types ==
  /\ now \in Nat /\ count \in Nat /\ writers \subseteq Users /\ source \in Seq(Users)
  /\ cache \in [Users -> Entry]
  /\ calls \subseteq CallRecord
  /\ sessions \subseteq SessionRecord
  /\ jobs \subseteq JobRecord

\* The canister holds the session of a nonce until then.
Held(nonce, u, until) ==
  until >= now =>
    \E s \in sessions : /\ s.kind = "request" /\ s.nonce = nonce /\ s.by = u /\ s.etag = 0
                        /\ s.expires >= until

\* A call is the one its principal's entry waits for.
CallsInv ==
  /\ \A c \in calls :
       /\ c.at <= now /\ now <= c.at + CallTime
       /\ c.nonce \in 1..count
       /\ cache[c.by].pending /\ cache[c.by].nonce = c.nonce
       /\ c.pc = "ok" => Held(c.nonce, c.by, c.at + Ttl)
  /\ \A c, d \in calls : c.by = d.by \/ c.nonce = d.nonce => c = d

CacheInv ==
  \A u \in Users :
    /\ cache[u].pending => cache[u].expires <= now /\ \E c \in calls : c.by = u
    /\ cache[u].nonce = 0 => cache[u].expires = 0
    /\ cache[u].nonce # 0 /\ ~cache[u].pending => Held(cache[u].nonce, u, cache[u].expires)

\* A request waits for a call of its own principal, or was promised its session
\* for as long as the refresh window.
JobIs(j) ==
  /\ j.at <= now
  /\ j.kind = "request" =>
       /\ j.etag = 0
       /\ j.pc = "wait" => \E c \in calls : c.by = j.by /\ c.nonce = j.nonce
       /\ j.pc # "wait" => Held(j.nonce, j.by, j.at + Refresh)
       /\ j.pc \in {"post", "checked"} => [id |-> j.id, by |-> j.by] \in nodes
  /\ j.kind = "run" =>
       /\ j.pc \in {"post", "checked"}
       /\ j.etag \in 1..Len(source) /\ source[j.etag] = j.by

JobsInv == \A j \in jobs : JobIs(j)

StartedInv ==
  \A r \in started :
    /\ r.kind = "request" => [id |-> r.id, by |-> r.by] \in nodes
    /\ r.kind = "run" => r.etag \in 1..Len(source) /\ source[r.etag] = r.by

TriggerInv == Types /\ CallsInv /\ CacheInv /\ JobsInv /\ StartedInv /\ QuickRequestsPass

-----------------------------------------------------------------------------
(* Promises                                                                *)

\* A promise is kept when time passes and when the canister drops the sessions
\* that are over; a promise for less is kept with it.
LEMMA HeldStays ==
  ASSUME Types, TriggerConstants, now' \in Nat, now <= now',
         Unexpired \subseteq sessions',
         NEW nonce, NEW u, NEW until \in Nat, NEW less \in Nat, less <= until, Held(nonce, u, until)
  PROVE  Held(nonce, u, less)'
<1> SUFFICES ASSUME less >= now'
             PROVE  \E s \in sessions' : /\ s.kind = "request" /\ s.nonce = nonce /\ s.by = u
                                         /\ s.etag = 0 /\ s.expires >= less
  BY DEF Held
<1>1. until >= now
  BY DEF Types
<1>2. PICK s \in sessions : /\ s.kind = "request" /\ s.nonce = nonce /\ s.by = u /\ s.etag = 0
                            /\ s.expires >= until
  BY <1>1 DEF Held
<1>3. s.expires \in Nat
  BY DEF Types, SessionRecord
<1>4. s.expires >= now /\ s.expires >= less
  BY <1>1, <1>2, <1>3 DEF Types
<1>5. s \in sessions'
  BY <1>4 DEF Unexpired
<1>6. QED
  BY <1>2, <1>4, <1>5

\* Nothing that was written is forgotten.
Kept ==
  /\ now' \in Nat /\ now <= now' /\ Unexpired \subseteq sessions' /\ nodes \subseteq nodes'
  /\ source' \in Seq(Users) /\ Len(source) <= Len(source')
  /\ \A n \in 1..Len(source) : source'[n] = source[n]

\* A job keeps what was said of it, if the call it waits for is still there.
LEMMA JobStays ==
  ASSUME TriggerInv, TriggerConstants, Kept, NEW j \in JobRecord, JobIs(j),
         j.pc = "wait" => \E c \in calls' : c.by = j.by /\ c.nonce = j.nonce
  PROVE  JobIs(j)'
<1>1. j.at \in Nat /\ j.at + Refresh \in Nat
  BY DEF JobRecord, TriggerConstants
<1>2. j.at <= now'
  BY <1>1 DEF JobIs, Kept, TriggerInv, Types
<1>3. j.kind = "request" /\ j.pc # "wait" => Held(j.nonce, j.by, j.at + Refresh)'
  BY <1>1, HeldStays DEF JobIs, Kept, TriggerInv
<1>4. j.kind = "run" => j.etag \in 1..Len(source') /\ source'[j.etag] = j.by
  BY DEF JobIs, Kept, TriggerInv, Types
<1>5. QED
  BY <1>2, <1>3, <1>4 DEF JobIs, Kept

\* What the worker was started for was written.
LEMMA StartedStays ==
  ASSUME TriggerInv, Kept, started' = started
  PROVE  StartedInv'
<1> SUFFICES ASSUME NEW r \in started, r.kind = "run"
             PROVE  r.etag \in 1..Len(source') /\ source'[r.etag] = r.by
  BY DEF TriggerInv, StartedInv, Kept
<1>1. r.etag \in 1..Len(source) /\ source[r.etag] = r.by
  BY DEF TriggerInv, StartedInv
<1>2. QED
  BY <1>1 DEF Kept, TriggerInv, Types

\* A step that leaves the cache and its calls alone.
LEMMA FrameInv ==
  ASSUME TriggerInv, TriggerConstants, Kept, sessions' \subseteq SessionRecord,
         count' \in Nat, count <= count', cache' = cache, calls' = calls,
         \A c \in calls : now' <= c.at + CallTime
  PROVE  /\ CallsInv' /\ CacheInv' /\ \A j \in JobRecord : JobIs(j) => JobIs(j)'
<1> USE DEF TriggerInv
<1>1. ASSUME NEW nonce, NEW u, NEW until \in Nat, Held(nonce, u, until) PROVE Held(nonce, u, until)'
  BY <1>1, HeldStays DEF Kept
<1>2. CallsInv'
  <2>1. ASSUME NEW c \in calls
        PROVE  /\ c.at <= now' /\ now' <= c.at + CallTime /\ c.nonce \in 1..count'
               /\ cache'[c.by].pending /\ cache'[c.by].nonce = c.nonce
               /\ c.pc = "ok" => Held(c.nonce, c.by, c.at + Ttl)'
    <3>1. c.at \in Nat /\ c.nonce \in Nat /\ c.at + Ttl \in Nat
      BY DEF Types, CallRecord, TriggerConstants
    <3>2. c.at <= now /\ c.nonce \in 1..count /\ cache[c.by].pending /\ cache[c.by].nonce = c.nonce
      BY DEF CallsInv
    <3>3. c.pc = "ok" => Held(c.nonce, c.by, c.at + Ttl)'
      BY <1>1, <3>1 DEF CallsInv
    <3>4. QED
      BY <3>1, <3>2, <3>3 DEF Types, Kept
  <2>2. QED
    BY <2>1 DEF CallsInv
<1>3. CacheInv'
  <2>1. ASSUME NEW u \in Users
        PROVE  cache[u].expires \in Nat /\ cache[u].nonce \in Nat /\ cache[u].pending \in BOOLEAN
    BY DEF Types, Entry
  <2>2. ASSUME NEW u \in Users, cache[u].pending PROVE cache[u].expires <= now'
    BY <2>1, <2>2 DEF CacheInv, Types, Kept
  <2>3. ASSUME NEW u \in Users, cache[u].nonce # 0, ~cache[u].pending
        PROVE  Held(cache[u].nonce, u, cache[u].expires)'
    BY <1>1, <2>1, <2>3 DEF CacheInv
  <2>4. QED
    BY <2>2, <2>3 DEF CacheInv
<1>4. ASSUME NEW j \in JobRecord, JobIs(j) PROVE JobIs(j)'
  <2>1. j.kind = "run" => j.pc # "wait"
    BY <1>4 DEF JobIs
  <2>2. j.kind \in Kinds
    BY DEF JobRecord
  <2>3. j.pc = "wait" => \E c \in calls' : c.by = j.by /\ c.nonce = j.nonce
    BY <1>4, <2>1, <2>2 DEF JobIs, Kinds
  <2>4. QED
    BY <1>4, <2>3, JobStays
<1>5. QED
  BY <1>2, <1>3, <1>4

\* A step that changes one job.
LEMMA JobStep ==
  ASSUME TriggerInv, TriggerConstants, UNCHANGED <<now, writers, cache, calls, sessions, source, count>>,
         nodes \subseteq nodes', NEW j \in jobs,
         End(j) \/ \E k \in JobRecord : Replace(j, k) /\ JobIs(k)',
         StartedInv', QuickRequestsPass'
  PROVE  TriggerInv'
<1>1. /\ Kept /\ sessions' \subseteq SessionRecord /\ count' \in Nat /\ count <= count'
      /\ \A c \in calls : now' <= c.at + CallTime
  BY DEF TriggerInv, Types, Unexpired, CallsInv, Kept
<1>2. CallsInv' /\ CacheInv' /\ \A k \in JobRecord : JobIs(k) => JobIs(k)'
  BY <1>1, FrameInv
<1>3. jobs' \subseteq JobRecord
  BY DEF TriggerInv, Types, End, Replace
<1>4. Types'
  BY <1>3 DEF TriggerInv, Types
<1>5. JobsInv'
  BY <1>2 DEF TriggerInv, JobsInv, Types, End, Replace
<1>6. QED
  BY <1>2, <1>4, <1>5 DEF TriggerInv

-----------------------------------------------------------------------------
(* The actions                                                             *)

\* The folders and the request node are written.
LEMMA WriteRequestInv ==
  ASSUME TriggerInv, TriggerConstants, NEW j \in jobs, WriteRequest(j)
  PROVE  TriggerInv'
<1> DEFINE k == [j EXCEPT !.pc = "post"]
<1>0. j \in JobRecord /\ JobIs(j) /\ j.pc = "write" /\ j.kind = "request"
  BY DEF TriggerInv, Types, JobsInv, JobIs, WriteRequest, JobRecord, Kinds
<1>1. /\ UNCHANGED <<now, writers, cache, calls, sessions, source, started, refused, count>>
      /\ nodes \subseteq nodes'
  BY DEF WriteRequest
<1>2. Kept
  BY <1>1 DEF Kept, TriggerInv, Types, Unexpired
<1>3. /\ k \in JobRecord /\ k.kind = "request" /\ k.by = j.by /\ k.pc = "post" /\ k.nonce = j.nonce
      /\ k.id = j.id /\ k.at = j.at /\ k.etag = j.etag
  BY <1>0 DEF JobRecord
<1>4. End(j) \/ (Replace(j, k) /\ [id |-> j.id, by |-> j.by] \in nodes')
  BY DEF WriteRequest
<1> HIDE DEF k
<1>5. ASSUME [id |-> j.id, by |-> j.by] \in nodes' PROVE JobIs(k)'
  <2>1. JobIs(j)'
    BY <1>0, <1>2, JobStays
  <2>2. QED
    BY <1>0, <1>3, <1>5, <2>1 DEF JobIs
<1>6. StartedInv' /\ QuickRequestsPass'
  BY <1>1, <1>2, StartedStays DEF TriggerInv, QuickRequestsPass
<1>7. QED
  BY <1>1, <1>3, <1>4, <1>5, <1>6, JobStep

\* The routes and the canister's checks.
LEMMA RouteInv ==
  ASSUME TriggerInv, TriggerConstants, NEW j \in jobs,
         RouteRefuses(j) \/ SessionDenied(j) \/ SessionChecked(j) \/ WorkerRefuses(j) \/ CallWorker(j)
  PROVE  TriggerInv'
<1> DEFINE k == [j EXCEPT !.pc = "checked"]
<1>0. j \in JobRecord /\ JobIs(j) /\ j.pc \in {"post", "checked"}
  BY DEF TriggerInv, Types, JobsInv, RouteRefuses, SessionDenied, SessionChecked, WorkerRefuses, CallWorker
<1>1. UNCHANGED <<now, writers, cache, calls, sessions, nodes, source, count>>
  BY DEF RouteRefuses, SessionDenied, SessionChecked, WorkerRefuses, CallWorker
<1>2. Kept
  BY <1>1 DEF Kept, TriggerInv, Types, Unexpired
<1>3. End(j) \/ Replace(j, k)
  BY DEF RouteRefuses, SessionDenied, SessionChecked, WorkerRefuses, CallWorker
<1>4. /\ k \in JobRecord /\ k.kind = j.kind /\ k.by = j.by /\ k.pc = "checked" /\ k.nonce = j.nonce
      /\ k.id = j.id /\ k.at = j.at /\ k.etag = j.etag
  BY <1>0 DEF JobRecord
<1> HIDE DEF k
<1>5. JobIs(k)'
  <2>1. JobIs(j)'
    BY <1>0, <1>2, JobStays
  <2>2. QED
    BY <1>0, <1>4, <2>1 DEF JobIs
<1>6. StartedInv'
  <2>1. CASE started' = started
    BY <1>2, <2>1, StartedStays
  <2>2. CASE CallWorker(j)
    <3> DEFINE x == [kind |-> j.kind, id |-> j.id, nonce |-> j.nonce, etag |-> j.etag, by |-> j.by]
    <3>1. started' = started \union {x}
      BY <2>2 DEF CallWorker
    <3>2. /\ x.kind = j.kind /\ x.id = j.id /\ x.etag = j.etag /\ x.by = j.by
      OBVIOUS
    <3> HIDE DEF x
    <3>3. QED
      BY <1>0, <1>1, <3>1, <3>2 DEF TriggerInv, StartedInv, JobIs
  <2>3. QED
    BY <2>1, <2>2 DEF RouteRefuses, SessionDenied, SessionChecked, WorkerRefuses
<1>7. QuickRequestsPass'
  <2>1. CASE refused' = refused
    BY <2>1 DEF TriggerInv, QuickRequestsPass
  <2>2. CASE Holder(j) = {} /\ refused' = refused \union {[kind |-> j.kind, took |-> now - j.at]}
    <3>1. ASSUME j.kind = "request" PROVE now - j.at > Refresh
      <4>1. Held(j.nonce, j.by, j.at + Refresh) /\ j.etag = 0 /\ j.at <= now
        BY <1>0, <3>1 DEF JobIs
      <4>2. j.at \in Nat /\ now \in Nat /\ Refresh \in Nat
        BY <1>0 DEF JobRecord, TriggerInv, Types, TriggerConstants
      <4>3. ASSUME j.at + Refresh >= now PROVE FALSE
        <5>1. PICK s \in sessions : /\ s.kind = "request" /\ s.nonce = j.nonce /\ s.by = j.by /\ s.etag = 0
                                    /\ s.expires >= j.at + Refresh
          BY <4>1, <4>3 DEF Held
        <5>2. s.expires \in Nat
          BY DEF TriggerInv, Types, SessionRecord
        <5>3. s \in Unexpired
          BY <4>2, <4>3, <5>1, <5>2 DEF Unexpired
        <5>4. s \in Holder(j)
          BY <3>1, <4>1, <5>1, <5>3 DEF Holder
        <5>5. QED
          BY <2>2, <5>4
      <4>4. QED
        BY <4>1, <4>2, <4>3
    <3>2. QED
      BY <2>2, <3>1 DEF TriggerInv, QuickRequestsPass
  <2>3. QED
    BY <2>1, <2>2 DEF RouteRefuses, SessionDenied, SessionChecked, WorkerRefuses, CallWorker
<1>8. QED
  BY <1>1, <1>3, <1>4, <1>5, <1>6, <1>7, JobStep

\* Time passes, though not past the end of a call; a role is taken away.
LEMMA EnvironmentInv ==
  ASSUME TriggerInv, TriggerConstants, Tick \/ \E u \in Users : Revoke(u)
  PROVE  TriggerInv'
<1>1. /\ UNCHANGED <<cache, calls, sessions, nodes, source, jobs, started, refused, count>>
      /\ now' \in {now, now + 1} /\ writers' \subseteq writers
  BY DEF Tick, Revoke
<1>2. Kept
  BY <1>1 DEF Kept, TriggerInv, Types, Unexpired
<1>3. \A c \in calls : now' <= c.at + CallTime
  <2> SUFFICES ASSUME NEW c \in calls PROVE now' <= c.at + CallTime
    OBVIOUS
  <2>1. c.at \in Nat /\ now \in Nat /\ CallTime \in Nat /\ now <= c.at + CallTime
    BY DEF TriggerInv, Types, CallRecord, TriggerConstants, CallsInv
  <2>2. QED
    BY <2>1 DEF Tick, Revoke
<1>4. CallsInv' /\ CacheInv' /\ \A j \in JobRecord : JobIs(j) => JobIs(j)'
  BY <1>1, <1>2, <1>3, FrameInv DEF TriggerInv, Types
<1>5. Types'
  BY <1>1, <1>2 DEF TriggerInv, Types, Kept
<1>6. QED
  BY <1>1, <1>2, <1>4, <1>5, StartedStays DEF TriggerInv, JobsInv, Types, QuickRequestsPass

\* write_source_for_generation
LEMMA SaveSourceInv ==
  ASSUME TriggerInv, TriggerConstants, NEW u \in Users, SaveSource(u)
  PROVE  TriggerInv'
<1> DEFINE etag == Len(source) + 1
           y == [kind |-> "run", by |-> u, pc |-> "post", nonce |-> count + 1, id |-> count + 1,
                 at |-> now, etag |-> etag]
           x == Session("run", count + 1, u, etag)
<1>0. Types
  BY DEF TriggerInv
<1>1. /\ UNCHANGED <<now, writers, cache, calls, nodes, started, refused>> /\ count' = count + 1
      /\ source' = Append(source, u) /\ sessions' = Unexpired \union {x}
  BY DEF SaveSource
<1>2. jobs' = jobs \union {y}
  <2>1. [Job("run", u, "post", count + 1) EXCEPT !.etag = etag] = y
    BY DEF Job
  <2> HIDE DEF y
  <2>2. QED
    BY <2>1 DEF SaveSource
<1>3. etag \in Nat /\ y \in JobRecord /\ x \in SessionRecord
  BY <1>0 DEF Types, JobRecord, Kinds, SessionRecord, Session, TriggerConstants
<1>4. PICK k \in JobRecord : /\ k = y /\ k.kind = "run" /\ k.pc = "post" /\ k.at = now
                              /\ k.etag = etag /\ k.by = u
  BY <1>3
<1>5. /\ source' \in Seq(Users) /\ Len(source') = etag /\ source'[etag] = u
      /\ \A n \in 1..Len(source) : source'[n] = source[n]
  BY <1>0, <1>1 DEF Types
<1> HIDE DEF y, x
<1>6. Kept
  BY <1>0, <1>1, <1>5 DEF Kept, Types
<1>7. sessions' \subseteq SessionRecord
  BY <1>0, <1>1, <1>3 DEF Types, Unexpired
<1>8. CallsInv' /\ CacheInv' /\ \A j \in JobRecord : JobIs(j) => JobIs(j)'
  <2>1. \A c \in calls : now' <= c.at + CallTime
    BY <1>1 DEF TriggerInv, CallsInv
  <2>2. QED
    BY <1>0, <1>1, <1>6, <1>7, <2>1, FrameInv DEF Types
<1>9. JobIs(k)'
  BY <1>0, <1>1, <1>3, <1>4, <1>5 DEF JobIs, Types
<1>10. Types'
  BY <1>0, <1>1, <1>2, <1>3, <1>5, <1>7 DEF Types
<1>11. JobsInv'
  BY <1>0, <1>2, <1>4, <1>8, <1>9 DEF TriggerInv, JobsInv, Types
<1>12. QED
  BY <1>1, <1>6, <1>8, <1>10, <1>11, StartedStays DEF TriggerInv, QuickRequestsPass

-----------------------------------------------------------------------------
(* The session of the browser                                              *)

\* ensureSourceCaptureTriggerSession: a session that is fresh is promised for the
\* refresh window, and a call that is under way answers whoever waits for it.
LEMMA CreateFromCacheInv ==
  ASSUME TriggerInv, TriggerConstants, NEW u \in Users, CreateRequest(u),
         IsFresh(cache[u]) \/ cache[u].pending
  PROVE  TriggerInv'
<1>0. /\ Types /\ CallsInv /\ CacheInv /\ JobsInv /\ now \in Nat /\ count \in Nat /\ Refresh \in Nat
  BY DEF TriggerInv, Types, TriggerConstants
<1>1. /\ UNCHANGED <<now, writers, sessions, nodes, source, started, refused, cache, calls>>
      /\ count' = count + 1
  BY DEF CreateRequest
<1>2. PICK e \in Entry : e = cache[u]
  BY <1>0 DEF Types
<1>3. PICK pc \in {"write", "wait"} : /\ pc = IF IsFresh(e) THEN "write" ELSE "wait"
                                      /\ jobs' = jobs \union {Job("request", u, pc, e.nonce)}
  BY <1>2 DEF CreateRequest
<1>4. PICK k \in JobRecord : /\ jobs' = jobs \union {k} /\ k.kind = "request" /\ k.by = u /\ k.pc = pc
                             /\ k.nonce = e.nonce /\ k.at = now /\ k.etag = 0
  <2>1. /\ Job("request", u, pc, e.nonce) \in JobRecord
        /\ Job("request", u, pc, e.nonce).kind = "request" /\ Job("request", u, pc, e.nonce).by = u
        /\ Job("request", u, pc, e.nonce).pc = pc /\ Job("request", u, pc, e.nonce).nonce = e.nonce
        /\ Job("request", u, pc, e.nonce).at = now /\ Job("request", u, pc, e.nonce).etag = 0
    BY <1>0 DEF Job, JobRecord, Kinds, Entry
  <2>2. QED
    BY <1>3, <2>1
<1>5. Kept
  BY <1>0, <1>1 DEF Kept, Types, Unexpired
<1>6. CallsInv' /\ CacheInv' /\ \A j \in JobRecord : JobIs(j) => JobIs(j)'
  <2>1. \A c \in calls : now' <= c.at + CallTime
    BY <1>0, <1>1 DEF CallsInv
  <2>2. QED
    BY <1>0, <1>1, <1>5, <2>1, FrameInv DEF Types
<1>7. pc = "write" => Held(k.nonce, k.by, k.at + Refresh)'
  <2> SUFFICES ASSUME IsFresh(e) PROVE Held(k.nonce, k.by, k.at + Refresh)'
    BY <1>3
  <2>1. e.expires \in Nat /\ e.nonce \in Nat /\ e.expires > now + Refresh
    BY DEF Entry, IsFresh
  <2>2. e.nonce # 0 /\ ~e.pending
    BY <1>0, <1>2, <2>1 DEF CacheInv
  <2>3. Held(k.nonce, k.by, e.expires)
    BY <1>0, <1>2, <1>4, <2>2 DEF CacheInv
  <2>4. k.at + Refresh \in Nat /\ k.at + Refresh <= e.expires
    BY <1>0, <1>4, <2>1
  <2>5. QED
    BY <1>0, <1>5, <2>1, <2>3, <2>4, HeldStays DEF Kept
<1>8. pc = "wait" => \E c \in calls' : c.by = k.by /\ c.nonce = k.nonce
  BY <1>0, <1>1, <1>2, <1>3, <1>4 DEF CacheInv, CallsInv
<1>9. JobIs(k)'
  BY <1>0, <1>1, <1>3, <1>4, <1>7, <1>8 DEF JobIs
<1>10. Types'
  BY <1>0, <1>1, <1>4 DEF Types
<1>11. JobsInv'
  BY <1>0, <1>4, <1>6, <1>9 DEF JobsInv, Types
<1>12. QED
  BY <1>1, <1>5, <1>6, <1>10, <1>11, StartedStays DEF TriggerInv, QuickRequestsPass

\* A new call: its nonce is new, and no other call of the principal is under way.
LEMMA CreateCallInv ==
  ASSUME TriggerInv, TriggerConstants, NEW u \in Users, CreateRequest(u),
         ~IsFresh(cache[u]), ~cache[u].pending
  PROVE  TriggerInv'
<1>0. /\ Types /\ CallsInv /\ CacheInv /\ JobsInv /\ now \in Nat /\ count \in Nat /\ CallTime \in Nat
  BY DEF TriggerInv, Types, TriggerConstants
<1>1. /\ UNCHANGED <<now, writers, sessions, nodes, source, started, refused>> /\ count' = count + 1
  BY DEF CreateRequest
<1>2. PICK d \in CallRecord : /\ calls' = calls \union {d} /\ d.nonce = count + 1 /\ d.by = u
                              /\ d.at = now /\ d.pc = "sent"
  <2>1. /\ [nonce |-> count + 1, by |-> u, at |-> now, pc |-> "sent"] \in CallRecord
    BY <1>0 DEF CallRecord
  <2>2. QED
    BY <2>1 DEF CreateRequest
<1>3. PICK e \in Entry : /\ cache' = [cache EXCEPT ![u] = e] /\ e.nonce = count + 1
                         /\ e.expires = now /\ e.pending = TRUE
  <2>1. [nonce |-> count + 1, expires |-> now, pending |-> TRUE] \in Entry
    BY <1>0 DEF Entry
  <2>2. QED
    BY <2>1 DEF CreateRequest
<1>4. PICK k \in JobRecord : /\ jobs' = jobs \union {k} /\ k.kind = "request" /\ k.by = u /\ k.pc = "wait"
                             /\ k.nonce = count + 1 /\ k.at = now /\ k.etag = 0
  <2> DEFINE J == Job("request", u, "wait", count + 1)
  <2>1. /\ J \in JobRecord /\ J.kind = "request" /\ J.by = u /\ J.pc = "wait" /\ J.nonce = count + 1
        /\ J.at = now /\ J.etag = 0
    BY <1>0 DEF Job, JobRecord, Kinds
  <2>2. jobs' = jobs \union {J}
    BY DEF CreateRequest
  <2> HIDE DEF J
  <2>3. QED
    BY <2>1, <2>2
<1>5. Kept
  BY <1>0, <1>1 DEF Kept, Types, Unexpired
<1>6. ASSUME NEW v \in Users PROVE cache'[v] = IF v = u THEN e ELSE cache[v]
  BY <1>0, <1>3 DEF Types
<1>7. ASSUME NEW nonce, NEW v, NEW until \in Nat, Held(nonce, v, until) PROVE Held(nonce, v, until)'
  BY <1>0, <1>5, <1>7, HeldStays DEF Kept
<1>8. \A c \in calls : c.by # u /\ c.by \in Users /\ c.nonce \in 1..count
  BY <1>0 DEF CallsInv, Types, CallRecord
<1>9. CallsInv'
  <2>1. ASSUME NEW c \in calls
        PROVE  /\ c.at <= now' /\ now' <= c.at + CallTime /\ c.nonce \in 1..count'
               /\ cache'[c.by].pending /\ cache'[c.by].nonce = c.nonce
               /\ c.pc = "ok" => Held(c.nonce, c.by, c.at + Ttl)'
    <3>1. c.at \in Nat /\ c.nonce \in Nat /\ c.at + Ttl \in Nat
      BY <1>0 DEF Types, CallRecord, TriggerConstants
    <3>2. c.pc = "ok" => Held(c.nonce, c.by, c.at + Ttl)'
      BY <1>0, <1>7, <3>1 DEF CallsInv
    <3>3. QED
      BY <1>0, <1>1, <1>6, <1>8, <3>1, <3>2 DEF CallsInv
  <2>2. /\ d.at <= now' /\ now' <= d.at + CallTime /\ d.nonce \in 1..count'
        /\ cache'[d.by].pending /\ cache'[d.by].nonce = d.nonce
    BY <1>0, <1>1, <1>2, <1>3, <1>6
  <2>3. ASSUME NEW c \in calls', NEW b \in calls', c.by = b.by \/ c.nonce = b.nonce PROVE c = b
    BY <1>0, <1>2, <1>8, <2>3 DEF CallsInv
  <2>4. QED
    BY <1>2, <2>1, <2>2, <2>3 DEF CallsInv
<1>10. CacheInv'
  <2>1. ASSUME NEW v \in Users
        PROVE /\ cache'[v].pending => cache'[v].expires <= now' /\ \E c \in calls' : c.by = v
              /\ cache'[v].nonce = 0 => cache'[v].expires = 0
              /\ cache'[v].nonce # 0 /\ ~cache'[v].pending
                   => Held(cache[v].nonce, v, cache[v].expires)'
    <3>1. CASE v = u
      BY <1>0, <1>1, <1>2, <1>3, <1>6, <3>1
    <3>2. CASE v # u
      <4>1. PICK f \in Entry : f = cache[v] /\ f = cache'[v]
        BY <1>0, <1>6, <3>2 DEF Types
      <4>2. f.expires \in Nat /\ f.nonce \in Nat
        BY DEF Entry
      <4>3. f.nonce # 0 /\ ~f.pending => Held(f.nonce, v, f.expires)'
        BY <1>0, <1>7, <4>1, <4>2 DEF CacheInv
      <4>4. f.nonce # 0 /\ ~f.pending => Held(cache[v].nonce, v, cache[v].expires)'
        BY <4>1, <4>3 DEF Held
      <4>5. QED
        BY <1>0, <1>1, <1>2, <4>1, <4>4 DEF CacheInv
    <3>3. QED
      BY <3>1, <3>2
  <2>2. QED
    BY <2>1 DEF CacheInv
<1>11. JobsInv'
  <2>1. ASSUME NEW j \in jobs PROVE JobIs(j)'
    <3>1. j \in JobRecord /\ JobIs(j)
      BY <1>0 DEF Types, JobsInv
    <3>2. j.pc = "wait" => \E c \in calls : c.by = j.by /\ c.nonce = j.nonce
      BY <3>1 DEF JobIs, JobRecord, Kinds
    <3>3. QED
      BY <1>2, <1>5, <3>1, <3>2, JobStays
  <2>2. JobIs(k)'
    BY <1>0, <1>1, <1>2, <1>4 DEF JobIs
  <2>3. QED
    BY <1>4, <2>1, <2>2 DEF JobsInv
<1>12. Types'
  BY <1>0, <1>1, <1>2, <1>3, <1>4 DEF Types
<1>13. QED
  BY <1>1, <1>5, <1>9, <1>10, <1>11, <1>12, StartedStays DEF TriggerInv, QuickRequestsPass

\* authorize_source_capture_trigger_session: an answer that says yes comes with the
\* session, which outlives the call's start by a whole life of a session.
LEMMA AuthorizeInv ==
  ASSUME TriggerInv, TriggerConstants, NEW c \in calls, Authorize(c)
  PROVE  TriggerInv'
<1>0. /\ Types /\ CallsInv /\ CacheInv /\ JobsInv /\ now \in Nat /\ count \in Nat /\ Ttl \in Nat
      /\ c \in CallRecord /\ c.at \in Nat /\ c.nonce \in Nat /\ c.by \in Users /\ c.at <= now
  BY DEF TriggerInv, Types, TriggerConstants, CallRecord, CallsInv
<1>1. /\ UNCHANGED <<now, writers, cache, nodes, source, jobs, started, refused, count>>
  BY DEF Authorize
<1>2. PICK pc \in {"ok", "failed"} :
        /\ calls' = (calls \ {c}) \union {[c EXCEPT !.pc = pc]}
        /\ \/ sessions' = Unexpired \union {Session("request", c.nonce, c.by, 0)}
           \/ pc = "failed" /\ sessions' = sessions
  BY DEF Authorize
<1>3. PICK d \in CallRecord : /\ calls' = (calls \ {c}) \union {d} /\ d.nonce = c.nonce /\ d.by = c.by
                              /\ d.at = c.at /\ d.pc = pc
  <2>1. /\ [c EXCEPT !.pc = pc] \in CallRecord /\ [c EXCEPT !.pc = pc].nonce = c.nonce
        /\ [c EXCEPT !.pc = pc].by = c.by /\ [c EXCEPT !.pc = pc].at = c.at
        /\ [c EXCEPT !.pc = pc].pc = pc
    BY <1>0 DEF CallRecord
  <2>2. QED
    BY <1>2, <2>1
<1>4. PICK x \in SessionRecord : /\ x = Session("request", c.nonce, c.by, 0)
                                 /\ x.kind = "request" /\ x.nonce = c.nonce /\ x.by = c.by /\ x.etag = 0
                                 /\ x.expires = now + Ttl
  <2> DEFINE y == [kind |-> "request", nonce |-> c.nonce, by |-> c.by, etag |-> 0, expires |-> now + Ttl]
  <2>1. y \in SessionRecord /\ y = Session("request", c.nonce, c.by, 0)
    BY <1>0 DEF Session, SessionRecord, Kinds
  <2>2. /\ y.kind = "request" /\ y.nonce = c.nonce /\ y.by = c.by /\ y.etag = 0 /\ y.expires = now + Ttl
    OBVIOUS
  <2> HIDE DEF y
  <2>3. QED
    BY <2>1, <2>2
<1>5. Unexpired \subseteq sessions' /\ sessions' \subseteq SessionRecord
  BY <1>0, <1>2, <1>4 DEF Unexpired, Types
<1>6. Kept
  BY <1>0, <1>1, <1>5 DEF Kept, Types
<1>7. ASSUME NEW nonce, NEW u, NEW until \in Nat, Held(nonce, u, until) PROVE Held(nonce, u, until)'
  BY <1>0, <1>6, <1>7, HeldStays DEF Kept
<1>8. d.pc = "ok" => Held(d.nonce, d.by, d.at + Ttl)'
  <2>1. SUFFICES ASSUME d.pc = "ok" PROVE Held(d.nonce, d.by, d.at + Ttl)'
    OBVIOUS
  <2>2. x \in sessions' /\ x.expires >= d.at + Ttl
    BY <1>0, <1>2, <1>3, <1>4, <2>1
  <2>3. QED
    BY <1>3, <1>4, <2>2 DEF Held
<1>9. CallsInv'
  <2>1. ASSUME NEW b \in calls
        PROVE  /\ b.at <= now' /\ now' <= b.at + CallTime /\ b.nonce \in 1..count'
               /\ cache'[b.by].pending /\ cache'[b.by].nonce = b.nonce
               /\ b.pc = "ok" => Held(b.nonce, b.by, b.at + Ttl)'
    <3>1. b.at \in Nat /\ b.nonce \in Nat /\ b.at + Ttl \in Nat
      BY <1>0 DEF Types, CallRecord
    <3>2. b.pc = "ok" => Held(b.nonce, b.by, b.at + Ttl)'
      BY <1>0, <1>7, <3>1 DEF CallsInv
    <3>3. QED
      BY <1>0, <1>1, <3>1, <3>2 DEF CallsInv
  <2>2. /\ d.at <= now' /\ now' <= d.at + CallTime /\ d.nonce \in 1..count'
        /\ cache'[d.by].pending /\ cache'[d.by].nonce = d.nonce
    BY <1>3, <2>1
  <2>3. ASSUME NEW a \in calls', NEW b \in calls', a.by = b.by \/ a.nonce = b.nonce PROVE a = b
    BY <1>0, <1>3, <2>3 DEF CallsInv
  <2>4. QED
    BY <1>3, <1>8, <2>1, <2>2, <2>3 DEF CallsInv
<1>10. \A u, n : (\E b \in calls : b.by = u /\ b.nonce = n) => \E b \in calls' : b.by = u /\ b.nonce = n
  BY <1>3
<1>11. CacheInv'
  <2>1. ASSUME NEW v \in Users
        PROVE /\ cache'[v].pending => cache'[v].expires <= now' /\ \E b \in calls' : b.by = v
              /\ cache'[v].nonce = 0 => cache'[v].expires = 0
              /\ cache'[v].nonce # 0 /\ ~cache'[v].pending
                   => Held(cache[v].nonce, v, cache[v].expires)'
    <3>1. PICK f \in Entry : f = cache[v] /\ f = cache'[v]
      BY <1>0, <1>1 DEF Types
    <3>2. f.expires \in Nat /\ f.nonce \in Nat
      BY DEF Entry
    <3>3. f.pending => \E b \in calls' : b.by = v
      BY <1>0, <1>10, <3>1 DEF CacheInv
    <3>4. f.nonce # 0 /\ ~f.pending => Held(f.nonce, v, f.expires)'
      BY <1>0, <1>7, <3>1, <3>2 DEF CacheInv
    <3>5. f.nonce # 0 /\ ~f.pending => Held(cache[v].nonce, v, cache[v].expires)'
      BY <3>1, <3>4 DEF Held
    <3>6. QED
      BY <1>0, <1>1, <3>1, <3>3, <3>5 DEF CacheInv
  <2>2. QED
    BY <1>1, <2>1 DEF CacheInv
<1>12. JobsInv'
  <2>1. ASSUME NEW j \in jobs PROVE JobIs(j)'
    <3>1. j \in JobRecord /\ JobIs(j)
      BY <1>0 DEF Types, JobsInv
    <3>2. j.pc = "wait" => \E b \in calls : b.by = j.by /\ b.nonce = j.nonce
      BY <3>1 DEF JobIs, JobRecord, Kinds
    <3>3. QED
      BY <1>6, <1>10, <3>1, <3>2, JobStays
  <2>2. QED
    BY <1>1, <2>1 DEF JobsInv
<1>13. Types'
  BY <1>0, <1>1, <1>3, <1>5 DEF Types
<1>14. QED
  BY <1>1, <1>6, <1>9, <1>11, <1>12, <1>13, StartedStays DEF TriggerInv, QuickRequestsPass

\* The answer: whoever waited was waiting for this call, which took at most CallTime,
\* so that the session has the refresh window left for them.
LEMMA AuthorizedInv ==
  ASSUME TriggerInv, TriggerConstants, NEW c \in calls, Authorized(c)
  PROVE  TriggerInv'
<1>0. /\ Types /\ CallsInv /\ CacheInv /\ JobsInv /\ now \in Nat /\ count \in Nat
      /\ Ttl \in Nat /\ Refresh \in Nat /\ CallTime \in Nat /\ CallTime + Refresh <= Ttl
      /\ c \in CallRecord /\ c.at \in Nat /\ c.nonce \in Nat /\ c.by \in Users /\ c.at <= now
      /\ now <= c.at + CallTime /\ c.nonce # 0 /\ c.at + Ttl \in Nat
  BY DEF TriggerInv, Types, TriggerConstants, CallRecord, CallsInv
<1>1. /\ UNCHANGED <<now, writers, sessions, nodes, source, started, refused, count>>
      /\ calls' = calls \ {c}
  BY DEF Authorized
<1>2. Kept
  BY <1>0, <1>1 DEF Kept, Types, Unexpired
<1>3. ASSUME NEW nonce, NEW u, NEW until \in Nat, NEW less \in Nat, less <= until, Held(nonce, u, until)
      PROVE Held(nonce, u, less)'
  BY <1>0, <1>2, <1>3, HeldStays DEF Kept
<1>4. c.pc = "ok" => Held(c.nonce, c.by, c.at + Ttl)
  BY <1>0 DEF CallsInv
<1>5. PICK e \in Entry : /\ cache' = [cache EXCEPT ![c.by] = e] /\ ~e.pending
                         /\ e.nonce = 0 => e.expires = 0
                         /\ e.nonce # 0 => c.pc = "ok" /\ e.nonce = c.nonce /\ e.expires = c.at + Ttl
  <2>1. CASE c.pc = "ok"
    <3>1. [nonce |-> c.nonce, expires |-> c.at + Ttl, pending |-> FALSE] \in Entry
      BY <1>0 DEF Entry
    <3>2. cache' = [cache EXCEPT ![c.by] = [nonce |-> c.nonce, expires |-> c.at + Ttl, pending |-> FALSE]]
      BY <2>1 DEF Authorized, ExpiresAt
    <3>3. QED
      BY <1>0, <2>1, <3>1, <3>2
  <2>2. CASE c.pc # "ok"
    <3>1. NoEntry \in Entry
      BY DEF NoEntry, Entry
    <3>2. cache' = [cache EXCEPT ![c.by] = NoEntry]
      BY <2>2 DEF Authorized
    <3>3. QED
      BY <3>1, <3>2 DEF NoEntry
  <2>3. QED
    BY <2>1, <2>2
<1>6. ASSUME NEW v \in Users PROVE cache'[v] = IF v = c.by THEN e ELSE cache[v]
  BY <1>0, <1>5 DEF Types
<1>7. CallsInv'
  <2>1. ASSUME NEW b \in calls'
        PROVE  /\ b.at <= now' /\ now' <= b.at + CallTime /\ b.nonce \in 1..count'
               /\ cache'[b.by].pending /\ cache'[b.by].nonce = b.nonce
               /\ b.pc = "ok" => Held(b.nonce, b.by, b.at + Ttl)'
    <3>1. b \in calls /\ b # c /\ b.at \in Nat /\ b.nonce \in Nat /\ b.at + Ttl \in Nat /\ b.by \in Users
      BY <1>0, <1>1 DEF Types, CallRecord
    <3>2. b.pc = "ok" => Held(b.nonce, b.by, b.at + Ttl)'
      BY <1>0, <1>3, <3>1 DEF CallsInv
    <3>3. b.by # c.by
      BY <1>0, <3>1 DEF CallsInv
    <3>4. QED
      BY <1>0, <1>1, <1>6, <3>1, <3>2, <3>3 DEF CallsInv
  <2>2. ASSUME NEW a \in calls', NEW b \in calls', a.by = b.by \/ a.nonce = b.nonce PROVE a = b
    BY <1>0, <1>1, <2>2 DEF CallsInv
  <2>3. QED
    BY <2>1, <2>2 DEF CallsInv
<1>8. CacheInv'
  <2>1. ASSUME NEW v \in Users
        PROVE /\ cache'[v].pending => cache'[v].expires <= now' /\ \E b \in calls' : b.by = v
              /\ cache'[v].nonce = 0 => cache'[v].expires = 0
              /\ cache'[v].nonce # 0 /\ ~cache'[v].pending
                   => Held(cache[v].nonce, v, cache[v].expires)'
    <3>1. CASE v = c.by
      <4>1. cache'[v] = e
        BY <1>6, <3>1
      <4>2. e.nonce # 0 => Held(e.nonce, v, e.expires)'
        <5>1. SUFFICES ASSUME e.nonce # 0 PROVE Held(e.nonce, v, e.expires)'
          OBVIOUS
        <5>2. Held(c.nonce, c.by, c.at + Ttl)'
          BY <1>0, <1>3, <1>4, <1>5, <5>1
        <5>3. QED
          BY <1>5, <3>1, <5>1, <5>2 DEF Held
      <4>3. e.nonce # 0 => Held(cache[v].nonce, v, cache[v].expires)'
        BY <4>1, <4>2 DEF Held
      <4>4. QED
        BY <1>5, <4>1, <4>3
    <3>2. CASE v # c.by
      <4>1. PICK f \in Entry : f = cache[v] /\ f = cache'[v]
        BY <1>0, <1>6, <3>2 DEF Types
      <4>2. f.expires \in Nat /\ f.nonce \in Nat
        BY DEF Entry
      <4>3. f.nonce # 0 /\ ~f.pending => Held(f.nonce, v, f.expires)'
        <5>1. f.expires <= f.expires
          BY <4>2
        <5>2. f.nonce # 0 /\ ~f.pending => Held(f.nonce, v, f.expires)
          BY <1>0, <4>1 DEF CacheInv
        <5>3. QED
          BY <1>3, <4>2, <5>1, <5>2
      <4>4. f.nonce # 0 /\ ~f.pending => Held(cache[v].nonce, v, cache[v].expires)'
        BY <4>1, <4>3 DEF Held
      <4>5. f.pending => \E b \in calls' : b.by = v
        BY <1>0, <1>1, <3>2, <4>1 DEF CacheInv
      <4>6. QED
        BY <1>0, <1>1, <4>1, <4>4, <4>5 DEF CacheInv
    <3>3. QED
      BY <3>1, <3>2
  <2>2. QED
    BY <2>1 DEF CacheInv
<1>9. ASSUME NEW j \in jobs, ~Waits(j, c) PROVE JobIs(j)'
  <2>1. j \in JobRecord /\ JobIs(j)
    BY <1>0 DEF Types, JobsInv
  <2>2. j.pc = "wait" => \E b \in calls : b.by = j.by /\ b.nonce = j.nonce
    BY <2>1 DEF JobIs, JobRecord, Kinds
  <2>3. j.pc = "wait" => \E b \in calls' : b.by = j.by /\ b.nonce = j.nonce
    BY <1>1, <1>9, <2>2 DEF Waits
  <2>4. QED
    BY <1>2, <2>1, <2>3, JobStays
<1>10. ASSUME NEW j \in jobs, Waits(j, c), c.pc = "ok"
       PROVE  [j EXCEPT !.pc = "write"] \in JobRecord /\ JobIs([j EXCEPT !.pc = "write"])'
  <2>1. j \in JobRecord /\ JobIs(j) /\ j.pc = "wait" /\ j.nonce = c.nonce
    BY <1>0, <1>10 DEF Types, JobsInv, Waits
  <2>2. j.kind = "request" /\ j.etag = 0 /\ j.at <= now /\ j.at \in Nat
    BY <2>1 DEF JobIs, JobRecord, Kinds
  <2>3. PICK b \in calls : b.by = j.by /\ b.nonce = j.nonce
    BY <2>1, <2>2 DEF JobIs
  <2>4. j.by = c.by
    BY <1>0, <2>1, <2>3 DEF CallsInv
  <2>5. j.at + Refresh \in Nat /\ j.at + Refresh <= c.at + Ttl
    BY <1>0, <2>2
  <2>6. Held(c.nonce, c.by, j.at + Refresh)'
    BY <1>0, <1>3, <1>4, <1>10, <2>5
  <2>7. PICK k \in JobRecord : /\ k = [j EXCEPT !.pc = "write"] /\ k.kind = "request" /\ k.etag = 0
                               /\ k.pc = "write" /\ k.nonce = c.nonce /\ k.by = c.by /\ k.at = j.at
    <3>1. /\ [j EXCEPT !.pc = "write"] \in JobRecord /\ [j EXCEPT !.pc = "write"].kind = j.kind
          /\ [j EXCEPT !.pc = "write"].etag = j.etag /\ [j EXCEPT !.pc = "write"].pc = "write"
          /\ [j EXCEPT !.pc = "write"].nonce = j.nonce /\ [j EXCEPT !.pc = "write"].by = j.by
          /\ [j EXCEPT !.pc = "write"].at = j.at
      BY <2>1 DEF JobRecord
    <3>2. QED
      BY <2>1, <2>2, <2>4, <3>1
  <2>8. JobIs(k)'
    BY <1>1, <2>2, <2>6, <2>7 DEF JobIs, Held
  <2>9. QED
    BY <2>7, <2>8 DEF JobIs, Held
<1>11. \A k \in jobs' : /\ k \in JobRecord /\ JobIs(k)'
  <2>1. ASSUME NEW k \in jobs'
        PROVE  \/ k \in jobs /\ ~Waits(k, c)
               \/ c.pc = "ok" /\ \E j \in jobs : Waits(j, c) /\ k = [j EXCEPT !.pc = "write"]
    BY DEF Authorized
  <2>2. QED
    BY <1>0, <1>9, <1>10, <2>1 DEF Types
<1>12. JobsInv'
  BY <1>11 DEF JobsInv
<1>13. Types'
  BY <1>0, <1>1, <1>5, <1>11 DEF Types
<1>14. QED
  BY <1>1, <1>2, <1>7, <1>8, <1>12, <1>13, StartedStays DEF TriggerInv, QuickRequestsPass
-----------------------------------------------------------------------------
(* The theorems                                                            *)

\* Nothing is promised at first.
LEMMA TriggerInit ==
  ASSUME TriggerConstants, Init
  PROVE  TriggerInv
<1>1. Types
  BY DEF Init, Types, NoEntry, Entry
<1>2. CallsInv /\ JobsInv /\ StartedInv /\ QuickRequestsPass
  BY DEF Init, CallsInv, JobsInv, StartedInv, QuickRequestsPass
<1>3. CacheInv
  BY DEF Init, CacheInv, NoEntry
<1>4. QED
  BY <1>1, <1>2, <1>3 DEF TriggerInv

\* Every step keeps the promises.
LEMMA TriggerNext ==
  ASSUME TriggerConstants, TriggerInv, [Next]_vars
  PROVE  TriggerInv'
<1>1. CASE UNCHANGED vars
  BY <1>1 DEF vars, TriggerInv, Types, Held, CallsInv, CacheInv, JobIs, JobsInv, StartedInv,
              QuickRequestsPass
<1>2. CASE \E u \in Users : CreateRequest(u)
  <2>1. PICK u \in Users : CreateRequest(u)
    BY <1>2
  <2>2. CASE IsFresh(cache[u]) \/ cache[u].pending
    BY <2>1, <2>2, CreateFromCacheInv
  <2>3. CASE ~IsFresh(cache[u]) /\ ~cache[u].pending
    BY <2>1, <2>3, CreateCallInv
  <2>4. QED
    BY <2>2, <2>3
<1>3. CASE \E u \in Users : SaveSource(u)
  BY <1>3, SaveSourceInv
<1>4. CASE Tick \/ \E u \in Users : Revoke(u)
  BY <1>4, EnvironmentInv
<1>5. CASE \E c \in calls : Authorize(c)
  BY <1>5, AuthorizeInv
<1>6. CASE \E c \in calls : Authorized(c)
  BY <1>6, AuthorizedInv
<1>7. CASE \E j \in jobs : WriteRequest(j)
  BY <1>7, WriteRequestInv
<1>8. CASE \E j \in jobs : \/ RouteRefuses(j) \/ SessionDenied(j) \/ SessionChecked(j)
                           \/ WorkerRefuses(j) \/ CallWorker(j)
  BY <1>8, RouteInv
<1>9. QED
  BY <1>1, <1>2, <1>3, <1>4, <1>5, <1>6, <1>7, <1>8 DEF Next

\* The inductive invariant behind TriggersAreSound: what the browser's cache and every
\* request under way may rely on of the canister's sessions.
THEOREM TriggerInvHolds ==
  ASSUME TriggerConstants
  PROVE  Spec => []TriggerInv
<1>1. Init => TriggerInv
  BY TriggerInit
<1>2. TriggerInv /\ [Next]_vars => TriggerInv'
  BY TriggerNext
<1>3. QED
  BY <1>1, <1>2, PTL DEF Spec

\* A principal has at most one call under way.
LEMMA OneCall ==
  ASSUME TriggerInv, NEW u \in Users
  PROVE  Cardinality({c \in calls : c.by = u}) <= 1
<1> DEFINE S == {c \in calls : c.by = u}
<1>1. CASE S = {}
  <2>1. Cardinality(S) = 0
    BY <1>1, FS_EmptySet
  <2>2. QED
    BY <2>1
<1>2. CASE S # {}
  <2>1. PICK c \in calls : c.by = u
    BY <1>2
  <2>2. S = {c}
    BY <2>1 DEF TriggerInv, CallsInv
  <2>3. Cardinality(S) = 1
    BY <2>2, FS_Singleton
  <2>4. QED
    BY <2>3
<1>3. QED
  BY <1>1, <1>2

\* The cached session is the canister's.
LEMMA CacheBacked ==
  ASSUME TriggerInv
  PROVE  CacheIsBacked
<1> SUFFICES ASSUME NEW u \in Users
             PROVE  /\ Cardinality({c \in calls : c.by = u}) <= 1
                    /\ cache[u].pending = (\E c \in calls : c.by = u)
                    /\ cache[u].nonce # 0 /\ ~cache[u].pending /\ cache[u].expires >= now =>
                         \E s \in sessions : /\ s.nonce = cache[u].nonce /\ s.by = u
                                             /\ s.expires >= cache[u].expires
  BY DEF CacheIsBacked
<1>1. cache[u].pending \in BOOLEAN
  BY DEF TriggerInv, Types, Entry
<1>2. cache[u].pending <=> \E c \in calls : c.by = u
  BY DEF TriggerInv, CallsInv, CacheInv
<1>3. cache[u].nonce # 0 /\ ~cache[u].pending /\ cache[u].expires >= now =>
        \E s \in sessions : /\ s.nonce = cache[u].nonce /\ s.by = u
                            /\ s.expires >= cache[u].expires
  BY DEF TriggerInv, CacheInv, Held
<1>4. cache[u].pending = (\E c \in calls : c.by = u)
  BY <1>1, <1>2, Zenon
<1>5. QED
  BY <1>3, <1>4, OneCall

\* What the worker is started for was written by the principal of the session, no quick
\* request is refused, and the browser's cache is backed by the canister: for any number
\* of principals, sources and requests.
THEOREM TriggersAreSoundHolds ==
  ASSUME TriggerConstants
  PROVE  Spec => []TriggersAreSound
<1>1. TriggerInv => StartedByAuthor
  BY DEF TriggerInv, StartedInv, StartedByAuthor
<1>2. TriggerInv => TriggersAreSound
  BY <1>1, CacheBacked DEF TriggerInv, TriggersAreSound
<1>3. QED
  BY <1>2, TriggerInvHolds, PTL
====
