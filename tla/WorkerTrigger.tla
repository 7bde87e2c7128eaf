---------------------------- MODULE WorkerTrigger ----------------------------
(***************************************************************************)
(* Starting the wiki generator from a browser.  The browser asks the       *)
(* canister to authorise a session, writes a capture request or a source   *)
(* and posts it with the session's nonce to a route that holds the         *)
(* worker's token; the route lets the canister check the session and then  *)
(* calls the worker.  The browser keeps one session per principal for half *)
(* an hour and shares the call that authorises it.                         *)
(***************************************************************************)
EXTENDS Naturals, Sequences, FiniteSets

CONSTANTS Users,          \* principals of the database
          Ttl,            \* life of a session, at the canister and in the cache
          Refresh,        \* the cache gives up a session this long before its end
          CallTime,       \* an update call is answered or given up within this time
          MaxTime, MaxJobs, MaxVersions, MaxRevocations

\* Half an hour, two minutes, and the few minutes a call of the canister takes.
TriggerConstants ==
  Ttl \in Nat /\ Refresh \in Nat /\ CallTime \in Nat /\ CallTime + Refresh <= Ttl

VARIABLES now,            \* Date.now(), and the canister's time
          writers,        \* external: members with a role
          cache,          \* triggerSessionCache, by principal
          calls,          \* authorize_source_capture_trigger_session in flight
          sessions,       \* source_capture_trigger_sessions and source_run_sessions
          nodes,          \* source capture requests written
          source,         \* the source node: who wrote its versions
          jobs,           \* capture requests and source runs in flight
          started,        \* what the routes handed to the worker
          refused,        \* what the canister refused for want of a session
          count           \* nonces so far
vars == <<now, writers, cache, calls, sessions, nodes, source, jobs, started, refused, count>>

NoEntry == [nonce |-> 0, expires |-> 0, pending |-> FALSE]

Init == /\ now = 0 /\ writers = Users
        /\ cache = [u \in Users |-> NoEntry]
        /\ calls = {} /\ sessions = {} /\ nodes = {} /\ jobs = {}
        /\ source = <<>>
        /\ started = {} /\ refused = {} /\ count = 0

Replace(j, k) == jobs' = (jobs \ {j}) \cup {k}
End(j) == jobs' = jobs \ {j}

-----------------------------------------------------------------------------
(* createSourceCaptureRequest *)

\* A mutant of IsFresh: a session is used until its end.
IsFresh_ToTheEnd(entry) == entry.expires > now

IsFresh(entry) == entry.expires > now + Refresh

Job(kind, u, pc, nonce) ==
  [kind |-> kind, by |-> u, pc |-> pc, nonce |-> nonce, id |-> count + 1, at |-> now,
   etag |-> 0]

\* ensureSourceCaptureTriggerSession: the cached nonce, the call that is under
\* way, or a new call.
CreateRequest(u) ==
  /\ count < MaxJobs /\ count' = count + 1
  /\ LET entry == cache[u] IN
     IF IsFresh(entry)
       THEN /\ jobs' = jobs \cup {Job("request", u, "write", entry.nonce)}
            /\ UNCHANGED <<cache, calls>>
     ELSE IF entry.pending
       THEN /\ jobs' = jobs \cup {Job("request", u, "wait", entry.nonce)}
            /\ UNCHANGED <<cache, calls>>
     ELSE /\ jobs' = jobs \cup {Job("request", u, "wait", count + 1)}
          /\ calls' = calls \cup {[nonce |-> count + 1, by |-> u, at |-> now, pc |-> "sent"]}
          /\ cache' = [cache EXCEPT ![u] = [nonce |-> count + 1, expires |-> now,
                                            pending |-> TRUE]]
  /\ UNCHANGED <<now, writers, sessions, nodes, source, started, refused>>

Unexpired == {s \in sessions : s.expires >= now}
Session(kind, nonce, u, etag) ==
  [kind |-> kind, nonce |-> nonce, by |-> u, etag |-> etag, expires |-> now + Ttl]

\* authorize_source_capture_trigger_session; the call may also be lost, before or
\* after the canister handled it.
Authorize(c) ==
  /\ c.pc = "sent"
  /\ \/ /\ c.by \in writers
        /\ sessions' = Unexpired \cup {Session("request", c.nonce, c.by, 0)}
        /\ \E pc \in {"ok", "failed"} : calls' = (calls \ {c}) \cup {[c EXCEPT !.pc = pc]}
     \/ calls' = (calls \ {c}) \cup {[c EXCEPT !.pc = "failed"]} /\ UNCHANGED sessions
  /\ UNCHANGED <<now, writers, cache, nodes, source, jobs, started, refused, count>>

\* A mutant of ExpiresAt: the half hour counts from the answer.
ExpiresAt_Answer(c) == now + Ttl

ExpiresAt(c) == c.at + Ttl

Waits(j, c) == j.pc = "wait" /\ j.nonce = c.nonce

\* The answer of the call: all who wait for it go on, or all fail.
Authorized(c) ==
  /\ c.pc \in {"ok", "failed"}
  /\ calls' = calls \ {c}
  /\ LET ok == c.pc = "ok" IN
     /\ cache' = [cache EXCEPT ![c.by] =
                    IF ok THEN [nonce |-> c.nonce, expires |-> ExpiresAt(c),
                                pending |-> FALSE]
                    ELSE NoEntry]
     /\ jobs' = {j \in jobs : ~Waits(j, c)}
                  \cup (IF ok THEN {[j EXCEPT !.pc = "write"] : j \in {k \in jobs : Waits(k, c)}}
                        ELSE {})
  /\ UNCHANGED <<now, writers, sessions, nodes, source, started, refused, count>>

\* The folders and the request node; without the role nothing is written.
WriteRequest(j) ==
  /\ j.pc = "write"
  /\ IF j.by \in writers
       THEN /\ nodes' = nodes \cup {[id |-> j.id, by |-> j.by]}
            /\ Replace(j, [j EXCEPT !.pc = "post"])
       ELSE End(j) /\ UNCHANGED nodes
  /\ UNCHANGED <<now, writers, cache, calls, sessions, source, started, refused, count>>

-----------------------------------------------------------------------------
(* saveEvidenceSource and triggerSourceGeneration *)

\* write_source_for_generation: a new version, and a session for it alone.  Saving
\* is conditional on the version read before; a conflict writes nothing.
SaveSource(u) ==
  /\ count < MaxJobs /\ Len(source) < MaxVersions /\ u \in writers
  /\ count' = count + 1
  /\ LET etag == Len(source) + 1 IN
     /\ source' = Append(source, u)
     /\ sessions' = Unexpired \cup {Session("run", count + 1, u, etag)}
     /\ jobs' = jobs \cup {[Job("run", u, "post", count + 1) EXCEPT !.etag = etag]}
  /\ UNCHANGED <<now, writers, cache, calls, nodes, started, refused>>

-----------------------------------------------------------------------------
(* The routes and the canister's checks *)

Holder(j) ==
  {s \in Unexpired : s.kind = j.kind /\ s.nonce = j.nonce /\ s.etag = j.etag}

\* validate_source_capture_request_node, and the version of a source.
Checks(j, s) ==
  /\ s.by \in writers
  /\ IF j.kind = "request" THEN [id |-> j.id, by |-> s.by] \in nodes
     ELSE Len(source) = j.etag

\* The route refuses by itself (origin, shape of the request, its configuration,
\* another canister or database), or cannot be reached.
RouteRefuses(j) ==
  /\ j.pc = "post" /\ End(j)
  /\ UNCHANGED <<now, writers, cache, calls, sessions, nodes, source, started, refused, count>>

\* The canister knows no such session, or does not accept what it is used for.
SessionDenied(j) ==
  /\ j.pc = "post" /\ (\A s \in Holder(j) : ~Checks(j, s)) /\ End(j)
  /\ refused' = IF Holder(j) = {} THEN refused \cup {[kind |-> j.kind, took |-> now - j.at]}
                ELSE refused
  /\ UNCHANGED <<now, writers, cache, calls, sessions, nodes, source, started, count>>

SessionChecked(j) ==
  /\ j.pc = "post" /\ \E s \in Holder(j) : Checks(j, s)
  /\ Replace(j, [j EXCEPT !.pc = "checked"])
  /\ UNCHANGED <<now, writers, cache, calls, sessions, nodes, source, started, refused, count>>

\* The worker refuses (409 for a version that is no longer current) or fails.
WorkerRefuses(j) ==
  /\ j.pc = "checked" /\ End(j)
  /\ UNCHANGED <<now, writers, cache, calls, sessions, nodes, source, started, refused, count>>

CallWorker(j) ==
  /\ j.pc = "checked"
  /\ started' = started \cup {[kind |-> j.kind, id |-> j.id, nonce |-> j.nonce,
                               etag |-> j.etag, by |-> j.by]}
  /\ End(j)
  /\ UNCHANGED <<now, writers, cache, calls, sessions, nodes, source, refused, count>>

-----------------------------------------------------------------------------
\* external: the owner takes a role away.
Revoke(u) ==
  /\ u \in writers /\ Cardinality(Users \ writers) < MaxRevocations
  /\ writers' = writers \ {u}
  /\ UNCHANGED <<now, cache, calls, sessions, nodes, source, jobs, started, refused, count>>

Tick == /\ now < MaxTime /\ \A c \in calls : now < c.at + CallTime
        /\ now' = now + 1
        /\ UNCHANGED <<writers, cache, calls, sessions, nodes, source, jobs, started, refused,
                       count>>

Next == \/ \E u \in Users : CreateRequest(u) \/ SaveSource(u) \/ Revoke(u)
        \/ \E c \in calls : Authorize(c) \/ Authorized(c)
        \/ \E j \in jobs : WriteRequest(j) \/ RouteRefuses(j) \/ SessionDenied(j)
                            \/ SessionChecked(j) \/ WorkerRefuses(j) \/ CallWorker(j)
        \/ Tick

Spec == Init /\ [][Next]_vars

-----------------------------------------------------------------------------
\* A principal has one call for a session under way, and a cached session is one the
\* canister holds at least as long.
CacheIsBacked ==
  \A u \in Users :
    /\ Cardinality({c \in calls : c.by = u}) <= 1
    /\ cache[u].pending = (\E c \in calls : c.by = u)
    /\ cache[u].nonce # 0 /\ ~cache[u].pending /\ cache[u].expires >= now =>
         \E s \in sessions : /\ s.nonce = cache[u].nonce /\ s.by = u
                             /\ s.expires >= cache[u].expires

\* A request that reaches the canister within the refresh window is never refused for
\* an expired session.
QuickRequestsPass == \A r \in refused : r.kind = "request" => r.took > Refresh

\* The worker is started for what the session's own principal wrote: a capture request,
\* or the very version of the source that was saved with the session.
StartedByAuthor ==
  \A r \in started :
    /\ r.kind = "request" => [id |-> r.id, by |-> r.by] \in nodes
    /\ r.kind = "run" => source[r.etag] = r.by

\* Worker triggers (source-capture.ts, api/source-capture/trigger, api/source/run,
\* sessions.rs).
TriggersAreSound == CacheIsBacked /\ QuickRequestsPass /\ StartedByAuthor
=============================================================================
