----------------------------- MODULE QueryPanel -----------------------------
(***************************************************************************)
(* Asking the wiki: the browser's query panel collects context with the    *)
(* reader's identity and posts it to the answer route, which checks the    *)
(* session the canister authorised, counts the request in a store without  *)
(* transactions, and lets a model answer from that context only.  The      *)
(* rerank route shares session and counter.                                *)
(***************************************************************************)
EXTENDS Naturals, Sequences, SequencesExt, FiniteSets

CONSTANTS Users,          \* principals with and without access to the database
          Members,        \* those with the reader role
          Pages,          \* paths of the database's pages
          RawSources,     \* the pages under /Sources
          Blank,          \* the pages without text
          Rankings,       \* orders in which the canister ranks pages
          Scores,         \* probabilities the reranker gives
          Threshold,      \* RECALL_JEV_THRESHOLD
          ContextLimit,   \* pages of a question's context (6)
          ResultLimit,    \* candidates kept by the reranker (3)
          RateLimit,      \* requests in a minute (10)
          MaxActions, MaxRequests, MaxMinutes

Nobody == "none"
Foreign == "/elsewhere"   \* a path the model made up

VARIABLES me,             \* who is signed in
          shown,          \* activeAction, pendingAction, result, busy
          job,            \* the panel's action in flight
          sessions,       \* external: authorised nonces and their principals
          requests,       \* requests at the routes
          store,          \* external: requests counted, by route, principal and minute
          minute,         \* Math.floor(Date.now() / 60_000)
          cooling,        \* less than two seconds since the last question
          queued,         \* external: source capture requests written
          log,            \* model calls the routes made
          output,         \* what the last of them returned
          count           \* actions so far

vars == <<me, shown, job, sessions, requests, store, minute, cooling, queued, log, output,
          count>>
routes == <<requests, store, log, output>>

Kinds == {"read", "queue_url", "ask"}       \* read: lint, sql and search
NoResult == [kind |-> Nobody, of |-> 0]
NoJob == [kind |-> Nobody, id |-> 0]
NoOutput == [kind |-> Nobody]
Cleared == [active |-> 0, pending |-> 0, result |-> NoResult, busy |-> FALSE]

Init == /\ me \in Users \cup {Nobody}
        /\ shown = Cleared /\ job = NoJob
        /\ sessions = {} /\ requests = {}
        /\ store = [k \in {"answer", "rerank"}, u \in Users, m \in 0..MaxMinutes |-> 0]
        /\ minute = 0 /\ cooling = FALSE /\ queued = {} /\ log = {} /\ output = NoOutput
        /\ count = 0

-----------------------------------------------------------------------------
(* Context of a question *)

IsAnswerContext(p) == p \notin Blank

\* Pages before raw sources, both in the order they came.
RankAnswerPaths(ps) == SelectSeq(ps, LAMBDA p : p \notin RawSources)
                         \o SelectSeq(ps, LAMBDA p : p \in RawSources)

\* A mutant of AddPage: a page found twice is added twice.
AddPage_Again(ps, p) ==
  IF Len(ps) < ContextLimit /\ IsAnswerContext(p) THEN Append(ps, p) ELSE ps

AddPage(ps, p) ==
  IF Len(ps) < ContextLimit /\ IsAnswerContext(p) /\ ~Contains(ps, p) THEN Append(ps, p)
  ELSE ps

\* The current page, then the canister's ranked pages, then search hits.
CollectContext(current, ranked, hits) ==
  FoldLeft(AddPage, FoldLeft(AddPage, FoldLeft(AddPage, <<>>, current),
                             RankAnswerPaths(ranked)), RankAnswerPaths(hits))

-----------------------------------------------------------------------------
(* The panel *)

Result(kind) == [kind |-> kind, of |-> job.id]
Finish(result) == /\ shown' = [shown EXCEPT !.result = result, !.busy = FALSE]
                  /\ job' = NoJob

\* Run is disabled while something runs.  A URL waits for its confirmation; a
\* question needs a session of the user and two seconds since the last one.
Submit(kind) ==
  /\ ~shown.busy /\ count < MaxActions
  /\ count' = count + 1
  /\ LET started == [active |-> count + 1, pending |-> 0, result |-> NoResult, busy |-> TRUE]
         refused == [started EXCEPT !.busy = FALSE,
                                    !.result = [kind |-> "error", of |-> count + 1]] IN
     IF kind = "queue_url"
       THEN /\ shown' = [started EXCEPT !.pending = count + 1, !.busy = FALSE]
            /\ UNCHANGED <<job, cooling>>
     ELSE IF kind = "ask" /\ (me = Nobody \/ cooling)
       THEN shown' = refused /\ UNCHANGED <<job, cooling>>
     ELSE /\ shown' = started
          /\ job' = [kind |-> kind, id |-> count + 1, by |-> me, pc |-> "start", ctx |-> <<>>]
          /\ cooling' = (cooling \/ kind = "ask")
  /\ UNCHANGED <<me, sessions, routes, minute, queued>>

\* lint, sql and search are one read.
Read ==
  /\ job.kind = "read"
  /\ \E k \in {job.kind, "error"} : Finish(Result(k))
  /\ UNCHANGED <<me, sessions, routes, minute, cooling, queued, count>>

\* Confirm is there as long as the URL is pending, also after a failure.
Confirm(cyclesOk) ==
  /\ shown.pending # 0 /\ ~shown.busy
  /\ IF me = Nobody \/ ~cyclesOk
       THEN /\ shown' = [shown EXCEPT !.result = [kind |-> "error", of |-> shown.pending]]
            /\ UNCHANGED job
       ELSE /\ shown' = [shown EXCEPT !.busy = TRUE]
            /\ job' = [kind |-> "queue_url", id |-> shown.pending, by |-> me, pc |-> "start",
                       ctx |-> <<>>]
  /\ UNCHANGED <<me, sessions, routes, minute, cooling, queued, count>>

\* createSourceCaptureRequest: the request is written, or not; a worker that could
\* not be started is reported with the request.
Queue(ok) ==
  /\ job.kind = "queue_url"
  /\ IF ok
       THEN /\ queued' = queued \cup {[id |-> job.id, by |-> job.by]}
            /\ shown' = [shown EXCEPT !.pending = 0, !.busy = FALSE,
                                      !.result = Result("message")]
       ELSE /\ shown' = [shown EXCEPT !.busy = FALSE, !.result = Result("error")]
            /\ UNCHANGED queued
  /\ job' = NoJob
  /\ UNCHANGED <<me, sessions, routes, minute, cooling, count>>

\* authorize_query_answer_session, for readers of the database.
Authorize ==
  /\ job.kind = "ask" /\ job.pc = "start"
  /\ IF job.by \in Members
       THEN /\ sessions' = sessions \cup {[nonce |-> job.id, by |-> job.by]}
            /\ job' = [job EXCEPT !.pc = "context"]
            /\ UNCHANGED shown
       ELSE Finish(Result("error")) /\ UNCHANGED sessions
  /\ UNCHANGED <<me, routes, minute, cooling, queued, count>>

Request(kind, nonce, ctx) ==
  [kind |-> kind, nonce |-> nonce, ctx |-> ctx, pc |-> "check", by |-> Nobody, minute |-> 0,
   seen |-> 0, raced |-> FALSE]

Collect(current, ranked, hits) ==
  /\ job.kind = "ask" /\ job.pc = "context"
  /\ LET ctx == CollectContext(current, ranked, hits) IN
     /\ job' = [job EXCEPT !.pc = "wait", !.ctx = ctx]
     /\ requests' = requests \cup {Request("answer", job.id, ctx)}
  /\ UNCHANGED <<me, shown, sessions, store, minute, cooling, queued, log, output, count>>

SignIn(u) ==
  /\ me # u /\ me' = u
  /\ count < MaxActions /\ count' = count + 1
  /\ UNCHANGED <<shown, job, sessions, routes, minute, cooling, queued>>

-----------------------------------------------------------------------------
(* The routes *)

\* A reply that the panel does not wait for leaves the system.
Replied(s) == s.pc \in {"denied", "abstained", "answered"}
Replace(r, s) ==
  requests' = IF Replied(s) /\ s.nonce # job.id THEN requests \ {r}
              ELSE (requests \ {r}) \cup {s}
Denied(r) == [r EXCEPT !.pc = "denied"]

\* external: another tab or the clipper, with a session of its own or none.
OtherRequest(kind, u, ctx) ==
  /\ Cardinality(requests) < MaxRequests /\ count < MaxActions
  /\ count' = count + 1
  /\ LET nonce == count + 1 IN
     /\ sessions' = IF u \in Members THEN sessions \cup {[nonce |-> nonce, by |-> u]}
                    ELSE sessions
     /\ requests' = requests \cup {Request(kind, nonce, ctx)}
  /\ UNCHANGED <<me, shown, job, store, minute, cooling, queued, log, output>>

\* check_query_answer_session: the principal comes from the session.
CheckSession(r) ==
  /\ r.pc = "check"
  /\ LET held == {s \in sessions : s.nonce = r.nonce} IN
     IF held = {} THEN Replace(r, Denied(r))
     ELSE \E s \in held : Replace(r, [r EXCEPT !.pc = "get", !.by = s.by])
  /\ UNCHANGED <<me, shown, job, sessions, store, minute, cooling, queued, log, output, count>>

SameKey(r, s) == s.kind = r.kind /\ s.by = r.by /\ s.minute = minute /\ s.pc = "put"

RateGet(r) ==
  /\ r.pc = "get"
  /\ LET raced == {s \in requests \ {r} : SameKey(r, s)} IN
     requests' = ((requests \ {r}) \ raced)
       \cup {[s EXCEPT !.raced = TRUE] : s \in raced}
       \cup {[r EXCEPT !.pc = "put", !.minute = minute, !.raced = raced # {},
                       !.seen = store[r.kind, r.by, minute]]}
  /\ UNCHANGED <<me, shown, job, sessions, store, minute, cooling, queued, log, output, count>>

\* A mutant of RateLimited: one more than the limit.
RateLimited_OneMore(r) == r.seen > RateLimit

RateLimited(r) == r.seen >= RateLimit

\* The count read is written back with one more.
RatePut(r) ==
  /\ r.pc = "put"
  /\ IF RateLimited(r) THEN Replace(r, Denied(r)) /\ UNCHANGED store
     ELSE /\ Replace(r, [r EXCEPT !.pc = IF r.kind = "answer" /\ r.ctx = <<>>
                                           THEN "abstained" ELSE "model"])
          /\ store' = [store EXCEPT ![r.kind, r.by, r.minute] = r.seen + 1]
  /\ UNCHANGED <<me, shown, job, sessions, minute, cooling, queued, log, output, count>>

\* A mutant of Citations: the model's citations are passed on.
Citations_All(cited, ctx) == cited

Citations(cited, ctx) == cited \cap ToSet(ctx)

Called(r) == [kind |-> r.kind, nonce |-> r.nonce, by |-> r.by, minute |-> r.minute,
              raced |-> r.raced]

\* callDeepSeek: the model cites what it likes; an answer without a citation from
\* the context counts as abstained.  It may also fail or time out.
ModelAnswers(r) ==
  /\ r.pc = "model" /\ r.kind = "answer"
  /\ \E cited \in {{}} \cup {{p} : p \in Pages \cup {Foreign}}, abstained \in BOOLEAN :
       LET cs == Citations(cited, r.ctx) IN
       output' = [kind |-> "answer", ctx |-> r.ctx, citations |-> cs,
                  abstained |-> abstained \/ cs = {}]
  /\ log' = log \cup {Called(r)}
  /\ Replace(r, [r EXCEPT !.pc = "answered"])
  /\ UNCHANGED <<me, shown, job, sessions, store, minute, cooling, queued, count>>

ModelFails(r) ==
  /\ r.pc = "model"
  /\ Replace(r, Denied(r))
  /\ UNCHANGED <<me, shown, job, sessions, store, minute, cooling, queued, log, output, count>>

\* A mutant of Better: the reranker's order ignores where a page is.
Better_ByIndex(score, ctx, i, j) == score[i] > score[j] \/ (score[i] = score[j] /\ i < j)

\* Higher probability first, then pages before sources, then the given order.
Better(score, ctx, i, j) ==
  \/ score[i] > score[j]
  \/ score[i] = score[j] /\ ctx[i] \notin RawSources /\ ctx[j] \in RawSources
  \/ score[i] = score[j] /\ (ctx[i] \in RawSources) = (ctx[j] \in RawSources) /\ i < j

SelectedIndices(score, ctx) ==
  LET able == {i \in DOMAIN ctx : score[i] >= Threshold}
      order == SortSeq(SetToSeq(able), LAMBDA i, j : Better(score, ctx, i, j)) IN
  SubSeq(order, 1, IF Len(order) < ResultLimit THEN Len(order) ELSE ResultLimit)

Rerank(r) ==
  /\ r.pc = "model" /\ r.kind = "rerank"
  /\ \E score \in [DOMAIN r.ctx -> Scores] :
       output' = [kind |-> "rerank", ctx |-> r.ctx, score |-> score,
                  selected |-> SelectedIndices(score, r.ctx)]
  /\ log' = log \cup {Called(r)}
  /\ Replace(r, [r EXCEPT !.pc = "answered"])
  /\ UNCHANGED <<me, shown, job, sessions, store, minute, cooling, queued, count>>

\* The panel shows the answer of its own request.
ShowAnswer(r) ==
  /\ job.kind = "ask" /\ job.pc = "wait" /\ r.nonce = job.id
  /\ \/ r.pc = "answered" /\ Finish(Result("answer"))
     \/ r.pc = "abstained" /\ Finish(Result("abstained"))
     \/ r.pc = "denied" /\ Finish(Result("error"))
  /\ requests' = requests \ {r}
  /\ UNCHANGED <<me, sessions, store, log, output, minute, cooling, queued, count>>

Tick == \/ cooling /\ cooling' = FALSE /\ UNCHANGED minute
        \/ minute < MaxMinutes /\ minute' = minute + 1 /\ cooling' = FALSE

Clock == Tick /\ UNCHANGED <<me, shown, job, sessions, routes, queued, count>>

Next ==
  \/ \E k \in Kinds : Submit(k)
  \/ Read \/ Authorize \/ Clock
  \/ \E ok \in BOOLEAN : Confirm(ok) \/ Queue(ok)
  \/ \E current \in {<<>>} \cup {<<p>> : p \in Pages}, ranked \in Rankings, hits \in Rankings :
       Collect(current, ranked, hits)
  \/ \E u \in Users \cup {Nobody} : SignIn(u)
  \/ \E k \in {"answer", "rerank"}, u \in Users, ctx \in Rankings \ {<<>>} :
       OtherRequest(k, u, ctx)
  \/ \E r \in requests :
       CheckSession(r) \/ RateGet(r) \/ RatePut(r) \/ ModelAnswers(r) \/ ModelFails(r)
         \/ Rerank(r) \/ ShowAnswer(r)

Spec == Init /\ [][Next]_vars

-----------------------------------------------------------------------------
\* An answer cites only pages of the context it was given, and one without a
\* citation is marked as abstained.
AnswersAreGrounded ==
  output.kind = "answer" =>
    /\ output.citations \subseteq ToSet(output.ctx)
    /\ output.abstained \/ output.citations # {}

\* The context the panel collects fits the route's limit, without repetition.
ContextIsDistinct ==
  job.kind = "ask" =>
    /\ IsInjective(job.ctx) /\ Len(job.ctx) <= ContextLimit
    /\ ToSet(job.ctx) \cap Blank = {}

\* No candidate left out is better than one that was kept.
BestAreKept ==
  output.kind = "rerank" =>
    LET o == output IN
    \A i \in ToSet(o.selected), j \in DOMAIN o.ctx \ ToSet(o.selected) :
      /\ o.score[i] >= Threshold
      /\ o.score[i] >= o.score[j]
      /\ o.score[i] = o.score[j] /\ o.ctx[i] \in RawSources => o.ctx[j] \in RawSources

\* The model is called for members only, and in a minute more often than the limit
\* only if two requests read the count before either wrote it.
CallsAreCounted ==
  /\ \A l \in log : l.by \in Members
  /\ \A u \in Users, m \in 0..MaxMinutes, k \in {"answer", "rerank"} :
       LET ls == {l \in log : l.by = u /\ l.minute = m /\ l.kind = k} IN
       Cardinality(ls) > RateLimit => \E l \in ls : l.raced

\* A result belongs to the action it is shown for, and a request is written only for
\* a URL that was confirmed.
ResultIsOwn ==
  /\ shown.result.of \in {0, shown.active}
  /\ \A q \in queued : q.by # Nobody

\* The query panel and its routes (query-panel.tsx, query-context.ts,
\* api/query/answer, api/recall/rerank).
QueriesAreGrounded ==
  AnswersAreGrounded /\ ContextIsDistinct /\ BestAreKept /\ CallsAreCounted /\ ResultIsOwn
=============================================================================
