--------------------------- MODULE ClipperRecall ---------------------------
(***************************************************************************)
(* Recall in the ChatGPT page: a sent draft is searched in the selected    *)
(* database and up to three memories are shown as cards; a click fetches   *)
(* one of them and inserts it into the input.  The page, the service       *)
(* worker, the offscreen document and the storage of the settings answer   *)
(* each other in messages, and the user may navigate, send another draft,  *)
(* select another database or change identity in between.                  *)
(*                                                                         *)
(* A hit keeps what ranking and merging look at: its score, whether its    *)
(* preview is of the content, and whether it has a snippet.  A navigation  *)
(* is noticed, by an event or by the mutation it causes, before the next.  *)
(***************************************************************************)
EXTENDS Integers, Sequences, FiniteSets, SequencesExt

CONSTANTS
  Conversations,  \* conversation ids; NewChat is the page without one
  Databases,
  Principals,
  HitLists,       \* answers of the two prefix searches: sequences of hits
  Knowledge,      \* paths under /Knowledge
  Own,            \* conversation -> path of its own evidence source
  Queries,
  MaxSearches,    \* searches started
  MaxMoves        \* navigations, selections and identity changes explored

VARIABLES
  tab,            \* [url, noticed, kind, assigned]
  draft,          \* [pending, last]: the 300 ms timer and lastScheduled
  config,         \* [stored, page, events, loading, late]
  generation,     \* recallRequestGeneration
  search,         \* searches in order
  shown,          \* recallResults, with where they came from
  adding,         \* addRecallContext under way
  session,        \* recallSession of the offscreen document
  identity,       \* [principal, resetting]
  moves

vars == <<tab, draft, config, generation, search, shown, adding, session, identity, moves>>

None == "none"
NewChat == "new"
NoSession == [principal |-> None, database |-> None]
NoCards == [paths |-> <<>>, url |-> None, database |-> None]
NoAdding == [pc |-> "off", generation |-> 0, url |-> None, page |-> None, path |-> None, card |-> None, database |-> None]
NoSearch == [pc |-> "over", generation |-> 0, url |-> None, database |-> None, principal |-> None,
             hits |-> <<>>, answer |-> <<>>, session |-> NoSession]

RECALL_RESULT_LIMIT == 3

-----------------------------------------------------------------------------
(* Ranking                                                                 *)

First(n, s) == SubSeq(s, 1, IF Len(s) < n THEN Len(s) ELSE n)

\* preferredRecallHit: the content preview, then the one with a snippet, then
\* the better score, then the earlier place.
preferredRecallHit(l, r) ==
  CASE l.content # r.content -> IF l.content THEN l ELSE r
    [] l.content = r.content /\ l.snippet # r.snippet -> IF l.snippet THEN l ELSE r
    [] l.content /\ r.content /\ l.snippet = r.snippet /\ l.score # r.score -> IF l.score < r.score THEN l ELSE r
    [] l.content /\ r.content /\ l.snippet = r.snippet /\ l.score = r.score -> IF l.offset <= r.offset THEN l ELSE r
    [] OTHER -> l

\* mergeRecallHit: nothing is merged across kinds.
mergeRecallHit(old, new) ==
  IF old.kind # new.kind THEN old
  ELSE [preferredRecallHit(old, new) EXCEPT !.score = IF old.score < new.score THEN old.score ELSE new.score]

\* The hits of documents that are not the conversation itself.
Eligible(hits, url) ==
  SelectSeq(hits, LAMBDA h : h.kind \in {"File", "Source"} /\ h.reason
                             /\ ~(url \in Conversations /\ h.path = Own[url]))

\* collectRecallCandidates: one candidate per path.
Merged(hits) ==
  FoldLeft(LAMBDA acc, h :
             IF \E i \in DOMAIN acc : acc[i].path = h.path
             THEN [i \in DOMAIN acc |-> IF acc[i].path = h.path THEN mergeRecallHit(acc[i], h) ELSE acc[i]]
             ELSE Append(acc, h),
           <<>>, hits)

\* Knowledge before sources, then by score.  Equal scores keep their order,
\* which stands for the order of their paths.
Before(l, r) ==
  \/ l.path \in Knowledge /\ r.path \notin Knowledge
  \/ (l.path \in Knowledge <=> r.path \in Knowledge) /\ l.score < r.score

collectRecallCandidates(hits, url) ==
  LET docs == Merged(Eligible(hits, url))
      place(i) == Cardinality({j \in DOMAIN docs : Before(docs[j], docs[i])
                                 \/ (~Before(docs[i], docs[j]) /\ j < i)}) + 1
  IN [k \in DOMAIN docs |-> docs[CHOOSE i \in DOMAIN docs : place(i) = k]]

rankRecallHits(hits, url) == First(RECALL_RESULT_LIMIT, collectRecallCandidates(hits, url))

PathsOf(hits) == [i \in DOMAIN hits |-> hits[i].path]

-----------------------------------------------------------------------------
(* Page: drafts and searches                                               *)

\* schedule: a draft sent again at once is the same event seen twice.
schedule(query, soon) ==
  /\ Len(search) < MaxSearches
  /\ ~(soon /\ query = draft.last)
  /\ draft' = [pending |-> query, last |-> query]
  /\ UNCHANGED <<tab, config, generation, search, shown, adding, session, identity, moves>>

\* The timer fires: runRecall starts a generation and takes the cards away.
runRecall ==
  /\ draft.pending # None /\ Len(search) < MaxSearches
  /\ draft' = [draft EXCEPT !.pending = None]
  /\ generation' = generation + 1
  /\ shown' = NoCards
  /\ search' = Append(search, [NoSearch EXCEPT !.pc = "config", !.generation = generation + 1])
  /\ UNCHANGED <<tab, config, adding, session, identity, moves>>

Current_Always(n) == TRUE

Current(n) == search[n].generation = generation

\* Once the settings are loaded the search goes to the service worker.
SendSearch(n) ==
  /\ search[n].pc = "config" /\ config.loading = None
  /\ search' = [search EXCEPT ![n] = IF Current(n) /\ config.page # None
                                     THEN [@ EXCEPT !.pc = "worker", !.url = tab.url] ELSE NoSearch]
  /\ UNCHANGED <<tab, draft, config, generation, shown, adding, session, identity, moves>>

\* recallSearch of the service worker reads the settings itself.
WorkerSearch(n) ==
  /\ search[n].pc = "worker"
  /\ search' = [search EXCEPT ![n].pc = IF config.stored = None THEN "answer" ELSE "search",
                              ![n].database = config.stored]
  /\ UNCHANGED <<tab, draft, config, generation, shown, adding, session, identity, moves>>

\* searchRecall: the literal query, and the fallback when it finds little.
searchRecall(n, literal, fallback) ==
  LET few == Len(rankRecallHits(literal, search[n].url)) < RECALL_RESULT_LIMIT
      hits == IF few THEN literal \o fallback ELSE literal
      candidates == collectRecallCandidates(hits, search[n].url)
  IN
  /\ search[n].pc = "search" /\ ~identity.resetting
  /\ search' = [search EXCEPT ![n].hits = candidates, ![n].principal = identity.principal,
                              ![n].pc = IF candidates = <<>> THEN "answer" ELSE "session"]
  /\ UNCHANGED <<tab, draft, config, generation, shown, adding, session, identity, moves>>

\* The rank without the model: the answer when reranking fails or is late.
Baseline(n) == First(RECALL_RESULT_LIMIT, search[n].hits)

ReusesSession_AnyDatabase(n) == session.principal = search[n].principal

ReusesSession(n) == session.principal = search[n].principal /\ session.database = search[n].database

\* authorizedRecallSession: the kept one, or a new one the canister grants to
\* the caller on the database.
authorizedRecallSession(n) ==
  LET mine == [principal |-> search[n].principal, database |-> search[n].database] IN
  /\ search[n].pc = "session"
  /\ \/ ReusesSession(n) /\ search' = [search EXCEPT ![n].pc = "rerank", ![n].session = session]
                         /\ UNCHANGED session
     \/ /\ ~ReusesSession(n)
        /\ search' = [search EXCEPT ![n].pc = "rerank", ![n].session = mine]
        /\ session' = mine
     \/ ~ReusesSession(n) /\ search' = [search EXCEPT ![n].pc = "answer", ![n].answer = Baseline(n)]
                          /\ UNCHANGED session
  /\ UNCHANGED <<tab, draft, config, generation, shown, adding, identity, moves>>

\* rerankRecall: distinct indices of candidates, at most three of them.
ValidSelection(selected, n) ==
  /\ Len(selected) <= RECALL_RESULT_LIMIT
  /\ IsInjective(selected)
  /\ \A i \in DOMAIN selected : selected[i] \in DOMAIN search[n].hits

\* The reranker answers, refuses the session, fails or is late.
rerankRecall(n, selected, refused) ==
  /\ search[n].pc = "rerank"
  /\ session' = IF refused THEN NoSession ELSE session
  /\ search' = [search EXCEPT ![n].pc = "answer",
                 ![n].answer = IF refused \/ ~ValidSelection(selected, n) THEN Baseline(n)
                               ELSE [i \in DOMAIN selected |-> search[n].hits[selected[i]]]]
  /\ UNCHANGED <<tab, draft, config, generation, shown, adding, identity, moves>>

\* The page gets the answer, or an error or timeout of the service worker.
ShowAnswer(n, fails) ==
  /\ search[n].pc \notin {"config", "over"}
  /\ ~fails => search[n].pc = "answer"
  /\ search' = [search EXCEPT ![n] = NoSearch]
  /\ shown' = IF ~Current(n) THEN shown
              ELSE IF fails \/ search[n].answer = <<>> THEN NoCards
              ELSE [paths |-> PathsOf(search[n].answer), url |-> search[n].url, database |-> search[n].database]
  /\ UNCHANGED <<tab, draft, config, generation, adding, session, identity, moves>>

-----------------------------------------------------------------------------
(* Page: cards                                                             *)

\* addRecallContext: the state of the page is taken at the click.
addRecallContext(i) ==
  /\ i \in DOMAIN shown.paths /\ adding.pc \in {"off", "inserted"}
  /\ adding' = [pc |-> "worker", generation |-> generation, url |-> tab.url, page |-> config.page,
                path |-> shown.paths[i], card |-> shown.database, database |-> None]
  /\ UNCHANGED <<tab, draft, config, generation, search, shown, session, identity, moves>>

\* recallFetch: the service worker reads the settings again.
recallFetch ==
  /\ adding.pc = "worker"
  /\ adding' = [adding EXCEPT !.pc = IF config.stored = None THEN "off" ELSE "fetched", !.database = config.stored]
  /\ UNCHANGED <<tab, draft, config, generation, search, shown, session, identity, moves>>

isRecallContextStale_BeforeOnly == FALSE

isRecallContextStale ==
  adding.generation # generation \/ adding.url # tab.url \/ adding.page # config.page

\* The fetched memory is inserted when the page is still where it was.
applyRecallContext(fails) ==
  /\ adding.pc = "fetched"
  /\ adding' = [NoAdding EXCEPT !.pc = IF fails \/ isRecallContextStale THEN "off" ELSE "inserted"]
  /\ UNCHANGED <<tab, draft, config, generation, search, shown, session, identity, moves>>

-----------------------------------------------------------------------------
(* Navigation, settings, identity                                          *)

Moves == moves < MaxMoves /\ moves' = moves + 1

\* The page moves: by a link the user follows, by going back, or because a new
\* chat gets its id (history-update).
Navigate(url, kind) ==
  /\ Moves
  /\ url # tab.url /\ tab.noticed = tab.url
  /\ kind = "assigned" => tab.url = NewChat /\ url \in Conversations
  /\ tab' = [tab EXCEPT !.url = url, !.kind = kind]
  /\ UNCHANGED <<draft, config, generation, search, shown, adding, session, identity>>

invalidateRecall ==
  /\ draft' = [pending |-> None, last |-> None]
  /\ generation' = generation + 1
  /\ shown' = NoCards

preservesNavigation_New(from, to, kind) == from = NewChat /\ to \in Conversations

\* preservesChatGptRecallNavigation.  A link to a conversation is an explicit
\* selection; going back is a history traversal.
preservesNavigation(from, to, kind) == from = NewChat /\ to \in Conversations /\ kind = "assigned"

\* notify, onNavigate
NoticeNavigation ==
  /\ tab.noticed # tab.url
  /\ tab' = [tab EXCEPT !.noticed = tab.url,
                        !.assigned = IF tab.kind = "assigned" THEN tab.url ELSE None]
  /\ IF preservesNavigation(tab.noticed, tab.url, tab.kind)
     THEN UNCHANGED <<draft, generation, shown>> ELSE invalidateRecall
  /\ UNCHANGED <<config, search, adding, session, identity, moves>>

\* Another database is selected in the popup; the page hears of it later.
SelectDatabase(d) ==
  /\ Moves /\ d # config.stored
  /\ config' = [config EXCEPT !.stored = d, !.events = Append(@, d)]
  /\ UNCHANGED <<tab, draft, generation, search, shown, adding, session, identity>>

\* chrome.storage.onChanged, applyRecallStorageChanges
SettingsChanged ==
  LET d == Head(config.events) IN
  /\ config.events # <<>>
  /\ config' = [config EXCEPT !.page = d, !.events = Tail(@)]
  /\ IF d # config.page THEN invalidateRecall ELSE UNCHANGED <<draft, generation, shown>>
  /\ UNCHANGED <<tab, search, adding, session, identity, moves>>

\* loadConfig of the page returns what the service worker read at the start;
\* it replaces a selection the page has heard of since.
loadConfig ==
  /\ config.loading # None
  /\ config' = [config EXCEPT !.page = config.loading, !.loading = None,
                              !.late = config.page \notin {None, config.loading}]
  /\ UNCHANGED <<tab, draft, generation, search, shown, adding, session, identity, moves>>

\* The popup signs in as another user and resets the offscreen document ...
SwitchIdentity(p) ==
  /\ Moves /\ p # identity.principal
  /\ identity' = [principal |-> p, resetting |-> TRUE]
  /\ UNCHANGED <<tab, draft, config, generation, search, shown, adding, session>>

\* ... whose kept session goes.
resetOffscreenAuthState ==
  /\ identity.resetting
  /\ identity' = [identity EXCEPT !.resetting = FALSE]
  /\ session' = NoSession
  /\ UNCHANGED <<tab, draft, config, generation, search, shown, adding, moves>>

-----------------------------------------------------------------------------

Init ==
  /\ tab = [url |-> NewChat, noticed |-> NewChat, kind |-> None, assigned |-> None]
  /\ draft = [pending |-> None, last |-> None]
  /\ LET d == CHOOSE x \in Databases : TRUE IN
       config = [stored |-> d, page |-> None, events |-> <<>>, loading |-> d, late |-> FALSE]
  /\ generation = 0
  /\ search = <<>>
  /\ shown = NoCards
  /\ adding = NoAdding
  /\ session = NoSession
  /\ identity = [principal |-> CHOOSE p \in Principals : TRUE, resetting |-> FALSE]
  /\ moves = 0

Next ==
  \/ \E q \in Queries, soon \in BOOLEAN : schedule(q, soon)
  \/ runRecall
  \/ \E n \in DOMAIN search :
       \/ SendSearch(n)
       \/ WorkerSearch(n)
       \/ \E l, f \in HitLists : searchRecall(n, l, f)
       \/ authorizedRecallSession(n)
       \/ \E sel \in {<<2>>, <<1, 1>>, <<4>>}, b \in BOOLEAN : rerankRecall(n, sel, b)
       \/ \E b \in BOOLEAN : ShowAnswer(n, b)
  \/ \E i \in 1..RECALL_RESULT_LIMIT : addRecallContext(i)
  \/ recallFetch
  \/ \E b \in BOOLEAN : applyRecallContext(b)
  \/ \E u \in Conversations \cup {NewChat}, k \in {"assigned", "link", "back"} : Navigate(u, k)
  \/ NoticeNavigation
  \/ \E d \in Databases : SelectDatabase(d)
  \/ SettingsChanged
  \/ loadConfig
  \/ \E p \in Principals : SwitchIdentity(p)
  \/ resetOffscreenAuthState

Spec == Init /\ [][Next]_vars

-----------------------------------------------------------------------------
(* Properties                                                              *)

\* The page is still in the conversation a search was made in: at its URL, or
\* at the id its new chat was given, or about to notice that it moved.
StillIn(url) ==
  \/ tab.noticed # tab.url
  \/ url = tab.url
  \/ url = NewChat /\ tab.assigned = tab.url

\* The setting the page has is the stored one, or a change is on its way, or a
\* late load has put an old one back.
Settled(d) == d = config.stored \/ config.events # <<>> \/ config.late

\* However searches, navigations, selections and identity changes interleave:
\* the cards shown are of the conversation the page is in and of the selected
\* database, at most three, of distinct documents and never the conversation
\* itself; and no search is reranked in a session of another user or database.
RecallIsCurrent ==
  /\ shown # NoCards => StillIn(shown.url) /\ Settled(shown.database)
  /\ Len(shown.paths) <= RECALL_RESULT_LIMIT
  /\ IsInjective(shown.paths)
  /\ shown.url \in Conversations => Own[shown.url] \notin Range(shown.paths)
  /\ \A n \in DOMAIN search : search[n].pc = "rerank" =>
       search[n].session = [principal |-> search[n].principal, database |-> search[n].database]

\* A slow fetch never puts a memory into the input after the page has left the
\* conversation the card was shown in, nor, with settings that were not loaded
\* late, a memory of another database than the card's.
InsertsCard ==
  adding.pc = "fetched" /\ adding'.pc = "inserted" =>
    /\ adding.url = tab.url
    /\ adding.database = adding.card \/ config.events # <<>> \/ config.late
InsertsWhatWasShown == [][InsertsCard]_vars
=============================================================================
