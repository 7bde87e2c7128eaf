---------------------------- MODULE BrowserPanels ----------------------------
(***************************************************************************)
(* The read panels beside a wiki page: search results, link graph,         *)
(* explorer tree and inspector.  Each is a function of the address and the *)
(* reader; each starts its reads in an effect, after the page was drawn,   *)
(* and answers come in any order, also between a drawing and its effects.  *)
(***************************************************************************)
EXTENDS Naturals, FiniteSets

CONSTANTS Readers,        \* the principals of the session, the anonymous one included
          Queries,        \* search texts (with kind, prefix, limit and preview)
          Paths,          \* selected paths, the centers of local graphs
          Cited,          \* paths whose own text names their sources
          MaxMoves, MaxToggles, MaxChanges, MaxErrors

None == "none"

VARIABLES route,          \* reader, search text and path of the address
          drawn,          \* effects have run for what is drawn
          ran,            \* the dependencies the effects last ran with
          calls,          \* reads in flight that were not cancelled
          search,         \* searchState
          latest, lastKey,\* latestRequest, lastRequestedKey
          graph,          \* links
          tree,           \* a folder of the explorer
          cache,          \* childNodesCache: the version listed, by reader
          inspector,      \* provenance: of which path, read by whom
          version,        \* external: the store, and explorerRevision
          moves, toggles, errors

vars == <<route, drawn, ran, calls, search, latest, lastKey, graph, tree, cache, inspector,
          version, moves, toggles, errors>>

SearchKey == <<route.query, route.by>>
GraphKey == <<route.path, route.by>>

\* The inspector reads the provenance page of a path that names no source itself,
\* and keeps what it read under the path alone.
ExpectedProvenance == IF route.path \in Cited THEN None ELSE route.path

NoData == [key |-> <<None>>, by |-> None, ok |-> TRUE]
NoListing == [version |-> 0, by |-> None]
EmptyCache == [b \in {} |-> 0]
Folder(open) == [open |-> open, data |-> NoListing, error |-> FALSE, missing |-> FALSE]

Deps == [graph |-> GraphKey,
         inspector |-> <<ExpectedProvenance, route.by>>,
         tree |-> <<route.by, tree.open, version>>]

NeverRan == [graph |-> <<>>, inspector |-> <<>>, tree |-> <<>>]

Init == /\ route \in [by : Readers, query : {None}, path : Paths]
        /\ drawn = FALSE /\ ran = NeverRan /\ calls = {}
        /\ search = NoData /\ latest = 0 /\ lastKey = <<None>>
        /\ graph = NoData /\ inspector = NoData
        /\ cache = EmptyCache /\ tree = Folder(FALSE)
        /\ version = 1 /\ moves = 0 /\ toggles = 0 /\ errors = 0

-----------------------------------------------------------------------------
(* Drawing *)

\* A folder mounted for a reader takes a listing from the cache.
Mounted(by, open) ==
  IF by \in DOMAIN cache
    THEN [Folder(open) EXCEPT !.data = [version |-> cache[by], by |-> by]]
    ELSE Folder(open)

\* A mutant of TreeFor: folders are keyed by their path only.
TreeFor_AnyReader(by) == tree

\* The tree is keyed by the reader.
TreeFor(by) == IF by = route.by THEN tree ELSE Mounted(by, tree.open)

Navigate(r) ==
  /\ drawn /\ moves < MaxMoves /\ r # route
  /\ moves' = moves + 1
  /\ route' = r
  /\ drawn' = FALSE
  /\ tree' = TreeFor(r.by)
  /\ UNCHANGED <<ran, calls, search, latest, lastKey, graph, cache, inspector, version,
                 toggles, errors>>

Toggle ==
  /\ drawn /\ toggles < MaxToggles
  /\ toggles' = toggles + 1
  /\ tree' = [tree EXCEPT !.open = ~@]
  /\ drawn' = FALSE
  /\ UNCHANGED <<route, ran, calls, search, latest, lastKey, graph, cache, inspector, version,
                 moves, errors>>

\* invalidateBrowserCaches after a change: the cache is emptied and the tree is rebuilt.
ExplorerChanges ==
  /\ drawn /\ version <= MaxChanges
  /\ version' = version + 1
  /\ cache' = EmptyCache
  /\ tree' = Folder(tree.open)
  /\ drawn' = FALSE
  /\ UNCHANGED <<route, ran, calls, search, latest, lastKey, graph, inspector, moves, toggles,
                 errors>>

-----------------------------------------------------------------------------
(* Effects *)

Searches == route.query # None /\ lastKey # SearchKey

\* A mutant of RequestedKey: clearing the search keeps the last key.
RequestedKey_Kept == IF route.query = None THEN lastKey ELSE SearchKey

\* An empty search forgets the last key; a key is requested once in a row.
RequestedKey == IF route.query = None THEN <<None>> ELSE SearchKey

\* A folder lists its children once it is open and has neither children nor error.
Unlisted == tree.open /\ tree.data = NoListing /\ ~tree.error
Wants(panel) == CASE panel = "tree" -> Unlisted /\ route.by \notin DOMAIN cache
                  [] panel = "inspector" -> ExpectedProvenance # None
                  [] OTHER -> TRUE

Call(panel, id) ==
  [panel |-> panel, id |-> id, by |-> route.by, version |-> version,
   key |-> CASE panel = "search" -> SearchKey
             [] panel = "inspector" -> <<ExpectedProvenance>>
             [] OTHER -> GraphKey]

\* A mutant of Cancelled: an effect that runs again leaves its read alone.
Cancelled_Not(c) == FALSE

\* An effect whose dependencies changed cancels its read and starts another.
Cancelled(c) == c.panel # "search" /\ Deps[c.panel] # ran[c.panel]

RunEffects ==
  /\ ~drawn
  /\ drawn' = TRUE
  /\ ran' = Deps
  /\ latest' = IF route.query = None \/ Searches THEN latest + 1 ELSE latest
  /\ lastKey' = RequestedKey
  /\ calls' = {c \in calls : ~Cancelled(c)}
       \cup {Call("search", latest + 1) : x \in {y \in {0} : Searches}}
       \cup {Call(p, 0) : p \in {q \in DOMAIN Deps : Deps[q] # ran[q] /\ Wants(q)}}
  /\ tree' = IF Unlisted /\ Deps.tree # ran.tree THEN Mounted(route.by, TRUE) ELSE tree
  /\ UNCHANGED <<route, search, graph, cache, inspector, version, moves, toggles, errors>>

-----------------------------------------------------------------------------
(* Answers *)

Fails == errors < MaxErrors /\ errors' = errors + 1
Data(c, ok) == [key |-> c.key, by |-> c.by, ok |-> ok]
Outcome(ok) == IF ok THEN UNCHANGED errors ELSE Fails

\* A mutant of IsLatest: search results are shown as they arrive.
IsLatest_Any(c) == TRUE

IsLatest(c) == latest = c.id

SearchAnswer(c, ok) ==
  /\ Outcome(ok)
  /\ search' = IF IsLatest(c) THEN Data(c, ok) ELSE search
  /\ UNCHANGED <<graph, inspector, tree, cache>>

GraphAnswer(c, ok) ==
  /\ Outcome(ok)
  /\ graph' = Data(c, ok)
  /\ UNCHANGED <<search, inspector, tree, cache>>

\* A provenance page that cannot be read counts as one without sources.
InspectorAnswer(c, ok) ==
  /\ Outcome(ok)
  /\ inspector' = Data(c, TRUE)
  /\ UNCHANGED <<search, graph, tree, cache>>

\* A listing fills the cache for its reader.  The folder it was read for is gone
\* if the tree was rebuilt meanwhile.
TreeAnswer(c, ok) ==
  /\ Outcome(ok)
  /\ LET here == c.by = route.by /\ c.version = version IN
     IF ok
       THEN /\ cache' = [b \in DOMAIN cache \cup {c.by} |->
                           IF b = c.by THEN c.version ELSE cache[b]]
            /\ tree' = IF here THEN [tree EXCEPT !.data = [version |-> c.version, by |-> c.by]]
                       ELSE tree
       ELSE /\ \E missing \in BOOLEAN :
                 tree' = IF ~here THEN tree
                         ELSE [tree EXCEPT !.error = ~missing, !.missing = missing]
            /\ UNCHANGED cache
  /\ UNCHANGED <<search, graph, inspector>>

Answer(c, ok) ==
  /\ CASE c.panel = "search" -> SearchAnswer(c, ok)
       [] c.panel = "graph" -> GraphAnswer(c, ok)
       [] c.panel = "inspector" -> InspectorAnswer(c, ok)
       [] OTHER -> TreeAnswer(c, ok)
  /\ calls' = calls \ {c}
  /\ UNCHANGED <<route, drawn, ran, latest, lastKey, version, moves, toggles>>

Next ==
  \/ \E r \in [by : Readers, query : Queries \cup {None}, path : Paths] : Navigate(r)
  \/ Toggle \/ ExplorerChanges \/ RunEffects
  \/ \E c \in calls, ok \in BOOLEAN : Answer(c, ok)

Spec == Init /\ [][Next]_vars

-----------------------------------------------------------------------------
(* What the panels show: state under another key counts as loading. *)

Shown(state, key) == state.key = key
Waits(panel) == \E c \in calls : c.panel = panel

\* Results, links and listings on display were read for the address by its reader;
\* what the cache holds for a reader was read by that reader.
ShownForReader ==
  /\ route.query # None /\ Shown(search, SearchKey) => search.by = route.by
  /\ Shown(graph, GraphKey) => graph.by = route.by
  /\ tree.data # NoListing => tree.data.by = route.by

\* A panel that shows "Loading" waits for a read that will fill it.  The exception
\* is a folder whose database was not found.
LoadingEnds ==
  drawn =>
    /\ route.query # None /\ ~Shown(search, SearchKey) =>
         \E c \in calls : c.panel = "search" /\ c.key = SearchKey /\ c.id = latest
    /\ ~Shown(graph, GraphKey) => \E c \in calls : c.panel = "graph" /\ c.key = GraphKey
    /\ Unlisted /\ ~tree.missing => Waits("tree")
    /\ ExpectedProvenance # None /\ ~Shown(inspector, <<ExpectedProvenance>>) =>
         \E c \in calls : c.panel = "inspector" /\ c.key = <<ExpectedProvenance>>

\* The panels of the browser (search-panel.tsx, graph-panel.tsx, explorer-tree.tsx,
\* inspector.tsx).
PanelsAreCurrent == ShownForReader /\ LoadingEnds
=============================================================================
