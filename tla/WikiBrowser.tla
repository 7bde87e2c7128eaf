---------------------------- MODULE WikiBrowser ----------------------------
(* The reader and editor page of the browser application: the selected      *)
(* node and who reads it, the loads its effect starts, the caches, the      *)
(* Markdown editor with its save and refresh, and the explorer's changes.   *)
(* A node's content is its version number, which is also its etag.          *)
EXTENDS Naturals, FiniteSets

CONSTANTS
  Files,      \* Markdown file paths of the database
  Folders,    \* folder paths
  Overview,   \* [Folders -> Files]: folderOverviewPath
  User,       \* the principal that can log in; a writer of the database
  Stores,     \* the databases a session may start on: which nodes exist
  Public,     \* whether the database can be read anonymously
  MaxMoves, MaxSaves, MaxChanges   \* bounds: navigations and logins, saves, others' writes

VARIABLES
  route,      \* [page, view, scope]: the URL, and which request scope is active
  identity,   \* readIdentity
  directory,  \* [key, loaded, role]: the answered member listing
  store,      \* external: the version of every node, 0 when there is none
  shown,      \* node, children and overview states, each with its request key
  cache,      \* nodeContextCache, childNodesCache, folderOverviewNodeCache
  loads,      \* loads of the node effect that have not ended
  editor,     \* the stored state of the mounted Markdown editor
  saves,      \* save() calls that have not ended
  op,         \* the explorer change being made
  reported,   \* editState.dirty
  spent,      \* how much of the bounds is used
  lost        \* a save replaced a version whose content its draft did not start from

vars == <<route, identity, directory, store, shown, cache, loads, editor, saves, op, reported, spent, lost>>

Pages == Files \cup Folders
Nobody == "anonymous"
Views == {"preview", "edit"}   \* the raw view differs from the preview in layout only
nodeRequestKey(page, who) == [page |-> page, who |-> who]
NoKey == nodeRequestKey("", Nobody)
NoOp == [kind |-> "none"]
NoEditor == [slot |-> "none"]

----------------------------------------------------------------------------
\* Who reads, and what the current request shows.

DirectoryIs(id, dir) == IF dir.key = id THEN dir ELSE [key |-> id, loaded |-> FALSE, role |-> FALSE]

readIdentityMode(id, dir) ==
  CASE id = Nobody                 -> Nobody
    [] DirectoryIs(id, dir).role   -> id
    [] Public                      -> Nobody
    [] DirectoryIs(id, dir).loaded -> Nobody
    [] OTHER                       -> id

Reader == readIdentityMode(identity, directory)
Key == nodeRequestKey(route.page, Reader)
OverviewKey == IF route.page \in Folders THEN nodeRequestKey(Overview[route.page], Reader) ELSE NoKey

\* A state kept for another request key is shown as loading.
CurrentState(state, key) == IF state.key = key THEN state ELSE [key |-> key, status |-> "loading", ver |-> 0]

Answer(key, status, ver) == [key |-> key, status |-> status, ver |-> ver]

ShowFile(k, v) == [node |-> Answer(k, "data", v), children |-> Answer(k, "data", 0), overview |-> Answer(NoKey, "none", 0)]
ShowFailure(k, o) == [node |-> Answer(k, "error", 0), children |-> Answer(k, "error", 0), overview |-> Answer(o, "none", 0)]
ShowDirectory(k, o) == [node |-> Answer(k, "none", 0), children |-> Answer(k, "data", 0), overview |-> Answer(o, "none", 0)]

----------------------------------------------------------------------------
\* The editor.

NewEditor(slot, page, ver) ==
  [slot |-> slot, page |-> page, key |-> ver, baseEtag |-> ver, base |-> ver, dirty |-> FALSE, state |-> "idle", warned |-> FALSE]

\* The editor stored for another node is used only while it holds something of this one.
shouldUseStoredEditor(e, page, ver) ==
  /\ e.page = page
  /\ e.key = ver \/ e.dirty \/ e.state \in {"saved", "saving", "error"} \/ e.warned

MayEdit(id, dir) == id # Nobody /\ DirectoryIs(id, dir).role

\* Which document the pane renders for the current node and children states.
DocumentPane(page, n, c) ==
  CASE n.status = "loading" /\ c.status = "loading" -> "loading"
    [] n.status = "data" -> IF page \in Folders THEN "folder" ELSE "file"
    [] c.status = "data" -> "directory"
    [] OTHER             -> "error"

\* The description a folder's edit view edits: an empty one when it is missing.
FolderDocument(page, o) ==
  IF o.status \in {"data", "none"} THEN [slot |-> "folder", page |-> Overview[page], ver |-> o.ver] ELSE NoEditor

\* What the edit view edits, when the reader may.
EditTarget(r, s, id, dir) ==
  LET who == readIdentityMode(id, dir)
      n == CurrentState(s.node, nodeRequestKey(r.page, who))
      pane == DocumentPane(r.page, n, CurrentState(s.children, nodeRequestKey(r.page, who)))
  IN CASE ~(r.view = "edit" /\ MayEdit(id, dir)) -> NoEditor
       [] pane = "file"   -> [slot |-> "file", page |-> r.page, ver |-> n.ver]
       [] pane = "folder" -> FolderDocument(r.page, CurrentState(s.overview, nodeRequestKey(Overview[r.page], who)))
       [] OTHER           -> NoEditor

Target == EditTarget(route, shown, identity, directory)

Effective(e, t) ==
  IF shouldUseStoredEditor(e, t.page, t.ver) THEN e ELSE NewEditor(t.slot, t.page, t.ver)

Editing == Effective(editor, Target)

\* Every rerender: an editor that leaves the page is unmounted and forgets its
\* draft, one that enters starts from the node, and a changed state is reported.
Rerender(stored, left, dirtyFlag) ==
  LET t == EditTarget(route', shown', identity', directory')
      same == t.slot = editor.slot
      e == IF t.slot = "none" THEN NoEditor ELSE IF same THEN stored ELSE NewEditor(t.slot, t.page, t.ver)
      now == Effective(e, t)
  IN /\ editor' = e
     /\ saves' = IF same THEN left ELSE {[s EXCEPT !.mounted = FALSE] : s \in left}
     /\ reported' = IF t.slot = "none" THEN dirtyFlag
                    ELSE IF ~same \/ now.dirty # Editing.dirty \/ now.state # Editing.state THEN now.dirty
                    ELSE dirtyFlag

DirtyEdit == route.view = "edit" /\ reported

----------------------------------------------------------------------------
\* The node effect: it answers from the caches or starts a load.

CacheHit(c, k) ==
  \/ c.node[k] # 0 /\ k.page \in Files
  \/ c.node[k] # 0 /\ k.page \in Folders /\ k \in c.children /\ nodeRequestKey(Overview[k.page], k.who) \in DOMAIN c.overview
  \/ c.node[k] = 0 /\ k \in c.children

FromCache(c, k) ==
  IF c.node[k] = 0 THEN ShowDirectory(k, IF k.page \in Folders THEN nodeRequestKey(Overview[k.page], k.who) ELSE NoKey)
  ELSE IF k.page \in Files THEN ShowFile(k, c.node[k])
  ELSE LET o == nodeRequestKey(Overview[k.page], k.who)
       IN [node |-> Answer(k, "data", c.node[k]), children |-> Answer(k, "data", 0),
           overview |-> Answer(o, IF c.overview[o] = 0 THEN "none" ELSE "data", c.overview[o])]

\* The cleanup of the previous effect cancels its load.
Cancelled_Not == loads
Cancelled == {[l EXCEPT !.live = FALSE] : l \in loads}

Effect(k, c) ==
  IF CacheHit(c, k)
  THEN shown' = FromCache(c, k) /\ loads' = Cancelled
  ELSE /\ shown' = shown
       /\ loads' = Cancelled \cup {[key |-> k, phase |-> "node", live |-> TRUE, seen |-> store[k.page]]}

\* The URL or the reader changes; the effect runs when its request key does.
Goto(page, view, id, dir) ==
  LET k == nodeRequestKey(page, readIdentityMode(id, dir))
  IN /\ route' = [page |-> page, view |-> view, scope |-> IF k = Key THEN route.scope ELSE route.scope + 1]
     /\ identity' = id
     /\ directory' = dir
     /\ IF k = Key THEN UNCHANGED <<shown, loads>> ELSE Effect(k, cache')

\* A link, the address bar, or a view button: a dirty edit asks first.
Navigate(page, view) ==
  /\ spent.moves < MaxMoves
  /\ <<page, view>> # <<route.page, route.view>>
  /\ cache' = cache
  /\ Goto(page, view, identity, directory)
  /\ Rerender(editor, saves, reported)
  /\ spent' = [spent EXCEPT !.moves = @ + 1]
  /\ UNCHANGED <<store, op, lost>>

login ==
  /\ identity = Nobody /\ spent.moves < MaxMoves
  /\ cache' = cache
  /\ Goto(route.page, route.view, User, directory)
  /\ Rerender(editor, saves, reported)
  /\ spent' = [spent EXCEPT !.moves = @ + 1]
  /\ UNCHANGED <<store, op, lost>>

logout ==
  /\ identity = User /\ spent.moves < MaxMoves
  /\ cache' = cache
  /\ Goto(route.page, route.view, Nobody, directory)
  /\ Rerender(editor, saves, reported)
  /\ spent' = [spent EXCEPT !.moves = @ + 1]
  /\ UNCHANGED <<store, op, lost>>

\* The member listing of the current identity answers, or fails.
DirectoryLoads(ok) ==
  /\ directory.key # identity
  /\ cache' = cache
  /\ Goto(route.page, route.view, identity, [key |-> identity, loaded |-> ok, role |-> ok /\ identity = User])
  /\ Rerender(editor, saves, reported)
  /\ UNCHANGED <<store, op, spent, lost>>

----------------------------------------------------------------------------
\* A load's answers. A query may have been evaluated when it was sent or later.

Read(l) == {l.seen, store[l.key.page]}
Replace(l, m) == (loads \ {l}) \cup {m}
Advance(l, phase) ==
  [l EXCEPT !.phase = phase, !.seen = IF phase = "overview" THEN store[Overview[l.key.page]] ELSE store[l.key.page]]
OverviewOf(k) == IF k.page \in Folders THEN nodeRequestKey(Overview[k.page], k.who) ELSE NoKey
Loading == UNCHANGED <<route, identity, directory, store, op, spent, lost>>

NodeAnswers(l, v) ==
  /\ l.phase = "node" /\ v \in Read(l)
  /\ IF ~l.live THEN loads' = loads \ {l} /\ UNCHANGED <<cache, shown>>
     ELSE IF v = 0 THEN loads' = Replace(l, Advance(l, "fallback")) /\ UNCHANGED <<cache, shown>>
     ELSE /\ cache' = [cache EXCEPT !.node[l.key] = v]
          /\ IF l.key.page \in Files
             THEN shown' = ShowFile(l.key, v) /\ loads' = loads \ {l}
             ELSE shown' = [shown EXCEPT !.node = Answer(l.key, "data", v)] /\ loads' = Replace(l, Advance(l, "children"))
  /\ Loading /\ Rerender(editor, saves, reported)

FolderChildrenAnswer(l) ==
  /\ l.phase = "children"
  /\ loads' = Replace(l, Advance(l, "overview"))
  /\ IF l.live THEN /\ cache' = [cache EXCEPT !.children = @ \cup {l.key}]
                    /\ shown' = [shown EXCEPT !.children = Answer(l.key, "data", 0)]
     ELSE UNCHANGED <<cache, shown>>
  /\ Loading /\ Rerender(editor, saves, reported)

\* The description may be missing or fail without failing the folder.
OverviewAnswers(l, v, ok) ==
  /\ l.phase = "overview" /\ v \in {l.seen, store[Overview[l.key.page]]}
  /\ loads' = loads \ {l}
  /\ IF l.live
     THEN /\ cache' = IF ok THEN [cache EXCEPT !.overview = [k \in DOMAIN @ \cup {OverviewOf(l.key)} |-> IF k = OverviewOf(l.key) THEN v ELSE @[k]]]
                      ELSE cache
          /\ shown' = [shown EXCEPT !.overview = Answer(OverviewOf(l.key), IF ~ok THEN "error" ELSE IF v = 0 THEN "none" ELSE "data", IF ok THEN v ELSE 0)]
     ELSE UNCHANGED <<cache, shown>>
  /\ Loading /\ Rerender(editor, saves, reported)

\* There is no node: a path that looks like a file is not found, another is a directory.
FallbackAnswers(l) ==
  /\ l.phase = "fallback"
  /\ loads' = loads \ {l}
  /\ IF ~l.live THEN UNCHANGED <<cache, shown>>
     ELSE IF l.key.page \in Files THEN shown' = ShowFailure(l.key, NoKey) /\ UNCHANGED cache
     ELSE /\ shown' = ShowDirectory(l.key, OverviewOf(l.key))
          /\ cache' = [cache EXCEPT !.children = @ \cup {l.key}]
  /\ Loading /\ Rerender(editor, saves, reported)

\* Any other error, of the node, of a folder's listing or of the fallback listing.
LoadFails(l) ==
  /\ l.phase \in {"node", "children", "fallback"}
  /\ loads' = loads \ {l}
  /\ shown' = IF l.live THEN ShowFailure(l.key, OverviewOf(l.key)) ELSE shown
  /\ cache' = cache
  /\ Loading /\ Rerender(editor, saves, reported)

----------------------------------------------------------------------------
\* Editing and saving.

Still == UNCHANGED <<route, identity, directory, shown, loads, op>>

Type ==
  /\ Target.slot # "none" /\ Editing.state # "saving" /\ ~Editing.dirty
  /\ spent.saves < MaxSaves
  /\ Still /\ UNCHANGED <<store, cache, spent, lost>>
  /\ Rerender([Editing EXCEPT !.dirty = TRUE, !.state = IF @ \in {"saved", "error"} THEN "idle" ELSE @, !.warned = FALSE], saves, reported)

Revert ==
  /\ Target.slot # "none" /\ Editing.dirty /\ Editing.state # "saving"
  /\ Still /\ UNCHANGED <<store, cache, spent, lost>>
  /\ Rerender([Editing EXCEPT !.dirty = FALSE, !.state = "idle", !.warned = FALSE], saves, reported)

\* "Saved" is shown for 1.8 seconds.
SavedFades ==
  /\ Target.slot # "none" /\ Editing.state = "saved" /\ editor.page = Editing.page
  /\ Still /\ UNCHANGED <<store, cache, spent, lost>>
  /\ Rerender([editor EXCEPT !.state = "idle"], saves, reported)

save ==
  /\ Target.slot # "none" /\ Editing.dirty /\ Editing.state # "saving"
  /\ spent.saves < MaxSaves
  /\ spent' = [spent EXCEPT !.saves = @ + 1]
  /\ Still /\ UNCHANGED <<store, cache, lost>>
  /\ Rerender([Editing EXCEPT !.state = "saving", !.warned = FALSE],
              saves \cup {[phase |-> "write", page |-> Target.page, selected |-> route.page, who |-> Reader, scope |-> route.scope,
                           editor |-> Editing, mounted |-> TRUE, seen |-> 0]}, reported)

\* setStoredEditor of a save: nothing happens once its editor is unmounted.
setStoredEditor(s, e) == IF s.mounted /\ editor.slot # "none" THEN e ELSE editor

ExpectedEtag_Stored(e) == store[e.page]
ExpectedEtag(e) == e.baseEtag

\* write_node accepts the expected etag only (a description that is missing is created).
WriteSucceeds(s) ==
  LET v == store[s.page] + 1
      e == [s.editor EXCEPT !.key = v, !.baseEtag = v, !.base = v, !.dirty = FALSE, !.state = "saved", !.warned = FALSE]
      c == [node |-> [cache.node EXCEPT ![nodeRequestKey(s.page, s.who)] = 0],
            children |-> cache.children \ {nodeRequestKey(s.page, s.who)},
            overview |-> [k \in DOMAIN cache.overview \ {nodeRequestKey(s.page, s.who)} |-> cache.overview[k]]]
  IN /\ s.phase = "write" /\ ExpectedEtag(s.editor) = store[s.page]
     /\ store' = [store EXCEPT ![s.page] = v]
     /\ lost' = (lost \/ s.editor.base # store[s.page])
     /\ cache' = c
     /\ Still /\ UNCHANGED spent
     /\ Rerender(setStoredEditor(s, e), (saves \ {s}) \cup {[s EXCEPT !.phase = "refresh", !.seen = v]}, reported)

WriteFails(s) ==
  /\ s.phase = "write"
  /\ Still /\ UNCHANGED <<store, cache, spent, lost>>
  /\ Rerender(setStoredEditor(s, [s.editor EXCEPT !.state = "error", !.warned = FALSE]), saves \ {s}, reported)

\* The visible state is replaced only in the request scope the save belongs to.
IsCurrentRequest_Always(s) == TRUE
IsCurrentRequest(s) == s.scope = route.scope

RefreshAnswers(s, v) ==
  LET k == nodeRequestKey(s.page, s.who)
      folder == s.selected \in Folders
      e == [NewEditor(s.editor.slot, s.page, v) EXCEPT !.state = "saved"]
  IN /\ s.phase = "refresh" /\ v \in {s.seen, store[s.page]} \ {0}
     /\ cache' = IF folder THEN [cache EXCEPT !.overview = [x \in DOMAIN @ \cup {k} |-> IF x = k THEN v ELSE @[x]]]
                 ELSE [cache EXCEPT !.node[k] = v]
     /\ shown' = IF ~IsCurrentRequest(s) THEN shown
                 ELSE IF folder THEN [shown EXCEPT !.overview = Answer(k, "data", v)]
                 ELSE [shown EXCEPT !.node = Answer(k, "data", v), !.children = Answer(k, "data", 0)]
     /\ UNCHANGED <<route, identity, directory, store, loads, op, spent, lost>>
     /\ IF folder THEN Rerender(editor, (saves \ {s}) \cup {[s EXCEPT !.phase = "listing", !.seen = v]}, reported)
        ELSE Rerender(setStoredEditor(s, e), saves \ {s}, reported)

RefreshFails(s) ==
  LET e == [s.editor EXCEPT !.key = s.seen, !.baseEtag = s.seen, !.base = s.seen, !.dirty = FALSE, !.state = "saved", !.warned = TRUE]
  IN /\ s.phase = "refresh"
     /\ Still /\ UNCHANGED <<store, cache, spent, lost>>
     /\ Rerender(setStoredEditor(s, e), saves \ {s}, reported)

\* After a description, the folder's listing is refreshed or forgotten.
ListingEnds(s, ok) ==
  LET k == nodeRequestKey(s.selected, s.who)
      e == [NewEditor(s.editor.slot, s.page, s.seen) EXCEPT !.state = "saved"]
  IN /\ s.phase = "listing"
     /\ cache' = [cache EXCEPT !.children = IF ok THEN @ \cup {k} ELSE @ \ {k}]
     /\ shown' = IF ok /\ IsCurrentRequest(s) THEN [shown EXCEPT !.children = Answer(k, "data", 0)] ELSE shown
     /\ UNCHANGED <<route, identity, directory, store, loads, op, spent, lost>>
     /\ Rerender(setStoredEditor(s, e), saves \ {s}, reported)

----------------------------------------------------------------------------
\* The explorer: one change at a time; it ends by forgetting every cache.

NoCache == [node |-> [k \in [page : Pages, who : {Nobody, User}] |-> 0], children |-> {}, overview |-> [k \in {} |-> 0]]

SelectedEtag == CurrentState(shown.node, Key).ver

StartChange(kind, page) ==
  /\ op = NoOp /\ MayEdit(identity, directory)
  /\ spent.changes < MaxChanges
  /\ CASE kind = "create" -> page \in Files
       [] kind = "folder" -> page \in Folders
       [] kind = "delete" -> page = route.page /\ SelectedEtag # 0
       [] OTHER           -> page \in Files /\ page # route.page /\ route.page \in Files /\ SelectedEtag # 0
  /\ op' = [kind |-> kind, page |-> page, from |-> route.page, etag |-> SelectedEtag, view |-> route.view]
  /\ spent' = [spent EXCEPT !.changes = @ + 1]
  /\ UNCHANGED <<route, identity, directory, store, shown, cache, loads, editor, saves, reported, lost>>

\* What the canister accepts: a new node, or a move or deletion of the version named.
ChangeAccepted ==
  CASE op.kind \in {"create", "folder"} -> store[op.page] = 0
    [] op.kind = "delete"               -> store[op.page] = op.etag
    [] OTHER                            -> store[op.from] = op.etag /\ store[op.page] = 0

Changed ==
  CASE op.kind \in {"create", "folder"} -> [store EXCEPT ![op.page] = 1]
    [] op.kind = "delete"               -> [store EXCEPT ![op.page] = 0]
    [] OTHER                            -> [store EXCEPT ![op.from] = 0, ![op.page] = store[op.from] + 1]

\* The page follows a change without asking; a deletion elsewhere leaves it alone.
ChangeSucceeds(parent) ==
  /\ op # NoOp /\ ChangeAccepted
  /\ store' = Changed
  /\ cache' = NoCache
  /\ op' = NoOp
  /\ CASE op.kind = "create" -> Goto(op.page, "edit", identity, directory)
       [] op.kind = "folder" -> Goto(op.page, "preview", identity, directory)
       [] op.kind = "delete" -> IF route.page = op.page THEN parent # op.page /\ Goto(parent, "preview", identity, directory)
                                ELSE UNCHANGED <<route, identity, directory, shown, loads>>
       [] OTHER              -> Goto(op.page, op.view, identity, directory)
  /\ Rerender(editor, saves, FALSE)
  /\ UNCHANGED <<spent, lost>>

ChangeFails ==
  /\ op # NoOp
  /\ op' = NoOp
  /\ UNCHANGED <<route, identity, directory, store, shown, cache, loads, editor, saves, reported, spent, lost>>

\* external: another writer of the database
OthersWrite(page) ==
  /\ spent.changes < MaxChanges /\ page \in Files
  /\ store' = [store EXCEPT ![page] = @ + 1]
  /\ spent' = [spent EXCEPT !.changes = @ + 1]
  /\ UNCHANGED <<route, identity, directory, shown, cache, loads, editor, saves, op, reported, lost>>

----------------------------------------------------------------------------
Init ==
  /\ route \in [page : Files, view : {"preview"}, scope : {0}]
  /\ identity = User
  /\ directory = [key |-> User, loaded |-> TRUE, role |-> TRUE]
  /\ store \in Stores
  /\ shown = [node |-> Answer(NoKey, "loading", 0), children |-> Answer(NoKey, "loading", 0), overview |-> Answer(NoKey, "loading", 0)]
  /\ cache = NoCache
  /\ loads = {[key |-> nodeRequestKey(route.page, User), phase |-> "node", live |-> TRUE, seen |-> store[route.page]]}
  /\ editor = NoEditor /\ saves = {} /\ op = NoOp /\ reported = FALSE /\ lost = FALSE
  /\ spent = [moves |-> 0, saves |-> 0, changes |-> 0]

Next ==
  \/ \E p \in Pages, v \in Views : Navigate(p, v)
  \/ login \/ logout
  \/ \E ok \in BOOLEAN : DirectoryLoads(ok)
  \/ \E l \in loads : \/ \E v \in Read(l) : NodeAnswers(l, v)
                      \/ FolderChildrenAnswer(l)
                      \/ l.phase = "overview" /\ \E v \in {l.seen, store[Overview[l.key.page]]}, ok \in BOOLEAN : OverviewAnswers(l, v, ok)
                      \/ FallbackAnswers(l)
                      \/ LoadFails(l)
  \/ Type \/ Revert \/ SavedFades \/ save
  \/ \E s \in saves : \/ WriteSucceeds(s) \/ WriteFails(s)
                      \/ \E v \in {s.seen, store[s.page]} : RefreshAnswers(s, v)
                      \/ RefreshFails(s)
                      \/ \E ok \in BOOLEAN : ListingEnds(s, ok)
  \/ \E kind \in {"create", "folder", "delete", "move"}, p \in Pages : StartChange(kind, p)
  \/ \E p \in Pages : ChangeSucceeds(p)
  \/ ChangeFails
  \/ \E p \in Files : OthersWrite(p)

Spec == Init /\ [][Next]_vars

----------------------------------------------------------------------------
\* Once no load of the current request is pending, the page shows that request's
\* node and children: an answer of another page, reader or save never takes its
\* place, which would leave the page loading for ever. And a save only ever
\* replaces the version its draft was written from.
PageIsCurrent ==
  /\ (\A l \in loads : ~l.live) =>
        /\ CurrentState(shown.node, Key).status # "loading"
        /\ CurrentState(shown.children, Key).status # "loading"
  /\ ~lost
=============================================================================
