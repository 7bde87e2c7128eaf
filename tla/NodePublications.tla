-------------------------- MODULE NodePublications --------------------------
(***************************************************************************)
(* Publications of single pages: a public id leads to a page of a          *)
(* database whose readers are otherwise members only.  Publications live   *)
(* in the index database, pages in the database's own file, so a change of *)
(* pages first detaches the publications it disturbs, then changes the     *)
(* pages, then settles: publications of a failed change are put back.  The *)
(* runtime is modelled as built natively, where it may crash between these *)
(* transactions; in the canister they are one message, which rolls back as *)
(* a whole.  An owner's browser publishes and withdraws pages; the mark of *)
(* published pages in its explorer is left out.  A path is a sequence of   *)
(* names.                                                                  *)
(***************************************************************************)
EXTENDS Integers, Sequences, FiniteSets, SequencesExt

CONSTANTS Paths,
          Tree,           \* the nodes at first: path -> kind and page
          Changes,        \* the batches of operations that clients send
          MaxChanges, MaxCrashes, MaxPublishes, MaxMoves

Absent == [kind |-> "none", page |-> 0]

VARIABLES nodes,          \* path -> kind, and page (ghost): which page this is
          pages,          \* ghost: the last page created
          commits,        \* publication_mutation_commits, in the file of the nodes
          table,          \* node_publications: id and path; of (ghost): the page
          batches,        \* publication_mutation_recovery_batches with their items
          operations,     \* the AUTOINCREMENT counter of the batches
          change,         \* the change of nodes under way
          issued,         \* ghost: every publication there ever was
          due,            \* ghost: ids published, not withdrawn, whose page stayed a file there
          ui,             \* NodePublicationControls of the page that is open
          reads, calls,   \* its requests under way
          changes, crashes, moves
vars == <<nodes, pages, commits, table, batches, operations, change, issued, due,
          ui, reads, calls, changes, crashes, moves>>
store == <<nodes, pages, commits>>
index == <<table, batches, operations>>
ghosts == <<issued, due>>
browser == <<ui, reads, calls, moves>>

NoChange == [pc |-> "idle", id |-> 0, batch |-> <<>>, items |-> {}]
NoPublication == [id |-> 0, path |-> <<>>, of |-> 0]
Closed == [path |-> <<>>, publication |-> NoPublication, loading |-> FALSE,
           mutating |-> FALSE, action |-> "none"]

Init == /\ nodes = Tree /\ pages = Cardinality(Paths) /\ commits = {}
        /\ table = {} /\ batches = {} /\ operations = 0
        /\ change = NoChange /\ issued = {} /\ due = {}
        /\ ui = Closed /\ reads = {} /\ calls = {}
        /\ changes = 0 /\ crashes = 0 /\ moves = 0

-----------------------------------------------------------------------------
(* The store: operations on nodes, a batch of them in one transaction *)

Under(path) == {p \in Paths : IsPrefix(path, p)}
Parent(path) == Front(path)
HasParent(tree, path) == Len(path) = 1 \/ tree[Parent(path)].kind = "folder"
Index(path) == Append(path, "index")

\* A folder goes with its index page, and only when nothing else is in it.
Deleted(path) == {path} \cup {p \in Paths : p = Index(path)}

\* rebase_path
Rebase(path, from, to) == to \o SubSeq(path, Len(from) + 1, Len(path))

MayDelete(tree, path) ==
  /\ tree[path].kind # "none"
  /\ \A p \in Under(path) \ Deleted(path) : tree[p].kind = "none"

MayMove(tree, from, to) ==
  /\ from # to /\ tree[from].kind # "none" /\ HasParent(tree, to)
  /\ tree[to].kind # "folder"
  /\ tree[from].kind = "folder" =>
       /\ ~ IsPrefix(from, to)
       /\ \A p \in Under(from) : tree[p].kind # "none" =>
            Rebase(p, from, to) \in Paths /\ tree[Rebase(p, from, to)].kind = "none"

MayApply(tree, o) ==
  CASE o.op = "write"  -> tree[o.path].kind # "folder" /\ HasParent(tree, o.path)
    [] o.op = "delete" -> MayDelete(tree, o.path)
    [] o.op = "move"   -> MayMove(tree, o.path, o.to)

Applied(tree, o, page) ==
  CASE o.op = "write"  -> [tree EXCEPT ![o.path] =
                             [kind |-> o.kind, page |-> IF @.kind = "none" THEN page ELSE @.page]]
    [] o.op = "delete" -> [p \in Paths |-> IF p \in Deleted(o.path) THEN Absent ELSE tree[p]]
    [] o.op = "move"   -> [p \in Paths |->
                             CASE IsPrefix(o.to, p) /\ Rebase(p, o.to, o.path) \in Paths ->
                                    tree[Rebase(p, o.to, o.path)]
                               [] IsPrefix(o.path, p) -> Absent
                               [] OTHER -> tree[p]]

\* The batch on the tree; ok is FALSE once an operation is refused.
Outcome(batch) ==
  FoldLeftDomain(LAMBDA acc, k :
                   IF acc.ok /\ MayApply(acc.tree, batch[k])
                   THEN [ok |-> TRUE, tree |-> Applied(acc.tree, batch[k], pages + k)]
                   ELSE [acc EXCEPT !.ok = FALSE],
                 [ok |-> TRUE, tree |-> nodes], batch)

-----------------------------------------------------------------------------
(* A change of nodes: detach, mutate, resolve, clear *)

\* mutation_publication_paths; a file that is written keeps its publication.
PublicationPaths(batch) ==
  UNION {CASE o.op = "write" -> IF o.kind = "source" THEN {o.path} ELSE {}
           [] o.op = "move"  -> {o.path, o.to}
           [] OTHER -> {o.path} : o \in {batch[k] : k \in DOMAIN batch}}

\* A mutant of Disturbed: the pages inside a folder keep their publications.
Disturbed_Itself(paths) == {x \in table : x.path \in paths}

Disturbed(paths) == {x \in table : \E p \in paths : x.path \in Under(p)}

\* A mutant of NextOperation: the id of a batch that was deleted is used again.
NextOperation_Reused == IF batches = {} THEN 1 ELSE 1 + Cardinality(batches)

NextOperation == operations + 1

\* Every call begins with recover_pending_publication_mutations.
Ready == change.pc = "idle" /\ batches = {}

\* detach_node_publications_for_paths, one transaction of the index.
Detach(batch) ==
  /\ Ready /\ changes < MaxChanges /\ changes' = changes + 1
  /\ LET items == Disturbed(PublicationPaths(batch)) IN
     IF items = {}
     THEN /\ change' = [pc |-> "detached", id |-> 0, batch |-> batch, items |-> {}]
          /\ UNCHANGED index
     ELSE /\ operations' = NextOperation
          /\ batches' = batches \cup {[id |-> operations', items |-> items]}
          /\ table' = table \ items
          /\ change' = [pc |-> "detached", id |-> operations', batch |-> batch, items |-> items]
  /\ UNCHANGED <<store, ghosts, browser, crashes>>

\* record_publication_mutation_commit
Recorded(id) == IF id = 0 THEN commits ELSE commits \cup {id}

\* write_mutation_conn_with_publication_outcome: nodes and commit in one
\* transaction; an id already recorded makes it fail.
Mutate ==
  /\ change.pc = "detached"
  /\ Outcome(change.batch).ok /\ change.id \notin commits
  /\ nodes' = Outcome(change.batch).tree
  /\ pages' = pages + Len(change.batch)
  /\ commits' = Recorded(change.id)
  /\ due' = {id \in due : \E x \in issued :
                x.id = id /\ nodes'[x.path] = [kind |-> "file", page |-> x.of]}
  /\ change' = [change EXCEPT !.pc = IF change.id = 0 THEN "idle" ELSE "mutated"]
  /\ UNCHANGED <<index, issued, browser, changes, crashes>>

\* Refused, or the storage fails.
MutateFails ==
  /\ change.pc = "detached"
  /\ change' = [change EXCEPT !.pc = IF change.id = 0 THEN "idle" ELSE "failed"]
  /\ UNCHANGED <<store, index, ghosts, browser, changes, crashes>>

\* resolve_detached_node_publications, one transaction of the index.
Resolve(b, restore) ==
  /\ table' = IF restore THEN table \cup b.items ELSE table
  /\ batches' = batches \ {b}

Resolved ==
  /\ change.pc \in {"mutated", "failed"}
  /\ \E b \in batches : b.id = change.id /\ Resolve(b, change.pc = "failed")
  /\ change' = [change EXCEPT !.pc = "clearing"]
  /\ UNCHANGED <<store, operations, ghosts, browser, changes, crashes>>

\* The batch stays for recovery.
ResolveFails ==
  /\ change.pc \in {"mutated", "failed"}
  /\ change' = NoChange
  /\ UNCHANGED <<store, index, ghosts, browser, changes, crashes>>

\* clear_publication_mutation_commit; that it fails is ignored.
Clear ==
  /\ change.pc = "clearing"
  /\ commits' \in {commits, commits \ {change.id}}
  /\ change' = NoChange
  /\ UNCHANGED <<nodes, pages, index, ghosts, browser, changes, crashes>>

\* A mutant of Committed: every pending batch counts as not committed.
Committed_Never(id) == FALSE

Committed(id) == id \in commits

\* recover_pending_publication_mutations, one batch.
Recover(b) ==
  /\ change.pc = "idle"
  /\ \A c \in batches : b.id <= c.id
  /\ Resolve(b, ~ Committed(b.id))
  /\ change' = IF Committed(b.id) THEN [NoChange EXCEPT !.pc = "clearing", !.id = b.id] ELSE NoChange
  /\ UNCHANGED <<store, operations, ghosts, browser, changes, crashes>>

Crash ==
  /\ crashes < MaxCrashes /\ crashes' = crashes + 1
  /\ change.pc # "idle" /\ change' = NoChange
  /\ UNCHANGED <<store, index, ghosts, browser, changes>>

-----------------------------------------------------------------------------
(* Calls of the canister about publications *)

\* load_node_publication
PublicationOf(path) ==
  LET found == {x \in table : x.path = path} IN
  IF found = {} THEN NoPublication ELSE CHOOSE x \in found : TRUE

\* require_publishable_node
Publishable(path) == nodes[path].kind = "file"

\* publish_node up to the await for a random id.
PublishNode(c) ==
  /\ Ready /\ c.kind = "publish" /\ c.pc = "sent"
  /\ LET found == PublicationOf(c.path) IN
     calls' = (calls \ {c}) \cup
       {[c EXCEPT !.pc = IF found = NoPublication THEN "random" ELSE "done", !.answer = found]}
  /\ UNCHANGED <<store, index, change, ghosts, ui, reads, changes, crashes, moves>>

\* publish_node of the runtime, with the new id.
Publish(c) ==
  /\ Ready /\ c.kind = "publish" /\ c.pc = "random"
  /\ LET found == PublicationOf(c.path)
         new   == [id |-> Cardinality(issued) + 1, path |-> c.path, of |-> nodes[c.path].page]
         Done(x) == calls' = (calls \ {c}) \cup {[c EXCEPT !.pc = "done", !.answer = x]} IN
     CASE ~ Publishable(c.path) ->
            /\ calls' = (calls \ {c}) \cup {[c EXCEPT !.pc = "failed"]}
            /\ UNCHANGED <<table, ghosts>>
       [] Publishable(c.path) /\ found # NoPublication ->
            Done(found) /\ UNCHANGED <<table, ghosts>>
       [] OTHER ->
            /\ Done(new) /\ table' = table \cup {new}
            /\ issued' = issued \cup {new} /\ due' = due \cup {new.id}
  /\ UNCHANGED <<store, batches, operations, change, ui, reads, changes, crashes, moves>>

UnpublishNode(c) ==
  /\ Ready /\ c.kind = "unpublish" /\ c.pc = "sent"
  /\ IF Publishable(c.path)
     THEN /\ table' = {x \in table : x.path # c.path}
          /\ due' = due \ {x.id : x \in table \ table'}
          /\ calls' = (calls \ {c}) \cup {[c EXCEPT !.pc = "done"]}
     ELSE /\ calls' = (calls \ {c}) \cup {[c EXCEPT !.pc = "failed"]}
          /\ UNCHANGED <<table, due>>
  /\ UNCHANGED <<store, batches, operations, change, issued, ui, reads, changes, crashes, moves>>

GetNodePublication(r) ==
  /\ Ready /\ r.pc = "sent"
  /\ reads' = (reads \ {r}) \cup {[r EXCEPT !.pc = "done", !.answer = PublicationOf(r.path)]}
  /\ UNCHANGED <<store, index, change, ghosts, ui, calls, changes, crashes, moves>>

\* read_public_node, and the page at /p: which page an id shows, 0 for not found.
ReadPublicNode(id) ==
  LET found == {x \in table : x.id = id /\ nodes[x.path].kind = "file"} IN
  IF found = {} THEN 0 ELSE nodes[(CHOOSE x \in found : TRUE).path].page

-----------------------------------------------------------------------------
(* The controls *)

Move == moves < MaxMoves /\ moves' = moves + 1

\* A page that is opened has controls of its own and asks for its publication;
\* answers to the controls of the page before come too late.
OpenPage(path) ==
  /\ Move
  /\ nodes[path].kind = "file"
  /\ ui' = [Closed EXCEPT !.path = path, !.loading = TRUE]
  /\ reads' = {[r EXCEPT !.live = FALSE] : r \in reads} \cup
                {[n |-> moves, path |-> path, pc |-> "sent", live |-> TRUE, answer |-> NoPublication]}
  /\ calls' = {[c EXCEPT !.live = FALSE] : c \in calls}
  /\ UNCHANGED <<store, index, change, ghosts, changes, crashes>>

\* A mutant of Applies: an answer reaches whatever page is open.
Applies_Always(request) == TRUE

Applies(request) == request.live

\* The publication, or an error that counts as none.
ReadAnswered(r) ==
  /\ \E publication \in {NoPublication} \cup (IF r.pc = "done" THEN {r.answer} ELSE {}) :
       ui' = IF Applies(r) THEN [ui EXCEPT !.publication = publication, !.loading = FALSE] ELSE ui
  /\ reads' = reads \ {r}
  /\ UNCHANGED <<store, index, change, ghosts, calls, changes, crashes, moves>>

\* The button opens a dialog, which can be left until it is confirmed.
Ask(action) ==
  /\ ui.path # <<>> /\ ~ ui.loading /\ ~ ui.mutating /\ ui.action = "none"
  /\ action = IF ui.publication = NoPublication THEN "publish" ELSE "unpublish"
  /\ ui' = [ui EXCEPT !.action = action]
  /\ UNCHANGED <<store, index, change, ghosts, reads, calls, changes, crashes, moves>>

Cancel ==
  /\ ui.action # "none" /\ ~ ui.mutating
  /\ ui' = [ui EXCEPT !.action = "none"]
  /\ UNCHANGED <<store, index, change, ghosts, reads, calls, changes, crashes, moves>>

Confirm ==
  /\ ui.action # "none" /\ ~ ui.mutating
  /\ Cardinality(issued) + Cardinality(calls) < MaxPublishes
  /\ ui' = [ui EXCEPT !.mutating = TRUE]
  /\ calls' = calls \cup {[n |-> moves, kind |-> ui.action, path |-> ui.path, pc |-> "sent",
                           live |-> TRUE, answer |-> NoPublication]}
  /\ UNCHANGED <<store, index, change, ghosts, reads, changes, crashes, moves>>

\* publish and unpublish: the answer; an error, or an answer that is lost, leaves
\* the dialog open.
CallAnswered(c) ==
  /\ calls' = calls \ {c}
  /\ ui' \in IF ~ Applies(c) THEN {ui}
             ELSE {[ui EXCEPT !.mutating = FALSE]} \cup
                  (IF c.pc = "done"
                   THEN {[ui EXCEPT !.publication = c.answer, !.mutating = FALSE, !.action = "none"]}
                   ELSE {})
  /\ UNCHANGED <<store, index, change, ghosts, reads, changes, crashes, moves>>

-----------------------------------------------------------------------------
Next ==
  \/ \E batch \in Changes : Detach(batch)
  \/ Mutate \/ MutateFails \/ Resolved \/ ResolveFails \/ Clear \/ Crash
  \/ \E b \in batches : Recover(b)
  \/ \E c \in calls : PublishNode(c) \/ Publish(c) \/ UnpublishNode(c) \/ CallAnswered(c)
  \/ \E r \in reads : GetNodePublication(r) \/ ReadAnswered(r)
  \/ \E path \in Paths : OpenPage(path)
  \/ \E action \in {"publish", "unpublish"} : Ask(action)
  \/ Cancel \/ Confirm

Spec == Init /\ [][Next]_vars

-----------------------------------------------------------------------------
(* Properties *)

\* A public link shows the page it was made for or nothing, wherever the runtime
\* crashed: a page that takes the path of a published one is not published by it.
LinksShowTheirPage ==
  \A x \in issued : ReadPublicNode(x.id) \in {0, x.of} /\ (ReadPublicNode(x.id) # 0 => x.id \in due)

\* Once nothing is pending, there is a link exactly if it was not withdrawn and no
\* change took its page from its path: a change that failed costs no link.
NoLinkIsLost == Ready => {x.id : x \in table} = due

\* A path has one publication, as the table demands.
OnePublicationPerPath == \A x, y \in table : x.path = y.path => x = y

\* The link the controls show was made for the page that is open.
LinkShownIsOwn == ui.publication # NoPublication => ui.publication.path = ui.path

\* Publications follow the changes of the pages through failures and crashes.
PublicationsAreSound ==
  LinksShowTheirPage /\ NoLinkIsLost /\ OnePublicationPerPath /\ LinkShownIsOwn

=============================================================================
