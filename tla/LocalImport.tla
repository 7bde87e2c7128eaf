----------------------------- MODULE LocalImport -----------------------------
(***************************************************************************)
(* Importing local files into a database.  The browser reads the selected  *)
(* files, lists the folders they go to, shows what would be created,       *)
(* merged, replaced or left out, and writes the confirmed part as one      *)
(* batch.  Others change the database, and the user changes databases,     *)
(* while this goes on.                                                     *)
(***************************************************************************)
EXTENDS Naturals, Sequences, SequencesExt, FiniteSets, FiniteSetsExt

CONSTANTS Databases,
          Paths,          \* target paths of the import
          Above,          \* the imported folders above a path
          Folders,        \* the paths that are folders of the import
          Sources,        \* local files
          Target,         \* the Markdown path a local file becomes
          Rank,           \* order in a group: Markdown before PDF, then by name
          Unsupported,    \* hidden files, other formats, files over the size limit
          Selections,     \* what the user may pick: files, or one folder
          Stores,         \* contents a database may start with
          NodeLimit,      \* LOCAL_IMPORT_NODE_LIMIT
          MaxSelections, MaxSwitches, MaxChanges, MaxImports

VARIABLES database,       \* the database of the page
          store,          \* external: the databases' nodes at the target paths
          version,        \* external: the last etag given out
          dialog,         \* localImportDialog and the dialog's replacements
          sequence,       \* localImportSequence
          job,            \* prepareSelectedLocalImport under way
          write,          \* writeNodesAuthenticated under way
          log,            \* nodes that imports created or replaced
          late,           \* a write ended after the user left its database
          count           \* database switches, changes by others, imports
vars == <<database, store, version, dialog, sequence, job, write, log, late, count>>

Gone == [kind |-> "gone", v |-> 0]
NoPlan == [db |-> "none", files |-> {}, excluded |-> {}, sources |-> {}, entries |-> {},
           base |-> <<>>]
Closed == [phase |-> "closed", plan |-> NoPlan, of |-> 0, chosen |-> {}]
NoJob == [pc |-> "none", id |-> 0]
NoWrite == [pc |-> "none"]

Init == /\ database \in Databases
        /\ store \in [Databases -> Stores] /\ version = 1
        /\ dialog = Closed /\ sequence = 0 /\ job = NoJob /\ write = NoWrite
        /\ log = {} /\ late = FALSE
        /\ count = [switch |-> 0, change |-> 0, import |-> 0]

-----------------------------------------------------------------------------
(* prepareLocalImport *)

\* The first file of a group that can be read; those before it failed, those after
\* it are left out.
Chosen(group, bad) ==
  {s \in group \ bad : \A t \in group \ bad : Rank[s] <= Rank[t]}

Prepared(sources, bad) ==
  LET able == sources \ Unsupported
      files == {[path |-> p, from |-> s] : p \in {Target[t] : t \in able}, s \in able}
      kept == {f \in files : f.from \in Chosen({s \in able : Target[s] = f.path}, bad)} IN
  [files |-> kept, excluded |-> sources \ {f.from : f \in kept}]

FoldersOf(files) == UNION {Above[f.path] : f \in files}

\* Possible while no dialog is shown, also if a batch of the database left before
\* is still being written.  A new selection aborts the one before.
Select(sources) ==
  /\ dialog.phase = "closed" /\ sequence < MaxSelections
  /\ sequence' = sequence + 1
  /\ job' = [pc |-> "convert", id |-> sequence + 1, db |-> database, sources |-> sources,
             files |-> {}, excluded |-> {}, queue |-> <<>>, seen |-> {}, base |-> <<>>]
  /\ dialog' = [Closed EXCEPT !.phase = "preparing", !.of = sequence + 1]
  /\ UNCHANGED <<database, store, version, write, log, late, count>>

\* Files are read one after the other; any of them may fail.
Convert(bad) ==
  /\ job.pc = "convert" /\ bad \subseteq job.sources
  /\ LET p == Prepared(job.sources, bad) IN
     job' = [job EXCEPT !.pc = "list", !.files = p.files, !.excluded = p.excluded,
                        !.queue = <<"top">>, !.base = store[job.db]]
  /\ UNCHANGED <<database, store, version, dialog, sequence, write, log, late, count>>

\* Paths of the import that lie directly in a directory.
Within(dir) ==
  LET depth == IF dir = "top" THEN 0 ELSE Cardinality(Above[dir]) + 1 IN
  {p \in FoldersOf(job.files) \cup {f.path : f \in job.files} :
     Cardinality(Above[p]) = depth /\ (dir # "top" => dir \in Above[p])}

\* loadExistingLocalImportNodes: one directory after the other, and only folders
\* that the import merges with are looked into.
List ==
  /\ job.pc = "list" /\ job.queue # <<>>
  /\ LET dir == Head(job.queue)
         nodes == store[job.db]
         found == {p \in Within(dir) : nodes[p].kind # "gone"}
         into == {p \in found : nodes[p].kind = "folder" /\ p \in FoldersOf(job.files)} IN
     job' = [job EXCEPT !.queue = Tail(job.queue) \o SetToSeq(into),
                        !.seen = job.seen \cup {[path |-> p, node |-> nodes[p]] : p \in found}]
  /\ UNCHANGED <<database, store, version, dialog, sequence, write, log, late, count>>

-----------------------------------------------------------------------------
(* reconcileLocalImport *)

NodeAt(seen, p) ==
  IF \E e \in seen : e.path = p THEN (CHOOSE e \in seen : e.path = p).node ELSE Gone

\* A mutant of Blocked: what lies below a blocked folder is not blocked.
Blocked_ItselfOnly(seen, p) ==
  LET n == NodeAt(seen, p) IN
  n.kind # "gone" /\ n.kind # (IF p \in Folders THEN "folder" ELSE "file")

\* A node of another kind stands at the path, or at a folder above it.
Blocked(seen, p) ==
  \E q \in Above[p] \cup {p} :
    LET n == NodeAt(seen, q) IN
    n.kind # "gone" /\ n.kind # (IF q \in Folders THEN "folder" ELSE "file")

Entry(seen, p) ==
  LET n == NodeAt(seen, p) IN
  [path |-> p,
   etag |-> IF p \notin Folders /\ ~Blocked(seen, p) THEN n.v ELSE 0,
   status |-> IF Blocked(seen, p) THEN "blocked"
              ELSE IF n.kind = "gone" THEN "new"
              ELSE IF p \in Folders THEN "merge" ELSE "conflict"]

\* A mutant of IsLatest: the answer of every preparation is shown.
IsLatest_Any == TRUE

IsLatest == job.id = sequence

\* The plan is shown if it is still the latest selection.
Ready ==
  /\ job.pc = "list" /\ job.queue = <<>>
  /\ dialog' = IF IsLatest
       THEN [phase |-> "ready", of |-> job.id, chosen |-> {},
             plan |-> [db |-> job.db, files |-> job.files, excluded |-> job.excluded,
                       sources |-> job.sources, base |-> job.base,
                       entries |-> {Entry(job.seen, p) : p \in FoldersOf(job.files)
                                      \cup {f.path : f \in job.files}}]]
       ELSE dialog
  /\ job' = NoJob
  /\ UNCHANGED <<database, store, version, sequence, write, log, late, count>>

\* Sizes over the limits, or a failed listing.
PrepareFails ==
  /\ job.pc \in {"convert", "list"}
  /\ dialog' = IF IsLatest THEN [dialog EXCEPT !.phase = "error"] ELSE dialog
  /\ job' = NoJob
  /\ UNCHANGED <<database, store, version, sequence, write, log, late, count>>

\* Not while the batch is written.
Cancel ==
  /\ dialog.phase \in {"preparing", "ready", "error"}
  /\ dialog' = Closed /\ sequence' = sequence + 1
  /\ UNCHANGED <<database, store, version, job, write, log, late, count>>

\* The effect on a change of database cancels too; Back works during a write.
SwitchDatabase(db) ==
  /\ db # database /\ database' = db
  /\ count.switch < MaxSwitches /\ count' = [count EXCEPT !.switch = @ + 1]
  /\ dialog' = Closed /\ sequence' = sequence + 1
  /\ UNCHANGED <<store, version, job, write, log, late>>

Toggle(p) ==
  /\ dialog.phase = "ready"
  /\ \E e \in dialog.plan.entries : e.path = p /\ e.status = "conflict"
  /\ dialog' = [dialog EXCEPT !.chosen = (@ \ {p}) \cup ({p} \ @)]
  /\ UNCHANGED <<database, store, version, sequence, job, write, log, late, count>>

-----------------------------------------------------------------------------
(* runLocalImport *)

\* A mutant of Included: every conflict is replaced.
Included_Conflicts(e, chosen) == e.status \in {"new", "conflict"}

Included(e, chosen) == e.status = "new" \/ (e.status = "conflict" /\ e.path \in chosen)

\* A mutant of Before: files are not written after their folders.
Before_ByDepth(e, f) == Cardinality(Above[e.path]) > Cardinality(Above[f.path])

\* compareImportEntries: folders first, the upper ones before the lower.
Before(e, f) ==
  LET rank(x) == IF x.path \in Folders THEN Cardinality(Above[x.path])
                 ELSE Cardinality(Folders) + 1 IN
  rank(e) < rank(f)

Writes(plan, chosen) ==
  SetToSortSeq({e \in plan.entries : Included(e, chosen)}, Before)

\* The batch goes to the database of the page.  (Bound: one batch at a time.)
Import ==
  /\ dialog.phase = "ready" /\ write.pc = "none"
  /\ count.import < MaxImports /\ count' = [count EXCEPT !.import = @ + 1]
  /\ LET ws == Writes(dialog.plan, dialog.chosen) IN
     /\ Len(ws) \in 1..NodeLimit
     /\ write' = [pc |-> "sent", db |-> database, items |-> ws, dialog |-> dialog]
  /\ dialog' = [dialog EXCEPT !.phase = "writing"]
  /\ UNCHANGED <<database, store, version, sequence, job, log, late>>

\* external: write_nodes is one transaction.  A node needs its parent folder, and an
\* existing file the etag it has.
Accepts(nodes, w) ==
  LET n == nodes[w.path] IN
  /\ \A q \in Above[w.path] : nodes[q].kind = "folder"
  /\ \/ n.kind = "gone" /\ w.etag = 0
     \/ w.path \in Folders /\ n.kind = "folder"
     \/ w.path \notin Folders /\ n.kind \in {"file", "source"} /\ n.v = w.etag

Batch(nodes, ws) ==
  FoldLeft(LAMBDA acc, w :
             IF acc.ok /\ Accepts(acc.nodes, w)
               THEN [ok |-> TRUE,
                     nodes |-> [acc.nodes EXCEPT ![w.path] =
                       IF w.path \in Folders THEN [kind |-> "folder", v |-> version + 1]
                       ELSE [kind |-> "file", v |-> version + 1]]]
             ELSE [acc EXCEPT !.ok = FALSE],
           [ok |-> TRUE, nodes |-> nodes], ws)

WriteNodes ==
  /\ write.pc = "sent"
  /\ LET old == store[write.db]
         batch == Batch(old, write.items)
         wrote(w) == [path |-> w.path, db |-> write.db, was |-> old[w.path].v,
                      seen |-> w.etag, chosen |-> w.path \in write.dialog.chosen] IN
     IF batch.ok
       THEN /\ store' = [store EXCEPT ![write.db] = batch.nodes] /\ version' = version + 1
            /\ log' = log \cup {wrote(w) : w \in {v \in ToSet(write.items) : v.path \notin Folders}}
            /\ \E pc \in {"ok", "lost"} : write' = [write EXCEPT !.pc = pc]
       ELSE /\ write' = [write EXCEPT !.pc = IF old = write.dialog.plan.base
                                                    /\ write.db = write.dialog.plan.db
                                               THEN "unexpected" ELSE "refused"]
            /\ UNCHANGED <<store, version, log>>
  /\ UNCHANGED <<database, dialog, sequence, job, late, count>>

\* Success closes the dialog and a failure shows the plan again, also when the user has
\* left its database.
Written ==
  /\ write.pc \in {"ok", "lost", "refused", "unexpected"}
  /\ dialog' = IF write.pc = "ok" THEN Closed ELSE [write.dialog EXCEPT !.phase = "ready"]
  /\ late' = (late \/ database # write.db)
  /\ write' = NoWrite
  /\ UNCHANGED <<database, store, version, sequence, job, log, count>>

-----------------------------------------------------------------------------
\* external: another writer creates, changes or removes a file.
OtherWriter(db, p) ==
  /\ count.change < MaxChanges /\ p \notin Folders
  /\ \A q \in Above[p] : store[db][q].kind = "folder"
  /\ \E kind \in {"file", "gone"} :
       store' = [store EXCEPT ![db][p] =
                   IF kind = "gone" THEN Gone ELSE [kind |-> kind, v |-> version + 1]]
  /\ version' = version + 1 /\ count' = [count EXCEPT !.change = @ + 1]
  /\ UNCHANGED <<database, dialog, sequence, job, write, log, late>>

Next == \/ \E s \in Selections : Select(s)
        \/ \E bad \in SUBSET Sources : Convert(bad)
        \/ List \/ Ready \/ PrepareFails \/ Cancel \/ Import \/ WriteNodes \/ Written
        \/ \E p \in Paths : Toggle(p) \/ \E db \in Databases : OtherWriter(db, p)
        \/ \E db \in Databases : SwitchDatabase(db)

Spec == Init /\ [][Next]_vars

-----------------------------------------------------------------------------
\* An import replaces a file only if the user chose so, and only the version that the
\* plan showed.
OnlyChosenReplaced == \A w \in log : w.was # 0 => w.chosen /\ w.was = w.seen

\* Every selected file is in the plan once or is listed as left out, and no two files
\* of a plan have one target.
NothingDropped ==
  LET plan == dialog.plan IN
  /\ plan.sources = {f.from : f \in plan.files} \cup plan.excluded
  /\ \A f, g \in plan.files : f.path = g.path => f = g
  /\ \A f \in plan.files : f.from \notin plan.excluded

\* The canister refuses a batch only if the database changed after the files were read.
RefusedIfChanged == write.pc # "unexpected"

\* The dialog shows the latest selection, for the database of the page, unless a write
\* ended after its database was left.
DialogIsCurrent ==
  dialog.phase \in {"ready", "preparing", "error"} /\ ~late =>
    /\ dialog.of = sequence
    /\ dialog.phase = "ready" => dialog.plan.db = database

\* Local import (local-import.ts, local-import-dialog.tsx, wiki-browser.tsx).
ImportIsSafe ==
  OnlyChosenReplaced /\ NothingDropped /\ RefusedIfChanged /\ DialogIsCurrent
=============================================================================
