---------------------------- MODULE SkillRegistry ----------------------------
(***************************************************************************)
(* The browser's skill registry: a skill package is a folder of nodes      *)
(* written one after the other, its manifest carries status and            *)
(* provenance, runs and events are separate nodes named by the time.  The  *)
(* page's status change, run record and package update interleave with     *)
(* each other, with other writers, with a branch that moves on GitHub and  *)
(* with principals who sign in and out.                                    *)
(***************************************************************************)
EXTENDS Naturals, Sequences, SequencesExt, FiniteSets

CONSTANTS Writers,        \* principals with write access to the database
          Readers,        \* principals who may only read it
          Statuses,       \* of "draft", "reviewed", "promoted", "deprecated"
          Outcomes,       \* of "success", "partial", "fail"
          Dir,            \* the skill's folder, the id its manifest must carry
          RunWindow,      \* runs read for the summary (100)
          MaxTime,        \* clock readings, in milliseconds
          MaxRevisions,   \* commits of the GitHub branch
          MaxRefreshes, MaxOps, MaxEvents

None == "none"
Anonymous == "anonymous"
Files == {"manifest.md", "SKILL.md"}
OtherIds == {"other"}     \* an id a pasted manifest may carry

VARIABLES principal,      \* who is signed in
          shown,          \* the catalog's entry on display: by whom read, and what
          refreshes,      \* catalog and detail reads in flight
          seq,            \* refreshSeqRef
          role,           \* databaseRole and for whom it was read
          roleReads,      \* role reads in flight: nothing orders them
          op,             \* the action of the skill card (busy)
          pkg,            \* the package manager's action (busy)
          manifest,       \* external: the manifest node
          skill,          \* external: the SKILL.md node
          runs,           \* external: run nodes in the order of their names
          trail,          \* external: event nodes, by time
          branch,         \* external: the commit the branch points to
          now,            \* Date.now()
          log,            \* what the page's actions did
          ops, events     \* bounds

vars == <<principal, shown, refreshes, seq, role, roleReads, op, pkg, manifest, skill,
          runs, trail, branch, now, log, ops, events>>

page == <<principal, shown, refreshes, seq, role, roleReads>>
store == <<manifest, skill, runs, trail>>

NoManifest == [etag |-> 0, id |-> None, status |-> None, promoted |-> FALSE,
               deprecated |-> FALSE, reason |-> FALSE, revision |-> 0]
NoSkill == [etag |-> 0, commit |-> 0]
NoOp == [kind |-> None]
NewRefresh(n, by) == [id |-> n, by |-> by, phase |-> "catalog", listed |-> FALSE]
NoSkills == [by |-> None, load |-> "idle", listed |-> FALSE, runs |-> <<>>]

\* The page opens with a session, or without one, and reads the catalog.
Init == /\ principal \in Writers \cup Readers \cup {Anonymous}
        /\ seq = 1
        /\ refreshes = {NewRefresh(1, principal)}
        /\ shown = [NoSkills EXCEPT !.load = "loading"]
        /\ role = [by |-> None, writable |-> FALSE]
        /\ roleReads = {principal} \ {Anonymous}
        /\ op = NoOp /\ pkg = NoOp
        /\ manifest = NoManifest /\ skill = NoSkill
        /\ runs = <<>> /\ trail = {} /\ branch = 1 /\ now = 1
        /\ log = {} /\ ops = 0 /\ events = 0

Disturb == events < MaxEvents /\ events' = events + 1

-----------------------------------------------------------------------------
(* Catalog *)

StartRefresh(by) ==
  /\ seq < MaxRefreshes
  /\ seq' = seq + 1
  /\ refreshes' = refreshes \cup {NewRefresh(seq + 1, by)}
  /\ shown' = [shown EXCEPT !.load = "loading"]
  /\ roleReads' = IF by = Anonymous THEN roleReads ELSE roleReads \cup {by}

\* The last runs of the skill, in the order of their names.
RecentRuns == SubSeq(runs, IF Len(runs) > RunWindow THEN Len(runs) - RunWindow + 1 ELSE 1,
                     Len(runs))

\* A mutant of IsCurrentRefresh: answers are shown as they arrive.
IsCurrentRefresh_Any(r) == TRUE

IsCurrentRefresh(r) == r.id = seq

\* parseSkillManifest: a folder whose manifest has a safe id is a skill.
IsSkill(m) == m.id # None

\* The manifests first, then their details; an error keeps what is shown.
RefreshAnswer(r) ==
  /\ \E ok \in BOOLEAN :
       IF ~IsCurrentRefresh(r) \/ (r.phase = "details" /\ ~ok)
         THEN refreshes' = refreshes \ {r} /\ UNCHANGED shown
       ELSE IF ~ok
         THEN refreshes' = refreshes \ {r} /\ shown' = [shown EXCEPT !.load = "error"]
       ELSE IF r.phase = "catalog"
         THEN /\ shown' = [by |-> r.by, load |-> "ready", listed |-> IsSkill(manifest),
                           runs |-> <<>>]
              /\ refreshes' = (refreshes \ {r}) \cup
                   {[r EXCEPT !.phase = "details", !.listed = IsSkill(manifest)]}
       ELSE /\ shown' = [shown EXCEPT !.by = r.by, !.listed = r.listed,
                                      !.runs = IF r.listed THEN RecentRuns ELSE <<>>]
            /\ refreshes' = refreshes \ {r}
  /\ UNCHANGED <<principal, seq, role, roleReads, op, pkg, store, branch, now, log, ops,
                 events>>

\* The role read last wins, whoever it was read for.
RoleAnswer(by) ==
  /\ by \in roleReads
  /\ roleReads' = roleReads \ {by}
  /\ \E ok \in BOOLEAN : role' = [by |-> by, writable |-> ok /\ by \in Writers]
  /\ UNCHANGED <<principal, shown, refreshes, seq, op, pkg, store, branch, now, log, ops,
                 events>>

Refresh ==
  /\ shown.load # "loading"
  /\ StartRefresh(principal)
  /\ UNCHANGED <<principal, role, op, pkg, store, branch, now, log, ops, events>>

Login(p) ==
  /\ Disturb /\ principal = Anonymous
  /\ principal' = p
  /\ StartRefresh(p)
  /\ UNCHANGED <<role, op, pkg, store, branch, now, log, ops>>

\* Signing out invalidates what is in flight, forgets role and skills, and reads
\* the public catalog.
Logout ==
  /\ Disturb /\ principal # Anonymous
  /\ principal' = Anonymous
  /\ role' = [by |-> None, writable |-> FALSE]
  /\ seq + 1 < MaxRefreshes
  /\ seq' = seq + 2
  /\ refreshes' = refreshes \cup {NewRefresh(seq + 2, Anonymous)}
  /\ shown' = [NoSkills EXCEPT !.load = "loading"]
  /\ UNCHANGED <<roleReads, op, pkg, store, branch, now, log, ops>>

-----------------------------------------------------------------------------
(* Writes, as the canister takes them *)

MayWrite(by) == by \in Writers

\* A mutant of EtagMatches: whatever is there is replaced.
EtagMatches_Any(node, expected) == TRUE

\* external: write_node refuses a node that is not the one that was read.
EtagMatches(node, expected) == node.etag = expected

Tick == IF now < MaxTime THEN now' \in {now, now + 1} ELSE UNCHANGED now

\* external: nodes named by the time are created, never replaced.
FreeName(taken) == \A t \in taken : t.at # now

\* recordSkillEvent: the last call of every action.
RecordEvent(o, action) ==
  IF MayWrite(o.by) /\ FreeName(trail)
    THEN trail' = trail \cup {[at |-> now, action |-> action, actor |-> o.by]}
    ELSE UNCHANGED trail

Recorded(o) == MayWrite(o.by) /\ FreeName(trail)

Finish(o, done) ==
  log' = log \cup {[kind |-> o.kind, by |-> o.by, done |-> done, seen |-> o.seen, put |-> o.put,
                    event |-> o.put /\ Recorded(o), commits |-> o.commits,
                    revision |-> o.revision]}

NewOp(kind) == [kind |-> kind, pc |-> "read", by |-> principal, to |-> None, seen |-> 0,
                put |-> FALSE, commits |-> {}, revision |-> 0, m |-> NoManifest,
                files |-> <<>>, sk |-> NoSkill]

Enabled == ops < MaxOps /\ ops' = ops + 1
Writable == role.writable

-----------------------------------------------------------------------------
(* The skill card: status and runs *)

SetStatus(s) ==
  /\ op = NoOp /\ principal # Anonymous /\ Writable /\ shown.listed
  /\ Enabled
  /\ op' = [NewOp("status") EXCEPT !.to = s]
  /\ UNCHANGED <<page, pkg, store, branch, now, log, events>>

\* requireNode fails if the manifest is gone.
StatusReads ==
  /\ op.kind = "status" /\ op.pc = "read"
  /\ op' = IF manifest = NoManifest THEN NoOp
           ELSE [op EXCEPT !.pc = "write", !.m = manifest, !.seen = manifest.etag]
  /\ UNCHANGED <<page, pkg, store, branch, now, log, ops, events>>

\* A mutant of Stamped: the stamps of the old status are left behind.
Stamped_Kept(m, s) == [m EXCEPT !.status = s, !.promoted = @ \/ s = "promoted",
                                !.deprecated = @ \/ s = "deprecated"]

\* Only a promoted manifest has promoted_at, only a deprecated one deprecated_at
\* and perhaps a reason.
Stamped(m, s) == [m EXCEPT !.status = s, !.promoted = s = "promoted",
                           !.deprecated = s = "deprecated",
                           !.reason = @ /\ s = "deprecated"]

StatusWrites ==
  /\ op.kind = "status" /\ op.pc = "write"
  /\ IF MayWrite(op.by) /\ EtagMatches(manifest, op.seen)
       THEN /\ \E reason \in BOOLEAN :
                 manifest' = [Stamped(op.m, op.to) EXCEPT
                   !.etag = manifest.etag + 1,
                   !.reason = @ \/ (reason /\ op.to = "deprecated")]
            /\ op' = [op EXCEPT !.pc = "event", !.put = TRUE, !.revision = manifest.etag]
            /\ UNCHANGED log
       ELSE Finish(op, FALSE) /\ op' = NoOp /\ UNCHANGED manifest
  /\ Tick
  /\ UNCHANGED <<page, pkg, skill, runs, trail, branch, ops, events>>

RecordRun(outcome) ==
  /\ op = NoOp /\ principal # Anonymous /\ Writable /\ shown.listed
  /\ Enabled
  /\ op' = [NewOp("run") EXCEPT !.to = outcome]
  /\ UNCHANGED <<page, pkg, store, branch, now, log, events>>

\* Both nodes are read for their hashes before the run is written under the time.
RunReads ==
  /\ op.kind = "run" /\ op.pc = "read"
  /\ op' = IF manifest = NoManifest \/ skill = NoSkill THEN NoOp
           ELSE [op EXCEPT !.pc = "write"]
  /\ UNCHANGED <<page, pkg, store, branch, now, log, ops, events>>

RunWrites ==
  /\ op.kind = "run" /\ op.pc = "write"
  /\ IF MayWrite(op.by) /\ FreeName(ToSet(runs))
       THEN /\ runs' = Append(runs, [at |-> now, outcome |-> op.to])
            /\ op' = [op EXCEPT !.pc = "event", !.put = TRUE]
            /\ UNCHANGED log
       ELSE Finish(op, FALSE) /\ op' = NoOp /\ UNCHANGED runs
  /\ Tick
  /\ UNCHANGED <<page, pkg, manifest, skill, trail, branch, ops, events>>

\* A mutant of Completed: the event is written in the background.
Completed_Unrecorded(o) == TRUE

\* "Operation completed." is shown only if the event could be written as well.
Completed(o) == Recorded(o)

\* The end of an action of the card.  After a success the catalog is read again
\* for the one who started the action, who may have signed out by now.
OpRecords ==
  /\ op.kind # None /\ op.pc = "event"
  /\ RecordEvent(op, op.kind)
  /\ Finish(op, Completed(op))
  /\ op' = NoOp
  /\ IF Completed(op) /\ seq < MaxRefreshes
       THEN StartRefresh(op.by)
       ELSE UNCHANGED <<seq, refreshes, shown, roleReads>>
  /\ Tick
  /\ UNCHANGED <<principal, role, pkg, manifest, skill, runs, branch, ops, events>>

-----------------------------------------------------------------------------
(* The package manager *)

\* manifest.md from the package, or generated: the id is always the folder's.
NormalizedManifest(m) ==
  [m EXCEPT !.id = Dir, !.status = IF @ = None THEN "draft" ELSE @]

\* The provenance block of an import replaces the one that was there.
WithProvenance(m, commit) == [m EXCEPT !.revision = commit]

\* Paste: SKILL.md is required; the manifest is optional and may carry any id.
PasteUpsert ==
  /\ pkg = NoOp /\ Writable
  /\ Enabled
  /\ \E id \in {None} \cup OtherIds :
       pkg' = [NewOp("paste") EXCEPT !.pc = "read",
                 !.m = NormalizedManifest([NoManifest EXCEPT !.id = id]),
                 !.files = <<"manifest.md", "SKILL.md">>]
  /\ UNCHANGED <<page, op, store, branch, now, log, events>>

\* Import: the ref is resolved to a commit, and every file is fetched at it.
ImportGitHub ==
  /\ pkg = NoOp /\ Writable
  /\ Enabled
  /\ pkg' = [NewOp("import") EXCEPT !.pc = "fetch", !.revision = branch]
  /\ UNCHANGED <<page, op, store, branch, now, log, events>>

\* A mutant of FetchAt: files are fetched from the branch.
FetchAt_Branch(o) == branch

FetchAt(o) == o.revision

FetchSkill ==
  /\ pkg.kind = "import" /\ pkg.pc = "fetch"
  /\ pkg' \in {[pkg EXCEPT !.pc = "fetch2", !.commits = {FetchAt(pkg)},
                  !.sk = [etag |-> 0, commit |-> FetchAt(pkg)]],
               NoOp}                                  \* SKILL.md is missing
  /\ UNCHANGED <<page, op, store, branch, now, log, ops, events>>

FetchManifest ==
  /\ pkg.kind = "import" /\ pkg.pc = "fetch2"
  /\ pkg' = [pkg EXCEPT !.pc = "read", !.commits = @ \cup {FetchAt(pkg)},
               !.files = <<"manifest.md", "SKILL.md">>,
               !.m = WithProvenance(NormalizedManifest(NoManifest), pkg.revision)]
  /\ UNCHANGED <<page, op, store, branch, now, log, ops, events>>

\* Files are written in the order of their names, each with the etag just read.
PkgReads ==
  /\ pkg.kind \in {"paste", "import"} /\ pkg.pc = "read"
  /\ pkg' = [pkg EXCEPT !.pc = "write",
               !.seen = IF Head(pkg.files) = "manifest.md" THEN manifest.etag ELSE skill.etag]
  /\ UNCHANGED <<page, op, store, branch, now, log, ops, events>>

PkgWrites ==
  /\ pkg.kind \in {"paste", "import"} /\ pkg.pc = "write"
  /\ LET name == Head(pkg.files)
         node == IF name = "manifest.md" THEN manifest ELSE skill IN
     IF ~MayWrite(pkg.by) \/ ~EtagMatches(node, pkg.seen)
       THEN Finish(pkg, FALSE) /\ pkg' = NoOp /\ UNCHANGED <<manifest, skill>>
       ELSE /\ manifest' = IF name = "manifest.md"
                             THEN [pkg.m EXCEPT !.etag = manifest.etag + 1] ELSE manifest
            /\ skill' = IF name = "SKILL.md" THEN [pkg.sk EXCEPT !.etag = skill.etag + 1]
                        ELSE skill
            /\ pkg' = [pkg EXCEPT !.files = Tail(@), !.put = TRUE,
                         !.pc = IF Len(pkg.files) = 1 THEN "event" ELSE "read"]
            /\ UNCHANGED log
  /\ Tick
  /\ UNCHANGED <<page, op, runs, trail, branch, ops, events>>

PkgRecords ==
  /\ pkg.kind \in {"paste", "import"} /\ pkg.pc = "event"
  /\ RecordEvent(pkg, "package.upsert")
  /\ Finish(pkg, Completed(pkg))
  /\ pkg' = NoOp
  /\ IF Completed(pkg) /\ seq < MaxRefreshes
       THEN StartRefresh(pkg.by)
       ELSE UNCHANGED <<seq, refreshes, shown, roleReads>>
  /\ Tick
  /\ UNCHANGED <<principal, role, op, manifest, skill, runs, branch, ops, events>>

\* external: the repository's branch moves on.
BranchMoves ==
  /\ Disturb /\ branch < MaxRevisions
  /\ branch' = branch + 1
  /\ UNCHANGED <<page, op, pkg, store, now, log, ops>>

\* external: another client changes the manifest, by the same rules.
OtherWrites ==
  /\ Disturb
  /\ \E s \in Statuses :
       manifest' = [Stamped([NoManifest EXCEPT !.id = Dir], s) EXCEPT
                      !.etag = manifest.etag + 1]
  /\ UNCHANGED <<page, op, pkg, skill, runs, trail, branch, now, log, ops>>

Next ==
  \/ \E r \in refreshes : RefreshAnswer(r)
  \/ \E u \in Writers \cup Readers : RoleAnswer(u) \/ Login(u)
  \/ Refresh \/ Logout
  \/ \E s \in Statuses : SetStatus(s)
  \/ \E o \in Outcomes : RecordRun(o)
  \/ StatusReads \/ StatusWrites \/ RunReads \/ RunWrites \/ OpRecords
  \/ PasteUpsert \/ ImportGitHub \/ FetchSkill \/ FetchManifest
  \/ PkgReads \/ PkgWrites \/ PkgRecords
  \/ BranchMoves \/ OtherWrites

Spec == Init /\ [][Next]_vars

-----------------------------------------------------------------------------
(* The summary of a skill's runs *)

Count(rs, outcome) == Len(SelectSeq(rs, LAMBDA r : r.outcome = outcome))

\* summarizeRuns: one pass, keeping the outcome of the latest run.
Later(sum, r) == IF r.at > sum.last THEN [last |-> r.at, outcome |-> r.outcome] ELSE sum
LastRun(rs) == FoldSeq(LAMBDA r, sum : Later(sum, r), [last |-> 0, outcome |-> None], rs)

\* An import writes files of the one commit its manifest names, even though the
\* branch moves while they are fetched.
ImportIsOneCommit ==
  \A l \in log : l.kind = "import" /\ l.commits # {} => l.commits = {l.revision}

\* Stamps follow the status, and the manifest in a skill's folder carries its id.
StatusIsStamped ==
  /\ manifest.promoted = (manifest.status = "promoted")
  /\ manifest.deprecated = (manifest.status = "deprecated")
  /\ manifest.reason => manifest.deprecated
  /\ manifest # NoManifest => manifest.id = Dir

\* A status change replaces the manifest it read, not one written meanwhile.
NoManifestLost ==
  \A l \in log : l.kind = "status" /\ l.put => l.seen = l.revision

\* What is reported as completed was written, with its event.
CompletedIsRecorded == \A l \in log : l.done => l.put /\ l.event

\* A catalog shown as loaded was read by the principal who is signed in, or for the
\* author of an action that completed; its summary is that of the latest of the
\* runs it shows.
CatalogIsOwn ==
  shown.load = "ready" =>
    /\ shown.by = principal \/ \E l \in log : l.done /\ l.by = shown.by
    /\ LET rs == shown.runs IN
       /\ Count(rs, "success") + Count(rs, "partial") + Count(rs, "fail") = Len(rs)
       /\ rs # <<>> => LastRun(rs).outcome = Last(rs).outcome

\* The registry page (skill-registry-client.tsx and its libraries).
RegistryIsSound ==
  ImportIsOneCommit /\ StatusIsStamped /\ NoManifestLost /\ CompletedIsRecorded
    /\ CatalogIsOwn
=============================================================================
