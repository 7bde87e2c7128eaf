------------------------------ MODULE Dashboard ------------------------------
(***************************************************************************)
(* The dashboard's page of one database: the refresh that fills its        *)
(* panels, the owner's changes of access, listing and metadata, deletion,  *)
(* and the paging of the cycles history.  Requests are read by the         *)
(* canister and answered in any order while principals sign in and out and *)
(* other owners change the database.                                       *)
(***************************************************************************)
EXTENDS Naturals, FiniteSets, Sequences

CONSTANTS Users,         \* Internet Identity principals
          Prices,        \* listing prices
          PageSize,      \* CYCLES_HISTORY_LIMIT
          History,       \* cycle entries of the database
          MaxRefreshes, MaxLoads, MaxEvents, MaxCalls

Anonymous == "2vxsx-fae"
LlmWriter == "llm-writer"
Members == Users \cup {Anonymous, LlmWriter}
Roles == {"reader", "writer", "owner"}
None == "none"

VARIABLES principal,     \* who is signed in
          tab,           \* the panel on display
          shown,         \* what the last applied refresh put on the page
          refreshes,     \* refreshes in flight
          refreshSeq,    \* refreshSeqRef
          dialog,        \* an access change that waits for confirmation
          form,          \* the price in the listing form, once Edit was pressed
          call,          \* the change in flight (busy, marketBusy)
          hist,          \* the history panel: entries, page, cursors
          loads,         \* history requests in flight
          loadSeq,       \* cyclesHistorySeqRef
          db,            \* external: the database in the canister
          log,           \* changes the canister accepted from this page
          own,           \* version of the last change that was answered
          events         \* disturbances so far (bound)

vars == <<principal, tab, shown, refreshes, refreshSeq, dialog, form, call, hist,
          loads, loadSeq, db, log, own, events>>

accessVars == <<dialog, form, call, log, own>>
historyVars == <<hist, loads, loadSeq>>

Disturb == events < MaxEvents /\ events' = events + 1

NoMembers == [m \in Members |-> None]
NoListing == [price |-> 0, revision |-> 0]
NoSnap == [version |-> 0, acl |-> NoMembers, status |-> None, listing |-> NoListing]
Empty == [by |-> None, role |-> None, public |-> FALSE, status |-> None,
          memberError |-> FALSE, members |-> NoMembers, membersBy |-> None,
          listing |-> NoListing, version |-> 0, failed |-> FALSE]
NoCall == [kind |-> None]
NoHistory == [entries |-> <<>>, index |-> 0, cursors |-> <<0>>, next |-> None,
              loading |-> FALSE, by |-> None]

FirstUser == CHOOSE u \in Users : TRUE

NewRefresh(by, n) == [id |-> n, by |-> by, phase |-> "rows", snap |-> NoSnap]

Init == /\ principal = FirstUser
        /\ tab \in {"access", "list", "settings", "cycles-history"}
        /\ shown = Empty
        /\ refreshes = {NewRefresh(FirstUser, 1)}
        /\ refreshSeq = 1
        /\ dialog = NoCall /\ form = 0 /\ call = NoCall
        /\ hist = NoHistory /\ loads = {} /\ loadSeq = 0
        /\ db = [version |-> 1, status |-> "active", history |-> History,
                 acl |-> [m \in Members |-> IF m = FirstUser THEN "owner" ELSE None],
                 listing |-> [price |-> CHOOSE p \in Prices : TRUE, revision |-> 1]]
        /\ log = {} /\ own = 0
        /\ events = 0

-----------------------------------------------------------------------------
(* refresh *)

CanView(s) == s.role \in {"writer", "owner"} /\ s.status = "active"
CanViewHistory == CanView(shown)

\* A history request of principal p; a refresh empties the panel first.
StartLoad(p, index, cursor, refreshPending) ==
  /\ loadSeq' = loadSeq + 1
  /\ loads' = loads \cup {[id |-> loadSeq + 1, by |-> p, index |-> index,
                           cursor |-> cursor, read |-> FALSE, entries |-> <<>>,
                           next |-> None]}
  /\ hist' = IF refreshPending THEN [NoHistory EXCEPT !.loading = TRUE]
             ELSE [hist EXCEPT !.loading = TRUE]

\* A mutant of IsCurrentRefresh: answers are applied as they arrive.
IsCurrentRefresh_Any(r) == TRUE

\* Only the latest refresh may touch the page.
IsCurrentRefresh(r) == r.id = refreshSeq

\* A refresh starts under the identity of the moment and clears the errors.
StartRefresh(by) ==
  /\ refreshSeq' = refreshSeq + 1
  /\ refreshes' = refreshes \cup {NewRefresh(by, refreshSeq + 1)}
  /\ shown' = [shown EXCEPT !.memberError = FALSE, !.failed = FALSE]

\* The canister answers the queries of a phase from its state of the moment.
RefreshRead(r) ==
  /\ r.snap = NoSnap
  /\ refreshes' = (refreshes \ {r}) \cup
       {[r EXCEPT !.snap = [version |-> db.version, acl |-> db.acl,
                            status |-> db.status, listing |-> db.listing]]}
  /\ UNCHANGED <<principal, tab, shown, refreshSeq, accessVars, historyVars, db,
                 events>>

\* mergeDatabaseRows: the member's row wins, a public row shows a reader.
MergedRow(r, publicOk, memberOk) ==
  LET mine == IF memberOk /\ r.by # None THEN r.snap.acl[r.by] ELSE None
      pub == publicOk /\ r.snap.acl[Anonymous] # None
      gone == r.snap.status = "deleted" IN
  [by |-> r.by, public |-> pub /\ ~gone,
   role |-> IF gone THEN None ELSE IF mine # None THEN mine
            ELSE IF pub THEN "reader" ELSE None,
   status |-> IF mine = None /\ ~pub THEN None ELSE r.snap.status,
   memberError |-> ~memberOk, members |-> NoMembers, membersBy |-> None,
   listing |-> NoListing, version |-> r.snap.version, failed |-> FALSE]

\* The lists fail together, or for a visitor the public one does: the page
\* keeps its rows and shows the error.
ListsFail(r, publicOk, memberOk) == ~publicOk /\ (r.by = None \/ ~memberOk)

RowsAnswer(r) ==
  /\ r.phase = "rows" /\ r.snap # NoSnap
  /\ \E publicOk \in BOOLEAN, memberOk \in BOOLEAN :
       /\ r.by = None => memberOk
       /\ LET row == MergedRow(r, publicOk, memberOk)
              more == row.status = "active" /\ ((r.by # None /\ row.role = "owner")
                                                 \/ row.public)
          IN IF ~IsCurrentRefresh(r) \/ ListsFail(r, publicOk, memberOk)
               THEN /\ refreshes' = refreshes \ {r}
                    /\ shown' = [shown EXCEPT !.failed = @ \/ IsCurrentRefresh(r)]
               ELSE /\ shown' = row
                    /\ refreshes' = (refreshes \ {r}) \cup
                         (IF more THEN {[r EXCEPT !.phase = row.role, !.snap = NoSnap]}
                                  ELSE {})
  /\ IF tab = "cycles-history" /\ ~CanViewHistory /\ CanView(shown')
       THEN loadSeq < MaxLoads /\ StartLoad(principal, 0, 0, TRUE)
       ELSE UNCHANGED historyVars
  /\ UNCHANGED <<principal, tab, refreshSeq, accessVars, db, events>>

\* A mutant of MayFill: a refresh that was overtaken still fills the panels.
MayFill_Any(r) == TRUE

MayFill(r) == IsCurrentRefresh(r)

\* Members, listings and buyers, for an owner; members only, in public.
PanelsAnswer(r) ==
  /\ r.phase # "rows" /\ r.snap # NoSnap
  /\ refreshes' = refreshes \ {r}
  /\ \E membersOk \in BOOLEAN, listingsOk \in BOOLEAN :
       shown' = IF ~MayFill(r) THEN shown
                ELSE [shown EXCEPT
                       !.members = IF membersOk THEN r.snap.acl ELSE @,
                       !.membersBy = IF membersOk THEN r.by ELSE @,
                       !.memberError = @ \/ ~membersOk,
                       !.listing = IF listingsOk /\ r.phase = "owner"
                                     THEN r.snap.listing ELSE @,
                       !.version = r.snap.version]
  /\ UNCHANGED <<principal, tab, refreshSeq, accessVars, historyVars, db, events>>

-----------------------------------------------------------------------------
(* Panels and principals *)

CanManage == shown.role = "owner" /\ shown.status = "active" /\ ~shown.memberError
Busy == call # NoCall

\* A panel the principal may not see falls back to "access".
PanelAllowed(t, canManage, canView) ==
  CASE t = "access" -> TRUE
    [] t \in {"list", "settings"} -> canManage
    [] t = "cycles-history" -> canView

\* The effects of a change of principal: a refresh, and the first page of the
\* history when that panel is open.
ChangePrincipal(p) ==
  /\ Disturb
  /\ p # principal
  /\ principal = None \/ p = None
  /\ refreshSeq < MaxRefreshes
  /\ principal' = p
  /\ StartRefresh(p)
  /\ IF tab = "cycles-history" /\ CanViewHistory
       THEN loadSeq < MaxLoads /\ StartLoad(p, 0, 0, TRUE)
       ELSE UNCHANGED historyVars
  /\ UNCHANGED <<tab, accessVars, db>>

\* The effect that leaves a panel the principal may not use; its dialog and
\* form go with it.
LeavePanel ==
  /\ ~PanelAllowed(tab, CanManage, CanViewHistory)
  /\ tab' = "access"
  /\ dialog' = NoCall /\ form' = 0
  /\ UNCHANGED <<principal, shown, refreshes, refreshSeq, call, log, own, historyVars, db,
                 events>>

-----------------------------------------------------------------------------
(* Changes the owner makes *)

StartCall(c) ==
  call' = [c EXCEPT !.pc = "sent"]

Access(kind, target, role, confirmed) ==
  [kind |-> kind, target |-> target, role |-> role, confirmed |-> confirmed,
   owner |-> FALSE, revision |-> 0, price |-> 0, by |-> principal, pc |-> "dialog",
   refresh |-> 0,
   version |-> 0]

\* A mutant of AsksFirst: losing an owner is not confirmed.
AsksFirst_GrantsOnly(kind, target, role) == target = Anonymous \/ role = "owner"

\* Changes of a listed member that open a dialog first: owners gained or lost,
\* public access and the worker's access revoked.
AsksFirst(kind, target, role) ==
  \/ kind = "revoke" /\ target \in {Anonymous, LlmWriter}
  \/ role = "owner"
  \/ shown.members[target] = "owner"

\* The role selector and the revoke button of a listed member.
RequestChange(kind, target, role) ==
  /\ tab = "access" /\ CanManage /\ ~Busy /\ dialog = NoCall
  /\ shown.members[target] # None /\ target # principal
  /\ kind = "grant" => role # shown.members[target] /\ target # Anonymous
  /\ LET c == [Access(kind, target, role, AsksFirst(kind, target, role)) EXCEPT
                 !.owner = shown.members[target] = "owner"] IN
       IF AsksFirst(kind, target, role)
         THEN dialog' = c /\ UNCHANGED call
         ELSE StartCall(c) /\ UNCHANGED dialog
  /\ UNCHANGED <<principal, tab, shown, refreshes, refreshSeq, form, log, own, historyVars,
                 db, events>>

\* The public is always a reader, the worker always a writer.
GrantedRole(target, role) ==
  IF target = Anonymous THEN "reader" ELSE IF target = LlmWriter THEN "writer" ELSE role

\* The form takes any principal, a listed owner's too, without asking more.
GrantForm(target, role) ==
  /\ tab = "access" /\ CanManage /\ ~Busy /\ dialog = NoCall
  /\ LET r == GrantedRole(target, role)
         ask == target \in {Anonymous, LlmWriter} \/ r = "owner"
         c == Access("grant", target, r, ask)
     IN IF ask THEN dialog' = c /\ UNCHANGED call
               ELSE StartCall(c) /\ UNCHANGED dialog
  /\ UNCHANGED <<principal, tab, shown, refreshes, refreshSeq, form, log, own, historyVars,
                 db, events>>

ConfirmDialog ==
  /\ dialog # NoCall /\ ~Busy /\ CanManage
  /\ StartCall([dialog EXCEPT !.by = principal])
  /\ dialog' = NoCall
  /\ UNCHANGED <<principal, tab, shown, refreshes, refreshSeq, form, log, own, historyVars,
                 db, events>>

CancelDialog ==
  /\ dialog # NoCall /\ ~Busy
  /\ dialog' = NoCall
  /\ UNCHANGED <<principal, tab, shown, refreshes, refreshSeq, form, call, log, own,
                 historyVars, db, events>>

\* Edit copies the displayed price into the form.
EditListing ==
  /\ tab = "list" /\ CanManage /\ ~Busy /\ shown.listing # NoListing
  /\ form # shown.listing.price
  /\ form' = shown.listing.price
  /\ UNCHANGED <<principal, tab, shown, refreshes, refreshSeq, dialog, call, log, own,
                 historyVars, db, events>>

\* A mutant of ExpectedRevision: the form names no revision.
ExpectedRevision_None(listing) == 0

\* The revision sent is that of the listing on display when Save is pressed.
ExpectedRevision(listing) == listing.revision

\* Save, with the price of the form or another one; publish and pause.
UpdateListing(kind, price) ==
  /\ tab = "list" /\ CanManage /\ ~Busy /\ shown.listing # NoListing
  /\ kind = "update" => form # 0
  /\ StartCall([Access(kind, None, None, TRUE) EXCEPT
                 !.revision = IF kind = "update" THEN ExpectedRevision(shown.listing) ELSE 0,
                 !.price = IF kind = "update" THEN price ELSE shown.listing.price])
  /\ UNCHANGED <<principal, tab, shown, refreshes, refreshSeq, dialog, form, log, own,
                 historyVars, db, events>>

Settings(kind) ==
  /\ tab = "settings" /\ CanManage /\ ~Busy
  /\ StartCall(Access(kind, None, None, TRUE))
  /\ UNCHANGED <<principal, tab, shown, refreshes, refreshSeq, dialog, form, log, own,
                 historyVars, db, events>>

\* The metadata dialog; an empty name is not sent.
UpdateMetadata == Settings("metadata")

\* Deletion, once the database id has been typed.
DeleteDatabase == Settings("delete")

\* external: the canister applies a change of an owner of an active database;
\* an owner is never the last one to go, a listing only changes at the revision
\* the request expects.
Owners(acl) == {m \in Members : acl[m] = "owner"}

Changed(d, c) ==
  LET next == [d EXCEPT !.version = @ + 1] IN
  CASE c.kind = "grant"  -> [next EXCEPT !.acl[c.target] = c.role]
    [] c.kind = "revoke" -> [next EXCEPT !.acl[c.target] = None]
    [] c.kind = "update" -> [next EXCEPT !.listing = [price |-> c.price, revision |-> @.revision + 1]]
    [] c.kind = "delete" -> [next EXCEPT !.status = "deleted"]
    [] OTHER -> next

Permitted(d, c) ==
  /\ d.status = "active"
  /\ c.by # None /\ d.acl[c.by] = "owner"
  /\ Owners(Changed(d, c).acl) # {}
  /\ c.kind = "update" => c.revision \in {0, d.listing.revision}

CallExecutes ==
  /\ call.kind # None /\ call.pc = "sent"
  /\ IF Permitted(db, call)
       THEN /\ db' = Changed(db, call)
            /\ log' = log \cup {[kind |-> call.kind, target |-> call.target,
                 confirmed |-> call.confirmed, version |-> db.version + 1,
                 seen |-> call.revision, replaced |-> db.listing.revision,
                 owner |-> call.owner, role |-> call.role]}
            /\ call' = [call EXCEPT !.pc = "ok", !.version = db.version + 1]
       ELSE call' = [call EXCEPT !.pc = "failed"] /\ UNCHANGED <<db, log>>
  /\ UNCHANGED <<principal, tab, shown, refreshes, refreshSeq, dialog, form, own,
                 historyVars, events>>

\* The answer: a refresh follows a success, and the page stays busy until it has
\* finished; a deleted database's page is left.
CallAnswered ==
  /\ call.kind # None
  /\ \/ /\ call.pc = "ok" /\ call.kind # "delete"
        /\ refreshSeq < MaxRefreshes
        /\ StartRefresh(principal)
        /\ call' = [call EXCEPT !.pc = "refresh", !.refresh = refreshSeq + 1]
        /\ own' = call.version
        /\ UNCHANGED <<tab, dialog, form>>
     \/ /\ call.pc = "ok" /\ call.kind = "delete"
        /\ tab' = "left" /\ shown' = Empty
        /\ call' = NoCall /\ dialog' = NoCall /\ form' = 0
        /\ refreshes' = {}
        /\ UNCHANGED <<refreshSeq, own>>
     \/ /\ call.pc \in {"failed", "ok"}          \* refused, or the answer is lost
        /\ call' = NoCall
        /\ UNCHANGED <<tab, shown, refreshes, refreshSeq, dialog, form, own>>
  /\ UNCHANGED <<principal, log, historyVars, db, events>>

CallDone ==
  /\ call.kind # None /\ call.pc = "refresh"
  /\ \A r \in refreshes : r.id # call.refresh
  /\ call' = NoCall
  /\ UNCHANGED <<principal, tab, shown, refreshes, refreshSeq, dialog, form, log, own,
                 historyVars, db, events>>

\* external: another owner, or this one elsewhere, changes the database.
OthersChange ==
  /\ Disturb
  /\ db.status = "active"
  /\ \E m \in Users, r \in {"owner", "reader"}, p \in Prices :
       db' = [db EXCEPT !.version = @ + 1, !.acl[m] = r, !.history = @ + 1,
                        !.listing = IF p = @.price THEN @
                                    ELSE [price |-> p, revision |-> @.revision + 1]]
  /\ Owners(db'.acl) # {}
  /\ UNCHANGED <<principal, tab, shown, refreshes, refreshSeq, accessVars, historyVars>>

-----------------------------------------------------------------------------
(* Cycles history *)

\* The panel is refreshed, or turns a page; buttons wait for the last load.
RefreshHistory ==
  /\ tab = "cycles-history" /\ CanViewHistory /\ ~hist.loading /\ loadSeq < MaxLoads
  /\ StartLoad(principal, 0, 0, TRUE)
  /\ UNCHANGED <<principal, tab, shown, refreshes, refreshSeq, accessVars, db, events>>

NextPage ==
  /\ tab = "cycles-history" /\ CanViewHistory /\ ~hist.loading /\ loadSeq < MaxLoads
  /\ hist.next # None
  /\ StartLoad(principal, hist.index + 1, hist.cursors[hist.index + 2], FALSE)
  /\ UNCHANGED <<principal, tab, shown, refreshes, refreshSeq, accessVars, db, events>>

PreviousPage ==
  /\ tab = "cycles-history" /\ CanViewHistory /\ ~hist.loading /\ loadSeq < MaxLoads
  /\ hist.index > 0
  /\ StartLoad(principal, hist.index - 1, hist.cursors[hist.index], FALSE)
  /\ UNCHANGED <<principal, tab, shown, refreshes, refreshSeq, accessVars, db, events>>

\* external: list_database_cycle_entries, in entry order after the cursor.
Entries(cursor, n) ==
  [i \in 1..(IF n - cursor < PageSize THEN n - cursor ELSE PageSize) |-> cursor + i]

LoadRead(l) ==
  /\ ~l.read
  /\ loads' = (loads \ {l}) \cup
       {[l EXCEPT !.read = TRUE, !.entries = Entries(l.cursor, db.history),
                  !.next = IF l.cursor + PageSize < db.history THEN "more" ELSE None]}
  /\ UNCHANGED <<principal, tab, shown, refreshes, refreshSeq, accessVars, hist,
                 loadSeq, db, events>>

\* A mutant of IsCurrentLoad: answers are applied in the order they arrive.
IsCurrentLoad_Any(l) == TRUE

IsCurrentLoad(l) == l.id = loadSeq

\* The cursors up to this page are kept, this page's cursor is set, and the next
\* one appended if there is one.
Cursors(old, l) ==
  SubSeq(old, 1, l.index) \o <<l.cursor>> \o
    (IF l.next = None THEN <<>> ELSE <<l.cursor + PageSize>>)

LoadAnswer(l) ==
  /\ l.read
  /\ loads' = loads \ {l}
  /\ \E ok \in BOOLEAN :
       hist' = IF ~IsCurrentLoad(l) THEN hist
               ELSE IF ok THEN [entries |-> l.entries, index |-> l.index, next |-> l.next,
                                by |-> l.by,
                                cursors |-> Cursors(hist.cursors, l), loading |-> FALSE]
               ELSE [hist EXCEPT !.loading = FALSE]
  /\ UNCHANGED <<principal, tab, shown, refreshes, refreshSeq, accessVars, loadSeq, db,
                 events>>

AccessStep ==
  /\ Cardinality(log) < MaxCalls
  /\ \/ \E m \in Members, r \in Roles : RequestChange("grant", m, r)
     \/ \E m \in Members : RequestChange("revoke", m, None)
     \/ \E m \in Members, r \in Roles : GrantForm(m, r)
     \/ ConfirmDialog
     \/ \E k \in {"update", "publish"}, p \in Prices : UpdateListing(k, p)
     \/ UpdateMetadata \/ DeleteDatabase

Next == /\ tab # "left"
        /\ \/ \E r \in refreshes : RefreshRead(r) \/ RowsAnswer(r) \/ PanelsAnswer(r)
           \/ \E p \in Users \cup {None} : ChangePrincipal(p)
           \/ LeavePanel \/ AccessStep \/ CancelDialog \/ EditListing
           \/ CallExecutes \/ CallAnswered \/ CallDone \/ OthersChange
           \/ RefreshHistory \/ NextPage \/ PreviousPage
           \/ \E l \in loads : LoadRead(l) \/ LoadAnswer(l)

Spec == Init /\ [][Next]_vars

-----------------------------------------------------------------------------
\* Members on display were read by the principal whose role is on display.
PanelsAgree == shown.membersBy \in {None, shown.by}

\* Public access, new owners, and members listed as owners change only after a
\* confirmation.
RiskyChangesConfirmed ==
  \A c \in log : c.kind \in {"grant", "revoke"} /\
    (c.target = Anonymous \/ c.role = "owner" \/ c.owner) => c.confirmed

\* A listing is updated only from the revision on display.
ListingNotOverwritten ==
  \A c \in log : c.kind = "update" => c.seen = c.replaced

\* Once this page's change and the refreshes are over, what is displayed is no
\* older than the change.
OwnChangeShown ==
  refreshes = {} /\ call = NoCall /\ ~shown.failed /\ tab # "left" =>
    shown.version >= own

\* The entries on display are those after the cursor of the page, and the
\* cursors of the pages before it are the ends of their predecessors; they were
\* read for the principal who sees them (callers are redacted by role).
HistoryIsAPage ==
  /\ hist.entries # <<>> => hist.entries[1] = hist.cursors[hist.index + 1] + 1
  /\ \A i \in 1..Len(hist.cursors) : hist.cursors[i] = (i - 1) * PageSize
  /\ hist.next # None => Len(hist.cursors) = hist.index + 2
  /\ tab = "cycles-history" /\ CanViewHistory /\ hist.entries # <<>> =>
       hist.by = principal

\* The page of a database (dashboard-client.tsx): panels of one principal, risky
\* changes confirmed, listings not overwritten, history pages in order.
DashboardIsSound ==
  PanelsAgree /\ RiskyChangesConfirmed /\ ListingNotOverwritten
    /\ OwnChangeShown /\ HistoryIsAPage
=============================================================================
