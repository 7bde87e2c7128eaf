---------------------------- MODULE ClipperBadge ----------------------------
(***************************************************************************)
(* Settings and toolbar badge of the browser extension.  The popup lists   *)
(* the databases of the signed-in user and stores the selected one; the    *)
(* service worker looks every page up in that database and paints IN on    *)
(* the tab when its source is there.  A lookup awaits the settings, the    *)
(* canister and the tab in turn, and the user navigates, captures, selects *)
(* and signs out meanwhile.                                                *)
(*                                                                         *)
(* One tab is modelled: badges, generations and lookups are kept per tab.  *)
(* The source of a page, once saved, stays.                                *)
(***************************************************************************)
EXTENDS Integers, FiniteSets

CONSTANTS
  Pages,
  Databases,
  Role,          \* user -> database -> "Owner", "Writer", "Reader" or "none"
  Saved,         \* <<database, page>> with a source at the start
  MaxLookups,    \* badge lookups explored
  MaxEvents      \* navigations, settings saves, captures explored

VARIABLES
  tab,           \* [url, badge, about, by]: about is the <<database, page>> the badge
                 \* speaks of and by who painted it
  config,        \* databaseId of the synced settings, or None
  active,        \* generation of the tab in activeBadgeRefreshes, 0 when cleared
  next,          \* nextBadgeRefreshGeneration
  lookup,        \* id -> badge lookup
  capture,       \* the click handler and task of the tab's page
  popup,         \* [user, pc, stored, list]
  saved,         \* <<database, page>> with a source
  raced,         \* ghost: a lookup was overtaken between its last check and its badge
  events

vars == <<tab, config, active, next, lookup, capture, popup, saved, raced, events>>

None == "none"
Lookups == 1..MaxLookups
NoLookup == [pc |-> "idle", generation |-> 0, page |-> None, database |-> None]
NoCapture == [pc |-> "idle", page |-> None, database |-> None, ok |-> FALSE]
NoList == [d \in {} |-> TRUE]

Event == events < MaxEvents /\ events' = events + 1

\* setActionBadge
setBadge(text, by, database, page) ==
  tab' = [tab EXCEPT !.badge = text, !.about = <<database, page>>, !.by = by]
Blank(page) == [url |-> page, badge |-> "", about |-> <<None, None>>, by |-> None]
clearBadge == tab' = Blank(tab.url)

\* A lookup that has made its last check paints what it found: ghost of that.
Overtaken == raced \/ \E l \in Lookups : lookup[l].pc = "paint"

-----------------------------------------------------------------------------
(* Badge lookups                                                           *)

\* refreshTabBadge up to its first await: the badge is cleared.
refreshTabBadge(l) ==
  /\ lookup[l].pc = "idle" /\ \A m \in 1..(l - 1) : lookup[m].pc # "idle"
  /\ next' = next + 1 /\ active' = next + 1
  /\ clearBadge
  /\ lookup' = [lookup EXCEPT ![l] = [pc |-> "config", generation |-> next + 1, page |-> tab.url, database |-> None]]
  /\ raced' = Overtaken
  /\ UNCHANGED <<config, capture, popup, saved, events>>

LoadsConfig(l) ==
  /\ lookup[l].pc = "config"
  /\ lookup' = [lookup EXCEPT ![l].pc = IF config = None THEN "over" ELSE "find", ![l].database = config]
  /\ UNCHANGED <<tab, config, active, next, capture, popup, saved, raced, events>>

\* findWebSource, webSourceExists
FindsSource(l, fails) ==
  /\ lookup[l].pc = "find"
  /\ lookup' = [lookup EXCEPT ![l].pc =
       IF fails \/ <<lookup[l].database, lookup[l].page>> \notin saved THEN "over" ELSE "check"]
  /\ UNCHANGED <<tab, config, active, next, capture, popup, saved, raced, events>>

IsLatest_Always(l) == TRUE

IsLatest(l) == active = lookup[l].generation

\* badgeRefreshIsCurrent: the generation is compared, then the tab is asked.
badgeRefreshIsCurrent(l) ==
  /\ lookup[l].pc = "check"
  /\ lookup' = [lookup EXCEPT ![l].pc = IF IsLatest(l) /\ tab.url = lookup[l].page THEN "paint" ELSE "over"]
  /\ UNCHANGED <<tab, config, active, next, capture, popup, saved, raced, events>>

PaintsIn(l) ==
  /\ lookup[l].pc = "paint"
  /\ setBadge("IN", "lookup", lookup[l].database, lookup[l].page)
  /\ lookup' = [lookup EXCEPT ![l].pc = "over"]
  /\ UNCHANGED <<config, active, next, capture, popup, saved, raced, events>>

\* The tab moves: the browser drops its badge and tabs.onUpdated follows.
Navigate(page) ==
  /\ Event /\ page # tab.url
  /\ tab' = Blank(page)
  /\ raced' = Overtaken
  /\ UNCHANGED <<config, active, next, lookup, capture, popup, saved>>

-----------------------------------------------------------------------------
(* Captures                                                                *)

\* handleActionClick: no database is a setup badge; else the capture starts.
Click ==
  /\ Event /\ capture.pc = "idle"
  /\ next' = next + 1 /\ active' = next + 1
  /\ IF config = None
     THEN setBadge("SET", "click", None, tab.url) /\ UNCHANGED capture
     ELSE /\ setBadge("...", "click", config, tab.url)
          /\ capture' = [pc |-> "task", page |-> tab.url, database |-> config, ok |-> FALSE]
  /\ raced' = Overtaken
  /\ UNCHANGED <<config, lookup, popup, saved>>

\* The task is accepted, or the capture fails before; painted on the page
\* only, whatever database is selected by now.
ClickEnds(accepted) ==
  /\ capture.pc = "task"
  /\ IF tab.url = capture.page
     THEN setBadge(IF accepted THEN "IN" ELSE "ERR", "click", capture.database, capture.page) ELSE UNCHANGED tab
  /\ capture' = [capture EXCEPT !.pc = IF accepted THEN "running" ELSE "idle"]
  /\ UNCHANGED <<config, active, next, lookup, popup, saved, raced, events>>

\* The offscreen document saves the source and queues its generation, or not.
TaskEnds(ok) ==
  /\ capture.pc = "running"
  /\ saved' = IF ok THEN saved \cup {<<capture.database, capture.page>>} ELSE saved
  /\ capture' = [capture EXCEPT !.pc = "result", !.ok = ok]
  /\ UNCHANGED <<tab, config, active, next, lookup, popup, raced, events>>

sourceCaptureTaskBadgeIsCurrent_TabOnly == tab.url = capture.page

\* The settings and the tab are read together.
sourceCaptureTaskBadgeIsCurrent == tab.url = capture.page /\ config = capture.database

\* handleSourceCaptureTaskResult
TaskResult ==
  /\ capture.pc = "result"
  /\ IF sourceCaptureTaskBadgeIsCurrent
     THEN setBadge(IF capture.ok THEN "IN" ELSE "ERR", "result", capture.database, capture.page) ELSE UNCHANGED tab
  /\ capture' = NoCapture
  /\ UNCHANGED <<config, active, next, lookup, popup, saved, raced, events>>

-----------------------------------------------------------------------------
(* Popup                                                                   *)

\* save-config: the setting is stored, then all lookups are invalidated and
\* all badges cleared.
SaveSelection(d) ==
  /\ config' = d
  /\ next' = next + 1 /\ active' = 0
  /\ clearBadge
  /\ raced' = Overtaken

\* normalizeWritableDatabases: active databases the user may write to; whether
\* the balance allows an update is part of the entry.
normalizeWritableDatabases(user, status, funded) ==
  LET writable == {d \in Databases : status[d] = "Active" /\ Role[user][d] \in {"Owner", "Writer"}}
  IN [d \in writable |-> funded[d]]

\* loginWithInternetIdentity and auth-session-changed
Login(user) ==
  /\ Event /\ popup.user = None /\ popup.pc = "idle"
  /\ popup' = [popup EXCEPT !.user = user, !.pc = "load"]
  /\ next' = next + 1 /\ active' = 0
  /\ clearBadge
  /\ raced' = Overtaken
  /\ UNCHANGED <<config, lookup, capture, saved>>

\* load: the popup is opened again by a user who is still signed in.
OpenPopup ==
  /\ Event /\ popup.user # None /\ popup.pc = "idle"
  /\ popup' = [popup EXCEPT !.pc = "load"]
  /\ UNCHANGED <<tab, config, active, next, lookup, capture, saved, raced>>

\* refreshAuthAndDatabases: the settings ...
PopupLoads ==
  /\ popup.pc = "load"
  /\ popup' = [popup EXCEPT !.pc = "list", !.stored = config]
  /\ UNCHANGED <<tab, config, active, next, lookup, capture, saved, raced, events>>

\* ... then the databases.
PopupLists(status, funded) ==
  /\ popup.pc = "list"
  /\ popup' = [popup EXCEPT !.pc = "select", !.list = normalizeWritableDatabases(popup.user, status, funded)]
  /\ UNCHANGED <<tab, config, active, next, lookup, capture, saved, raced, events>>

Selectable(list) == {d \in DOMAIN list : list[d]}

\* renderDatabaseOptions: the preferred one, else the first selectable.
renderDatabaseOptions(list, preferred) ==
  IF Selectable(list) = {} THEN {None}
  ELSE IF preferred \in Selectable(list) THEN {preferred} ELSE Selectable(list)

\* A selection that is not the stored one is saved.
PopupSelects(d) ==
  /\ popup.pc = "select"
  /\ d \in renderDatabaseOptions(popup.list, popup.stored)
  /\ popup' = [popup EXCEPT !.pc = "idle"]
  /\ IF d = None \/ d # popup.stored THEN SaveSelection(d)
     ELSE UNCHANGED <<tab, config, active, next, raced>>
  /\ UNCHANGED <<lookup, capture, saved, events>>

\* The user picks an entry of the list.
ChooseDatabase(d) ==
  /\ Event /\ popup.pc = "idle" /\ popup.user # None
  /\ d \in Selectable(popup.list)
  /\ SaveSelection(d)
  /\ UNCHANGED <<lookup, capture, popup, saved>>

\* logoutInternetIdentity, the empty selection, auth-session-changed
Logout ==
  /\ Event /\ popup.user # None /\ popup.pc = "idle"
  /\ SaveSelection(None)
  /\ popup' = [popup EXCEPT !.user = None, !.list = NoList]
  /\ UNCHANGED <<lookup, capture, saved>>

-----------------------------------------------------------------------------

Init ==
  /\ tab = Blank(CHOOSE p \in Pages : TRUE)
  /\ config = None
  /\ active = 0 /\ next = 0
  /\ lookup = [l \in Lookups |-> NoLookup]
  /\ capture = NoCapture
  /\ popup = [user |-> None, pc |-> "idle", stored |-> None, list |-> NoList]
  /\ saved = Saved
  /\ raced = FALSE
  /\ events = 0

Next ==
  \/ \E l \in Lookups :
       \/ refreshTabBadge(l)
       \/ LoadsConfig(l)
       \/ \E b \in BOOLEAN : FindsSource(l, b)
       \/ badgeRefreshIsCurrent(l)
       \/ PaintsIn(l)
  \/ \E p \in Pages : Navigate(p)
  \/ Click
  \/ \E b \in BOOLEAN : ClickEnds(b) \/ TaskEnds(b)
  \/ TaskResult
  \/ \E u \in DOMAIN Role : Login(u)
  \/ OpenPopup
  \/ PopupLoads
  \/ \E status \in [Databases -> {"Active", "Pending"}], funded \in [Databases -> BOOLEAN] :
       PopupLists(status, funded)
  \/ \E d \in Databases \cup {None} : PopupSelects(d)
  \/ \E d \in Databases : ChooseDatabase(d)
  \/ Logout

Spec == Init /\ [][Next]_vars

-----------------------------------------------------------------------------
(* Properties                                                              *)

\* IN on a tab says that the source of the page it shows is in the selected
\* database, whatever lookups, captures, navigations and selections overlap.
\* The one gap is a lookup overtaken while it asks for the tab's address, after
\* it compared its generation.  The IN of a click only says that the capture
\* was accepted; the result of the capture, or its failure, replaces it.
BadgeIsCurrent ==
  tab.badge = "IN" /\ tab.by # "click" /\ ~raced => tab.about = <<config, tab.url>> /\ tab.about \in saved
=============================================================================
