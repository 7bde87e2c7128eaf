---------------------------- MODULE DashboardHome ----------------------------
(***************************************************************************)
(* The dashboard's list of databases and its "create database" saga: the   *)
(* refresh that reads lists and the free-grant status, the creation, the   *)
(* payment for a database that was created pending, and what is opened     *)
(* afterwards, while the user signs in and out, leaves the page, or uses   *)
(* the free grant in another tab.                                          *)
(***************************************************************************)
EXTENDS Naturals, FiniteSets

CONSTANTS Users,         \* Internet Identity principals
          Wallet,        \* the account of the connected wallet
          MaxDatabases, MaxRefreshes, MaxEvents

None == "none"
Ids == 1..MaxDatabases

VARIABLES principal,     \* who is signed in
          ref,           \* principalRef: frozen once the page is left
          mounted,       \* the page is on display
          list,          \* the rows and the free-grant status on display
          refreshes,     \* refreshes in flight
          seq,           \* refreshSeqRef
          dialog,        \* createDialogOpen
          choice,        \* the funding source that is selected
          creation,      \* the submission in flight (creating)
          databases,     \* external: the canister's databases
          grants,        \* external: principals whose free grant is used
          payments,      \* external: purchases of cycles this page made
          opened,        \* databases the page navigated to
          events         \* disturbances so far (bound)

vars == <<principal, ref, mounted, list, refreshes, seq, dialog, choice, creation,
          databases, grants, payments, opened, events>>

canister == <<databases, grants, payments>>

NoCreation == [pc |-> None]
NoDatabase == [owner |-> None, status |-> None]

Init == /\ principal \in Users /\ ref = principal /\ mounted = TRUE
        /\ list = [by |-> None, rows |-> {}, load |-> "loading", grant |-> None,
                   grantBy |-> None, grantError |-> FALSE]
        /\ refreshes = {[id |-> 1, by |-> principal, read |-> FALSE, rows |-> {},
                         grant |-> None]}
        /\ seq = 1
        /\ dialog = FALSE /\ choice = "wallet" /\ creation = NoCreation
        /\ databases = [d \in Ids |-> NoDatabase]
        /\ grants \in SUBSET Users
        /\ payments = {} /\ opened = {} /\ events = 0

Disturb == events < MaxEvents /\ events' = events + 1

-----------------------------------------------------------------------------
(* refreshDatabases *)

StartRefresh(by) ==
  /\ seq < MaxRefreshes
  /\ seq' = seq + 1
  /\ refreshes' = refreshes \cup {[id |-> seq + 1, by |-> by, read |-> FALSE,
                                   rows |-> {}, grant |-> None]}

\* external: the queries of a refresh, answered from one state of the canister.
RefreshRead(r) ==
  /\ ~r.read
  /\ refreshes' = (refreshes \ {r}) \cup
       {[r EXCEPT !.read = TRUE,
                  !.rows = {d \in Ids : r.by # None /\ databases[d].owner = r.by},
                  !.grant = IF r.by = None THEN None
                            ELSE IF r.by \in grants THEN "used" ELSE "available"]}
  /\ UNCHANGED <<principal, ref, mounted, list, seq, dialog, choice, creation, canister,
                 opened, events>>

\* A mutant of IsCurrentRefresh: an overtaken refresh is applied all the same.
IsCurrentRefresh_Any(r) == TRUE

IsCurrentRefresh(r) == r.id = seq

\* The answers settle one by one: the grant status may be missing, which closes
\* the dialog; both lists missing is an error that keeps the rows.
RefreshAnswer(r) ==
  /\ r.read
  /\ refreshes' = refreshes \ {r}
  /\ IF ~IsCurrentRefresh(r) \/ ~mounted THEN UNCHANGED <<list, dialog>>
     ELSE \E grantOk \in BOOLEAN, listsOk \in BOOLEAN :
            /\ r.by = None => grantOk /\ listsOk
            /\ dialog' = (dialog /\ grantOk)
            /\ list' = [list EXCEPT
                 !.grant = IF grantOk THEN r.grant ELSE None,
                 !.grantBy = r.by, !.grantError = ~grantOk,
                 !.rows = IF listsOk THEN r.rows ELSE @,
                 !.by = IF listsOk THEN r.by ELSE @,
                 !.load = IF listsOk THEN "ready" ELSE "error"]
  /\ UNCHANGED <<principal, ref, mounted, seq, choice, creation, canister, opened,
                 events>>

Loading(l) == [l EXCEPT !.load = "loading", !.grantError = FALSE]

\* "Retry free grant check".
RetryGrantCheck ==
  /\ mounted /\ list.grantError /\ list.load # "loading"
  /\ StartRefresh(principal)
  /\ list' = Loading(list)
  /\ UNCHANGED <<principal, ref, mounted, dialog, choice, creation, canister, opened,
                 events>>

\* Sign in or out: a refresh for the new principal; signing out forgets the
\* grant status and closes the dialog.
ChangePrincipal(p) ==
  /\ Disturb
  /\ p # principal /\ (principal = None \/ p = None)
  /\ principal' = p
  /\ IF mounted
       THEN /\ StartRefresh(p) /\ ref' = p
            /\ list' = IF p = None THEN [Loading(list) EXCEPT !.grant = None] ELSE Loading(list)
            /\ dialog' = (dialog /\ p # None)
       ELSE UNCHANGED <<ref, list, dialog, seq, refreshes>>
  /\ UNCHANGED <<mounted, choice, creation, canister, opened>>

\* The page is left: its submission goes on, and principalRef no longer follows
\* the session.
LeavePage ==
  /\ Disturb /\ mounted
  /\ mounted' = FALSE /\ dialog' = FALSE
  /\ UNCHANGED <<principal, ref, list, refreshes, seq, choice, creation, canister, opened>>

-----------------------------------------------------------------------------
(* The dialog *)

CreateUnavailable == principal = None \/ list.load = "loading" \/ list.grant = None
                       \/ list.grantError

OpenDialog ==
  /\ mounted /\ ~dialog /\ creation = NoCreation /\ ~CreateUnavailable
  /\ \E d \in Ids : databases[d] = NoDatabase
  /\ dialog' = TRUE /\ choice' = "wallet"
  /\ UNCHANGED <<principal, ref, mounted, list, refreshes, seq, creation, canister,
                 opened, events>>

SelectSource(s) ==
  /\ dialog /\ creation = NoCreation /\ choice # s
  /\ choice' = s
  /\ UNCHANGED <<principal, ref, mounted, list, refreshes, seq, dialog, creation,
                 canister, opened, events>>

CancelDialog ==
  /\ dialog /\ creation = NoCreation
  /\ dialog' = FALSE
  /\ UNCHANGED <<principal, ref, mounted, list, refreshes, seq, choice, creation,
                 canister, opened, events>>

\* The mode is that of the grant status on display; the source the one selected.
FundingAtSubmit ==
  IF list.grant = "available" THEN "free-grant"
  ELSE IF choice = "wallet" THEN Wallet ELSE principal

Submit ==
  /\ dialog /\ mounted /\ creation = NoCreation /\ ~CreateUnavailable
  /\ creation' = [pc |-> "create", by |-> principal, funding |-> FundingAtSubmit,
                  grantBy |-> list.grantBy, id |-> 0, active |-> FALSE, wait |-> 0]
  /\ UNCHANGED <<principal, ref, mounted, list, refreshes, seq, dialog, choice, canister,
                 opened, events>>

-----------------------------------------------------------------------------
(* createDatabase *)

Running(pc) == creation.pc = pc

\* external: create_database applies the free grant if it is unused.
CanisterCreates ==
  /\ Running("create")
  /\ \/ \E d \in Ids :
          /\ databases[d] = NoDatabase /\ \A e \in 1..(d - 1) : databases[e] # NoDatabase
          /\ LET free == creation.by \notin grants IN
             /\ databases' = [databases EXCEPT ![d] =
                  [owner |-> creation.by, status |-> IF free THEN "active" ELSE "pending"]]
             /\ grants' = grants \cup {creation.by}
             /\ creation' = [creation EXCEPT !.pc = "created", !.id = d, !.active = free]
     \/ creation' = [creation EXCEPT !.pc = "failed"] /\ UNCHANGED <<databases, grants>>
  /\ UNCHANGED <<principal, ref, mounted, list, refreshes, seq, dialog, choice, payments,
                 opened, events>>

\* external: the same principal creates a database elsewhere.
OtherTabCreates(u) ==
  /\ Disturb
  /\ u \notin grants
  /\ grants' = grants \cup {u}
  /\ UNCHANGED <<principal, ref, mounted, list, refreshes, seq, dialog, choice, creation,
                 databases, payments, opened>>

SubmissionIsCurrent == ref = creation.by
Ended == creation' = NoCreation

\* A wallet cannot change while it is creating: its controls are locked.
FundingSourceIsCurrent ==
  IF creation.funding \in {"free-grant"} \cup Users THEN SubmissionIsCurrent ELSE TRUE

NeedsPayment == ~creation.active /\ creation.funding # "free-grant"

\* The answer to create_database: an active database is refreshed and opened, a
\* pending one of a free-grant submission is only shown, another one is paid for.
Created ==
  /\ Running("created")
  /\ IF ~SubmissionIsCurrent THEN Ended /\ UNCHANGED <<list, refreshes, seq, dialog>>
     ELSE /\ dialog' = FALSE
          /\ IF NeedsPayment
               THEN creation' = [creation EXCEPT !.pc = "pay"]
                    /\ UNCHANGED <<list, refreshes, seq>>
               ELSE /\ StartRefresh(principal)
                    /\ list' = IF mounted THEN Loading(list) ELSE list
                    /\ creation' = [creation EXCEPT !.wait = seq + 1,
                                      !.pc = IF creation.active THEN "open" ELSE "show"]
  /\ UNCHANGED <<principal, ref, mounted, choice, canister, opened, events>>

CreationFailed ==
  /\ Running("failed")
  /\ Ended
  /\ list' = IF SubmissionIsCurrent /\ mounted THEN [list EXCEPT !.load = "error"] ELSE list
  /\ UNCHANGED <<principal, ref, mounted, refreshes, seq, dialog, choice, canister,
                 opened, events>>

\* purchaseCyclesWithFundingSource: it is paid, and the database activated, or it
\* fails before or after the ledger took the money.
Pay ==
  /\ Running("pay")
  /\ \E ok \in BOOLEAN, paid \in BOOLEAN :
       /\ ok => paid
       /\ payments' = IF paid
            THEN payments \cup {[id |-> creation.id, from |-> creation.funding,
                                 by |-> creation.by, was |-> databases[creation.id].status]}
            ELSE payments
       /\ databases' = IF paid THEN [databases EXCEPT ![creation.id].status = "active"]
                       ELSE databases
       /\ creation' = [creation EXCEPT !.pc = IF ok THEN "paid" ELSE "unpaid"]
  /\ UNCHANGED <<principal, ref, mounted, list, refreshes, seq, dialog, choice, grants,
                 opened, events>>

\* After the balance was read again: the list is refreshed, unless the principal
\* or the source changed meanwhile.
AfterPayment ==
  /\ creation.pc \in {"paid", "unpaid"}
  /\ IF ~SubmissionIsCurrent \/ ~FundingSourceIsCurrent
       THEN Ended /\ UNCHANGED <<list, refreshes, seq>>
       ELSE /\ StartRefresh(principal)
            /\ list' = IF mounted THEN Loading(list) ELSE list
            /\ creation' = [creation EXCEPT !.wait = seq + 1,
                              !.pc = IF Running("paid") THEN "open" ELSE "show"]
  /\ UNCHANGED <<principal, ref, mounted, dialog, choice, canister, opened, events>>

Refreshed == \A r \in refreshes : r.id # creation.wait

\* A mutant of MayOpen: the principal is not compared again.
MayOpen_Always == TRUE

MayOpen == SubmissionIsCurrent /\ FundingSourceIsCurrent

\* The database's /Knowledge is opened once the refresh is over.
OpenDatabase ==
  /\ Running("open") /\ Refreshed
  /\ Ended
  /\ opened' = IF MayOpen
       THEN opened \cup {[id |-> creation.id, as |-> principal, by |-> creation.by,
                          mounted |-> mounted, status |-> databases[creation.id].status]}
       ELSE opened
  /\ mounted' = (mounted /\ ~MayOpen) /\ dialog' = (dialog /\ ~MayOpen)
  /\ UNCHANGED <<principal, ref, list, refreshes, seq, choice, canister, events>>

\* The pending database is named in a message; its payment can be retried in Cycles.
ShowPending ==
  /\ Running("show") /\ Refreshed
  /\ Ended
  /\ UNCHANGED <<principal, ref, mounted, list, refreshes, seq, dialog, choice, canister,
                 opened, events>>

Next ==
  \/ \E r \in refreshes : RefreshRead(r) \/ RefreshAnswer(r)
  \/ RetryGrantCheck \/ LeavePage \/ OpenDialog \/ CancelDialog \/ Submit
  \/ \E p \in Users \cup {None} : ChangePrincipal(p)
  \/ \E s \in {"wallet", "ii"} : SelectSource(s)
  \/ \E u \in Users : OtherTabCreates(u)
  \/ CanisterCreates \/ Created \/ CreationFailed \/ Pay \/ AfterPayment
  \/ OpenDatabase \/ ShowPending

Spec == Init /\ [][Next]_vars

-----------------------------------------------------------------------------
\* A payment is for the pending database of the principal whose submission it is,
\* and no database is paid for twice by the page.
PaysOwnPending ==
  /\ \A p \in payments :
       p.was = "pending" /\ databases[p.id].owner = p.by /\ p.from \in {Wallet, p.by}
  /\ \A p, q \in payments : p.id = q.id => p = q

\* What is opened from the page is active and belongs to who is signed in.
OpensOwnActive ==
  \A o \in opened : o.status = "active" /\ (o.mounted => o.as = o.by)

\* A list shown as loaded, and a grant status that can be submitted with, were
\* read for the principal who is signed in.
ListIsOwn ==
  mounted => /\ list.load = "ready" => list.by = principal
             /\ ~CreateUnavailable => list.grantBy = principal

\* The home page (dashboard-home-client.tsx): whose list, what is paid, what opens.
HomeIsSound == PaysOwnPending /\ OpensOwnActive /\ ListIsOwn
=============================================================================
