----------------------------- MODULE KinicWallet -----------------------------
(***************************************************************************)
(* Paying in KINIC from the browser: the shared session (Internet Identity *)
(* principal, connected OISY or Plug wallet, the two displayed balances),  *)
(* the cycles, market listing and profile pages, and the purchase the      *)
(* first two run: read the allowance, read the rate, check the wallet's    *)
(* account, approve, call the canister, refresh the balance.  The user,    *)
(* the wallet extension, the ledger and the canister act between any two   *)
(* of these steps.  React's effects run in the step that causes them.      *)
(***************************************************************************)
EXTENDS Naturals, FiniteSets, Sequences

CONSTANTS Pages,        \* pages to start on: cycles, market, profile
          Users,        \* Internet Identity principals
          Accounts,     \* accounts of the wallet extensions
          Targets,      \* databases that can be funded
          Prices,       \* amounts a user may type, prices a seller may set
          Rates,        \* cycles per KINIC the controller may set
          Entitled,     \* users who own the listing already
          Funds,        \* KINIC every account starts with
          Fee,          \* KINIC_LEDGER_FEE_E8S
          MaxBuys, MaxReads, MaxEvents

Providers == {"oisy", "plug"}
Payers == Users \cup Accounts
None == "none"

VARIABLES page,        \* the page: cycles, market or profile
          session,     \* principal, wallet, provider being connected
          stored,      \* sessionStorage: the wallet to restore
          selected,    \* chosen funding source: "ii" or "wallet"
          shown,       \* displayed balance of each source
          reads,       \* balance reads in flight, and whether the latest
          status,      \* status of the page
          view,        \* what the page shows: target, amount
          previews,    \* principals whose purchase preview is in flight
          buys,        \* purchases submitted, with their progress
          active,      \* external: account selected in each extension
          ledger,      \* external: funds and allowance of every payer
          canister,    \* external: rate, price, entitled principals
          charges,     \* external: payments the canister collected
          events       \* disturbances so far (bound)

vars == <<page, session, stored, selected, shown, reads, status, view,
          previews, buys, active, ledger, canister, charges, events>>

outside == <<active, ledger, canister, charges>>

\* What may disturb a purchase is counted: at most MaxEvents such steps.
Disturb == events < MaxEvents /\ events' = events + 1

NoWallet == [provider |-> None, account |-> None]
NoBalance == [st |-> "none", of |-> None, amount |-> 0]
Loading(a) == [st |-> "loading", of |-> a, amount |-> 0]

Init == /\ page \in Pages
        /\ session = [principal |-> None, wallet |-> NoWallet, busy |-> None]
        /\ stored = NoWallet
        /\ selected = "ii"
        /\ shown = [s \in {"ii", "wallet"} |-> NoBalance]
        /\ reads = {}
        /\ status = "idle"
        /\ canister = [rate |-> CHOOSE r \in Rates : \A x \in Rates : x <= r,
                       price |-> CHOOSE n \in Prices : TRUE, entitled |-> Entitled]
        /\ view = [target |-> None, amount |-> canister.price]
        /\ previews = {}
        /\ buys = <<>>
        /\ active = [p \in Providers |-> CHOOSE a \in Accounts : TRUE]
        /\ ledger = [a \in Payers |-> [funds |-> Funds, allowance |-> 0]]
        /\ charges = {}
        /\ events = 0

-----------------------------------------------------------------------------
(* Displayed balances *)

\* The account whose balance a source displays now.
AccountOf(source, s) == IF source = "ii" THEN s.principal ELSE s.wallet.account

\* A new sequence number makes every read of the source before it void.
Superseded(source) ==
  {[r EXCEPT !.latest = @ /\ r.source # source] : r \in reads}

\* A read starts: the old balance is withdrawn and the read is now the latest.
\* It is skipped when the source is no longer this account.
StartRead(source, account, s) ==
  IF account = None \/ AccountOf(source, s) # account
    THEN UNCHANGED <<shown, reads>>
    ELSE /\ shown' = [shown EXCEPT ![source] = Loading(account)]
         /\ reads' = Superseded(source) \cup
              {[source |-> source, account |-> account, latest |-> TRUE,
                provider |-> IF source = "ii" THEN "ii" ELSE s.wallet.provider]}

\* The source is gone: nothing is displayed and late answers are void.
ClearRead(source) ==
  /\ shown' = [shown EXCEPT ![source] = NoBalance]
  /\ reads' = Superseded(source)

\* A mutant of IsCurrentBalance.
IsCurrentBalance_AnyRead(r) == TRUE

IsCurrentBalance(r) ==
  /\ r.latest
  /\ AccountOf(r.source, session) = r.account
  /\ r.source = "wallet" => session.wallet.provider = r.provider

BalanceAnswer ==
  \E r \in reads, ok \in BOOLEAN :
    /\ reads' = reads \ {r}
    /\ shown' = IF ~IsCurrentBalance(r) THEN shown
                ELSE [shown EXCEPT ![r.source] =
                       IF ok THEN [st |-> "ready", of |-> r.account,
                                   amount |-> ledger[r.account].funds]
                             ELSE [st |-> "error", of |-> r.account, amount |-> 0]]
    /\ UNCHANGED <<page, session, stored, selected, status, view, previews,
                   buys, outside, events>>

\* The selected option's refresh button.
RefreshBalance ==
  /\ Disturb
  /\ Cardinality(reads) < MaxReads
  /\ status # "running"
  /\ shown[selected].st \notin {"none", "loading"}
  /\ selected = "wallet" => session.busy = None
  /\ StartRead(selected, AccountOf(selected, session), session)
  /\ UNCHANGED <<page, session, stored, selected, status, view, previews, buys,
                 outside>>

-----------------------------------------------------------------------------
(* Signing in and out, connecting a wallet *)

Running == status = "running"

\* Only the cycles page locks the sign in and sign out buttons.
AuthLocked == Running /\ page = "cycles"

\* Signing in also reads whether the principal already has access (market).
SyncAuth(u) ==
  /\ session.principal = None
  /\ Cardinality(reads) < MaxReads
  /\ ~AuthLocked
  /\ session' = [session EXCEPT !.principal = u]
  /\ StartRead("ii", u, session')
  /\ previews' = IF page = "market" THEN previews \cup {u} ELSE previews
  /\ UNCHANGED <<page, stored, selected, status, view, buys, outside, events>>

\* Signing out forgets the wallet and its stored copy too; the funding choice
\* falls back to Internet Identity, and the market page to "idle".
Logout ==
  /\ Disturb
  /\ session.principal # None
  /\ ~AuthLocked
  /\ session' = [principal |-> None, wallet |-> NoWallet, busy |-> None]
  /\ stored' = NoWallet
  /\ selected' = "ii"
  /\ shown' = [s \in {"ii", "wallet"} |-> NoBalance]
  /\ reads' = {[r EXCEPT !.latest = FALSE] : r \in reads}
  /\ status' = IF page = "market" THEN "idle" ELSE status
  /\ UNCHANGED <<page, view, previews, buys, outside>>

StartConnect(p) ==
  /\ session.busy = None
  /\ ~Running
  /\ session' = [session EXCEPT !.busy = p]
  /\ UNCHANGED <<page, stored, selected, shown, reads, status, view,
                 previews, buys, outside, events>>

\* The extension answers with its selected account, or the connection fails.
Connected(p) ==
  /\ session.busy = p
  /\ Cardinality(reads) < MaxReads
  /\ LET w == [provider |-> p, account |-> active[p]]
         s == [session EXCEPT !.wallet = w, !.busy = None]
     IN /\ session' = s
        /\ stored' = w
        /\ StartRead("wallet", w.account, s)
  /\ UNCHANGED <<page, selected, status, view, previews, buys, outside, events>>

\* The balance is withdrawn together with the error, also when the wallet of an
\* earlier connection is still there.
ConnectFailed ==
  /\ session.busy # None
  /\ session' = [session EXCEPT !.busy = None]
  /\ shown' = [shown EXCEPT !["wallet"] = [@ EXCEPT !.st = "error", !.amount = 0]]
  /\ UNCHANGED <<page, stored, selected, reads, status, view, previews,
                 buys, outside, events>>

DisconnectWallet ==
  /\ Disturb
  /\ ~Running
  /\ session.busy = None
  /\ session.wallet # NoWallet
  /\ session' = [session EXCEPT !.wallet = NoWallet]
  /\ stored' = NoWallet
  /\ selected' = "ii"
  /\ ClearRead("wallet")
  /\ UNCHANGED <<page, status, view, previews, buys, outside>>

SelectSource(c) ==
  /\ c # selected
  /\ ~Running
  /\ AccountOf(c, session) # None
  /\ selected' = c
  /\ UNCHANGED <<page, session, stored, shown, reads, status, view,
                 previews, buys, outside, events>>

\* The cycles page's target comes from the URL and may be replaced at any time,
\* also while a purchase runs; the amount is a text field.
SelectTarget(t, n) ==
  /\ page = "cycles"
  /\ view # [target |-> t, amount |-> n]
  /\ view' = [target |-> t, amount |-> n]
  /\ UNCHANGED <<page, session, stored, selected, shown, reads, status,
                 previews, buys, outside, events>>

\* The market page's check on entry.  Its answer is applied whatever happened
\* since, a purchase that started meanwhile included.
PreviewAnswer ==
  \E u \in previews, ok \in BOOLEAN :
    /\ previews' = previews \ {u}
    /\ status' = IF ok THEN IF u \in canister.entitled THEN "success" ELSE "idle"
                 ELSE IF status = "success" THEN status ELSE "idle"
    /\ UNCHANGED <<page, session, stored, selected, shown, reads, view, buys,
                   outside, events>>

-----------------------------------------------------------------------------
(* A purchase *)

RequiredBalance(n) == n + 2 * Fee
AllowanceForTransfer(n) == n + Fee

BalanceCanFund(b, n) == b.st = "ready" /\ b.amount >= RequiredBalance(n)

Source == IF selected = "ii" THEN [provider |-> "ii", account |-> session.principal]
          ELSE session.wallet

\* A source that is there, whose balance is known and covers the amount and two
\* fees, and no connection under way for it.
SourceReady ==
  /\ Source.account # None
  /\ BalanceCanFund(shown[selected], view.amount)
  /\ selected = "wallet" => session.busy = None

\* The purchase buttons of the two pages.
CyclesButton == page = "cycles" /\ ~Running /\ SourceReady /\ view.target # None

MarketButton ==
  /\ page = "market"
  /\ status \notin {"running", "success"}
  /\ SourceReady
  /\ session.principal # None

\* What a purchase captures from the page when the button is pressed.
NewBuy ==
  [pc |-> IF page = "market" THEN "preview" ELSE "allowance",
   user |-> session.principal, source |-> Source, target |-> view.target,
   amount |-> view.amount, min |-> 0, seen |-> 0, approve |-> FALSE,
   switched |-> FALSE, reply |-> None, result |-> None]

Submit ==
  /\ Len(buys) < MaxBuys
  /\ CyclesButton \/ MarketButton
  /\ buys' = Append(buys, NewBuy)
  /\ status' = "running"
  /\ UNCHANGED <<page, session, stored, selected, shown, reads, view,
                 previews, outside, events>>

Step(i, b) == buys' = [buys EXCEPT ![i] = b]
Finish(i, r) == Step(i, [buys[i] EXCEPT !.pc = "done", !.result = r])

SourceIsCurrent(b) ==
  IF b.source.provider = "ii" THEN session.principal = b.user
                              ELSE session.wallet = b.source

PrincipalIsCurrent(b) == session.principal = b.user

\* market_preview_purchase: the answer decides before any money moves.
Preview(i) ==
  LET b == buys[i] IN
  /\ b.pc = "preview"
  /\ \/ /\ ~PrincipalIsCurrent(b)
        /\ status' = "idle" /\ Finish(i, "idle")
        /\ UNCHANGED view
     \/ /\ PrincipalIsCurrent(b)
        /\ status' = "error" /\ Finish(i, "error")      \* the preview fails
        /\ UNCHANGED view
     \/ /\ PrincipalIsCurrent(b) /\ b.user \in canister.entitled
        /\ status' = "success" /\ Finish(i, "entitled")
        /\ UNCHANGED view
     \/ /\ PrincipalIsCurrent(b) /\ b.user \notin canister.entitled
        /\ canister.price # b.amount
        /\ status' = "error" /\ Finish(i, "error")
        /\ view' = [view EXCEPT !.amount = canister.price]
     \/ /\ PrincipalIsCurrent(b) /\ b.user \notin canister.entitled
        /\ canister.price = b.amount
        /\ Step(i, [b EXCEPT !.pc = "allowance"])
        /\ UNCHANGED <<status, view>>
  /\ UNCHANGED <<page, session, stored, selected, shown, reads, previews,
                 outside, events>>

\* prepareKinicAllowance: an allowance that covers the transfer and has not
\* expired is used as it is.
AllowanceIsUsable(a, n) == ledger[a].allowance >= AllowanceForTransfer(n)

PrepareAllowance(i) ==
  LET b == buys[i] IN
  /\ b.pc = "allowance"
  /\ Step(i, [b EXCEPT !.pc = IF page = "cycles" THEN "rate" ELSE "account",
                       !.seen = ledger[b.source.account].allowance,
                       !.approve = ~AllowanceIsUsable(b.source.account, b.amount)])
  /\ UNCHANGED <<page, session, stored, selected, shown, reads, status, view,
                 previews, outside, events>>

\* A mutant of MinExpectedCycles.
MinExpectedCycles_None(b) == 0

\* prepareCyclesPurchase: the cycles the amount buys at the rate read last.
MinExpectedCycles(b) == b.amount * canister.rate

PrepareRate(i) ==
  LET b == buys[i] IN
  /\ b.pc = "rate"
  /\ Step(i, [b EXCEPT !.pc = "account", !.min = MinExpectedCycles(b)])
  /\ UNCHANGED <<page, session, stored, selected, shown, reads, status, view,
                 previews, outside, events>>

\* A mutant of OwnerUnchanged.
OwnerUnchanged_Any(b) == TRUE

\* The extension must still offer the account the purchase was prepared for.
OwnerUnchanged(b) ==
  b.source.provider \in Providers => active[b.source.provider] = b.source.account

CheckAccount(i) ==
  LET b == buys[i] IN
  /\ b.pc = "account"
  /\ Step(i, IF OwnerUnchanged(b)
               THEN [b EXCEPT !.pc = IF b.approve THEN "approve" ELSE "call"]
               ELSE [b EXCEPT !.pc = "answered", !.reply = "error"])
  /\ UNCHANGED <<page, session, stored, selected, shown, reads, status, view,
                 previews, outside, events>>

\* Who signs: the identity; the account the extension has selected; with OISY,
\* which is told the sender, also that sender.
Signers(b) == CASE b.source.provider = "ii" -> {b.source.account}
                [] b.source.provider = "plug" -> {active["plug"]}
                [] b.source.provider = "oisy" -> {active["oisy"], b.source.account}

\* The ledger's AllowanceChanged and InsufficientFunds.
ApproveRefused(b, a) == ledger[a].allowance # b.seen \/ ledger[a].funds < Fee

\* icrc2_approve with expected_allowance.
Approve(i) ==
  LET b == buys[i] IN
  /\ b.pc = "approve"
  /\ \E a \in Signers(b) :
       IF ~ApproveRefused(b, a)
         THEN /\ ledger' = [ledger EXCEPT ![a] =
                   [funds |-> @.funds - Fee,
                    allowance |-> AllowanceForTransfer(b.amount)]]
              /\ Step(i, [b EXCEPT !.pc = "call"])
         ELSE /\ Step(i, [b EXCEPT !.pc = "answered", !.reply = "error"])
              /\ UNCHANGED ledger
  /\ UNCHANGED <<page, session, stored, selected, shown, reads, status, view,
                 previews, active, canister, charges, events>>

\* What the canister checks before it collects the payment.
Accepts(b, a) ==
  /\ ledger[a].allowance >= AllowanceForTransfer(b.amount)
  /\ ledger[a].funds >= AllowanceForTransfer(b.amount)
  /\ page = "cycles" => b.amount * canister.rate >= b.min
  /\ page = "market" => canister.price = b.amount /\ b.user \notin canister.entitled

\* A mutant of ReplyMatches.
ReplyMatches_Any(b, a) == TRUE

\* The canister collects the payment and credits the database or the principal.
\* OISY's answer is believed only for this sender, method and argument.
ReplyMatches(b, a) == b.source.provider # "oisy" \/ a = b.source.account

Charge(i, a) == [buy |-> i, payer |-> a, target |-> buys[i].target,
                 user |-> buys[i].user, amount |-> buys[i].amount,
                 cycles |-> buys[i].amount * canister.rate]

Call(i) ==
  LET b == buys[i] IN
  /\ b.pc = "call"
  /\ \E a \in Signers(b) :
       IF Accepts(b, a)
         THEN /\ charges' = charges \cup {Charge(i, a)}
              /\ ledger' = [ledger EXCEPT ![a] =
                   [funds |-> @.funds - AllowanceForTransfer(b.amount),
                    allowance |-> @.allowance - AllowanceForTransfer(b.amount)]]
              /\ canister' = IF page = "market"
                               THEN [canister EXCEPT !.entitled = @ \cup {b.user}]
                               ELSE canister
              /\ Step(i, [b EXCEPT !.pc = "answered",
                                   !.reply = IF ReplyMatches(b, a) THEN "ok" ELSE "error"])
         ELSE /\ Step(i, [b EXCEPT !.pc = "answered",
                  !.reply = IF page = "market" /\ b.user \in canister.entitled
                              THEN "entitled" ELSE "error"])
              /\ UNCHANGED <<charges, ledger, canister>>
  /\ UNCHANGED <<page, session, stored, selected, shown, reads, status, view,
                 previews, active, events>>

\* Any of the reads and calls may fail; the reply of the call may be lost.
StepFails(i) ==
  LET b == buys[i] IN
  /\ b.pc \in {"allowance", "rate", "account", "approve", "call", "answered"}
  /\ b.reply # "error"
  /\ Step(i, [b EXCEPT !.pc = "answered", !.reply = "error"])
  /\ UNCHANGED <<page, session, stored, selected, shown, reads, status, view,
                 previews, outside, events>>

\* After the answer, the balance of the source is read again if it is still the
\* source; the page waits for that read.
RefreshAfter(i) ==
  LET b == buys[i] IN
  /\ b.pc = "answered"
  /\ Cardinality(reads) < MaxReads
  /\ Step(i, [b EXCEPT !.pc = "refresh"])
  /\ IF SourceIsCurrent(b)
       THEN StartRead(IF b.source.provider = "ii" THEN "ii" ELSE "wallet",
                      b.source.account, session)
       ELSE UNCHANGED <<shown, reads>>
  /\ UNCHANGED <<page, session, stored, selected, status, view, previews, outside, events>>

\* What the page reports: nothing when the source is not the current one any
\* more, a notice or an error, or success.
Outcome(b) ==
  IF ~SourceIsCurrent(b) \/ (page = "market" /\ ~PrincipalIsCurrent(b)) THEN "idle"
  ELSE CASE b.reply = "ok"       -> "success"
         [] b.reply = "entitled" -> "success"
         [] b.reply = "error"    -> IF page = "cycles" THEN "notice" ELSE "error"

Settle(i) ==
  LET b == buys[i]
      r == IF b.source.provider = "ii" THEN "ii" ELSE "wallet" IN
  /\ b.pc = "refresh"
  /\ SourceIsCurrent(b) => shown[r].st # "loading"
  /\ status' = Outcome(b)
  /\ Finish(i, IF Outcome(b) = "success" /\ b.reply = "entitled" THEN "entitled"
               ELSE Outcome(b))
  /\ UNCHANGED <<page, session, stored, selected, shown, reads, view,
                 previews, outside, events>>

-----------------------------------------------------------------------------
(* Sending KINIC from the profile page *)

\* The page asks for no known balance: the ledger refuses what is not covered.
SendKinic ==
  /\ page = "profile"
  /\ Len(buys) < MaxBuys
  /\ ~Running
  /\ session.principal # None
  /\ buys' = Append(buys, [NewBuy EXCEPT !.pc = "transfer",
                            !.source = [provider |-> "ii", account |-> session.principal]])
  /\ status' = "running"
  /\ UNCHANGED <<page, session, stored, selected, shown, reads, view, previews,
                 outside, events>>

\* icrc1_transfer, signed by the identity of the click; its answer may be lost.
Transfer(i) ==
  LET b == buys[i]
      cost == b.amount + Fee IN
  /\ b.pc = "transfer"
  /\ IF ledger[b.user].funds >= cost
       THEN /\ ledger' = [ledger EXCEPT ![b.user].funds = @ - cost]
            /\ charges' = charges \cup {Charge(i, b.user)}
            /\ \E r \in {"ok", "error"} :
                 Step(i, [b EXCEPT !.pc = "sent", !.reply = r])
       ELSE /\ Step(i, [b EXCEPT !.pc = "sent", !.reply = "error"])
            /\ UNCHANGED <<ledger, charges>>
  /\ UNCHANGED <<page, session, stored, selected, shown, reads, status, view,
                 previews, active, canister, events>>

TransferAnswered(i) ==
  LET b == buys[i] IN
  /\ b.pc = "sent"
  /\ Cardinality(reads) < MaxReads
  /\ status' = IF b.reply = "ok" THEN "success" ELSE "error"
  /\ Finish(i, status')
  /\ IF b.reply = "ok" THEN StartRead("ii", b.user, session)
                        ELSE UNCHANGED <<shown, reads>>
  /\ UNCHANGED <<page, session, stored, selected, view, previews, outside, events>>

-----------------------------------------------------------------------------
(* The world outside the page *)

\* An approval expires.
ExpireAllowance(a) ==
  /\ Disturb
  /\ ledger[a].allowance > 0
  /\ ledger' = [ledger EXCEPT ![a].allowance = 0]
  /\ UNCHANGED <<page, session, stored, selected, shown, reads, status, view,
                 previews, buys, active, canister, charges>>

\* The tab is reloaded: purchases lose their page, what was sent stays sent;
\* the wallet comes back from sessionStorage and with it the wallet choice.
Reload ==
  /\ Disturb
  /\ session' = [session EXCEPT !.wallet = stored, !.busy = None]
  /\ selected' = IF stored = NoWallet THEN "ii" ELSE "wallet"
  /\ LET of == [s \in {"ii", "wallet"} |-> AccountOf(s, session')] IN
       /\ shown' = [s \in {"ii", "wallet"} |->
                     IF of[s] = None THEN NoBalance ELSE Loading(of[s])]
       /\ reads' = {[source |-> s, account |-> of[s], latest |-> TRUE,
                     provider |-> IF s = "ii" THEN "ii" ELSE stored.provider] :
                    s \in {x \in {"ii", "wallet"} : of[x] # None}}
  /\ status' = "idle"
  /\ view' = IF page = "market" THEN [view EXCEPT !.amount = canister.price] ELSE view
  /\ previews' = IF page = "market" /\ session.principal # None
                   THEN {session.principal} ELSE {}
  /\ buys' = [i \in 1..Len(buys) |-> [buys[i] EXCEPT !.pc = "done"]]
  /\ UNCHANGED <<page, stored, active, ledger, canister, charges>>

\* The user selects another account in an extension.
SwitchAccount(p, a) ==
  /\ Disturb
  /\ a # active[p]
  /\ active' = [active EXCEPT ![p] = a]
  /\ buys' = [i \in 1..Len(buys) |->
       [buys[i] EXCEPT !.switched = @ \/ buys[i].pc \in {"approve", "call"}]]
  /\ UNCHANGED <<page, session, stored, selected, shown, reads, status, view,
                 previews, ledger, canister, charges>>

\* The controller changes the rate, the seller the price.
Reprice(r, n) ==
  /\ Disturb
  /\ canister' = [canister EXCEPT !.rate = r, !.price = n]
  /\ canister' # canister
  /\ UNCHANGED <<page, session, stored, selected, shown, reads, status, view,
                 previews, buys, active, ledger, charges>>

Next == \/ BalanceAnswer \/ RefreshBalance
        \/ \E u \in Users : SyncAuth(u)
        \/ Logout
        \/ \E p \in Providers : StartConnect(p) \/ Connected(p)
        \/ ConnectFailed \/ DisconnectWallet
        \/ \E c \in {"ii", "wallet"} : SelectSource(c)
        \/ \E t \in Targets, n \in Prices : SelectTarget(t, n)
        \/ PreviewAnswer \/ Submit
        \/ \E i \in 1..Len(buys) :
             \/ Preview(i) \/ PrepareAllowance(i) \/ PrepareRate(i)
             \/ CheckAccount(i) \/ Approve(i) \/ Call(i) \/ StepFails(i)
             \/ RefreshAfter(i) \/ Settle(i)
        \/ \E i \in 1..Len(buys) : Transfer(i) \/ TransferAnswered(i)
        \/ SendKinic \/ Reload
        \/ \E a \in Payers : ExpireAllowance(a)
        \/ \E p \in Providers, a \in Accounts : SwitchAccount(p, a)
        \/ \E r \in Rates, n \in Prices : Reprice(r, n)

Spec == Init /\ [][Next]_vars

-----------------------------------------------------------------------------
\* A click pays at most once, the amount and for the target that were on the
\* page when it was made, and for no fewer cycles than the rate read for it.
PaidAsShown ==
  \A c \in charges :
    /\ \A d \in charges : d.buy = c.buy => d = c
    /\ c.target = buys[c.buy].target
    /\ c.amount = buys[c.buy].amount
    /\ c.user = buys[c.buy].user
    /\ page = "cycles" => c.cycles >= buys[c.buy].min /\ buys[c.buy].min > 0

\* The payer is the account that was selected at the click, unless the user
\* selects another one in the extension after the check.
PaidBySource ==
  \A c \in charges : buys[c.buy].switched \/ c.payer = buys[c.buy].source.account

\* "success" is reported only for a purchase the canister collected from that
\* source (a switched Plug account aside).
SuccessIsPaid ==
  \A i \in 1..Len(buys) :
    buys[i].result = "success" =>
      \E c \in charges : c.buy = i /\ (c.payer = buys[i].source.account
                                        \/ buys[i].source.provider = "plug")

\* A balance on display is the balance of the account that is displayed with it.
BalancesAreOwn ==
  \A s \in {"ii", "wallet"} :
    shown[s].st = "ready" => shown[s].of = AccountOf(s, session)

\* Paying from the browser (lib/kinic-wallet.ts, app-session-provider.tsx): one
\* payment per click, on the terms shown, from the account shown; success only
\* for a collected payment; every displayed balance belongs to its account.
WalletIsFaithful ==
  PaidAsShown /\ PaidBySource /\ SuccessIsPaid /\ BalancesAreOwn
=============================================================================
