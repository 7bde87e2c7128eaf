------------------------------ MODULE McpAuth ------------------------------
(***************************************************************************)
(* OAuth state of the MCP worker: one client registration and one          *)
(* authorization session, each a record of its own Durable Object          *)
(* (McpAuthStateV5), and the worker requests that drive them.  A storage   *)
(* transaction, and a read that is followed by a put with no other await,  *)
(* is one step; everything that awaits another object or Internet Identity *)
(* is split there, and a request may die at every split.                   *)
(*                                                                         *)
(* Data: the code is credential 0, the refresh token of the g-th issue is  *)
(* credential g, and so is the access token of that issue.  Hashes are     *)
(* compared by comparing what they hash.  Times are small naturals.        *)
(***************************************************************************)
EXTENDS Naturals, FiniteSets

CONSTANTS
    Calls,          \* identities of concurrent requests
    ConnectTTL, CodeTTL, AccessTTL, SessionTTL, ReviewTTL,
    DelegationTTL, RefreshMargin,
    MaxRotations,   \* MAX_REFRESH_ROTATIONS
    LastStart,      \* bound: no authorization starts after this time
    MaxTime,        \* bound on the clock, at least LastStart + SessionTTL
    MaxVersion      \* bound on the deployments that rotate the review version

\* What a proof needs to know of the limits.
AuthConstants == MaxRotations \in Nat

VARIABLES
    now,
    client,     \* the client's record, or NoRecord
    session,    \* the session's record, or NoRecord
    alarm,      \* when the session's object is woken, or Never
    call,       \* each request's progress
    version,    \* MCP_REVIEW_ACCESS_VERSION of the running deployment
    minter,     \* the request leading the SingleFlight, or Nobody
    opened,     \* history: the session's id has been used
    redeemed,   \* history: how often each credential bought tokens
    replayed    \* history: a spent credential of the live session came back

vars == <<now, client, session, alarm, call, version, minter, opened, redeemed,
          replayed>>

NoRecord == [kind |-> "none"]
Never == MaxTime + 1
Nobody == "nobody"
Idle == [op |-> "idle"]

Credentials == 0..MaxRotations + 1
Earliest(a, b) == IF a <= b THEN a ELSE b

Scopes == {{"read", "write"}, {"read", "offline"}}

Live(s) == s.kind = "session" /\ s.phase = "active"
AccessTokens == IF session.kind = "session" THEN 1..session.issues ELSE {}

Goto(c, step) == call' = [call EXCEPT ![c] = step]
Return(c) == Goto(c, Idle)

-----------------------------------------------------------------------------
\* The client's object.

\* getClient: every lookup prolongs the registration by its idle time, which is
\* longer (180 days) than any session (30 days).  So a registration that was
\* used to open a session outlives it, and only the end of the clock is late
\* enough for a lookup to find it expired.
ClientAlive == client.kind = "client" /\ now < MaxTime

RegisterClient(refreshes) ==
    /\ client = NoRecord /\ now = 0
    /\ client' = [kind |-> "client", refreshes |-> refreshes]
    /\ UNCHANGED <<now, session, alarm, call, version, minter, opened, redeemed, replayed>>

\* A lookup that finds the client expired deletes it and refuses the request.
ClientForgotten(c) ==
    /\ call[c] = Idle /\ client.kind = "client" /\ ~ClientAlive
    /\ client' = NoRecord
    /\ UNCHANGED <<now, session, alarm, call, version, minter, opened, redeemed, replayed>>

-----------------------------------------------------------------------------
\* Authorization: from the consent page to the code.

Authorize(c, scope) ==
    /\ call[c] = Idle /\ ClientAlive
    /\ session = NoRecord /\ ~opened /\ now <= LastStart
    /\ \A d \in Calls : call[d].op # "create"
    /\ Goto(c, [op |-> "create", at |-> now, scope |-> scope])
    /\ UNCHANGED <<now, client, session, alarm, version, minter, opened, redeemed, replayed>>

Fresh(at, scope) ==
    [kind |-> "session", phase |-> "pending", claimed |-> FALSE, scope |-> scope,
     created |-> at, connectExp |-> at + ConnectTTL, codeExp |-> Never, exp |-> Never,
     source |-> "none", permission |-> "none", version |-> 0,
     access |-> 0, accessExp |-> 0, refresh |-> 0, spent |-> {}, issues |-> 0,
     delegation |-> 0]

CreateSession(c) ==
    /\ call[c].op = "create"
    /\ session = NoRecord
    /\ session' = Fresh(call[c].at, call[c].scope)
    /\ alarm' = session'.connectExp
    /\ Return(c)
    /\ opened' = TRUE
    /\ UNCHANGED <<now, client, version, minter, redeemed, replayed>>

\* inspectPendingConnect and claimConnect accept the same records.
Claimable(s) ==
    s.kind = "session" /\ s.phase = "pending" /\ s.connectExp > now /\ ~s.claimed

\* The reviewer's form is checked, its password compared, and then claimed.
ReviewInspect(c) ==
    /\ call[c] = Idle /\ Claimable(session)
    /\ Goto(c, [op |-> "review"])
    /\ UNCHANGED <<now, client, session, alarm, version, minter, opened, redeemed, replayed>>

Claim(c, source) ==
    /\ IF source = "review" THEN call[c].op = "review" ELSE call[c] = Idle
    /\ Claimable(session)
    /\ session' = [session EXCEPT !.phase = "redeeming", !.claimed = TRUE]
    /\ Goto(c, IF source = "review"
               THEN [op |-> "complete", source |-> source, permission |-> "all", grant |-> Never]
               ELSE [op |-> "redeem"])
    /\ UNCHANGED <<now, client, alarm, version, minter, opened, redeemed, replayed>>

ClaimRefused(c) ==
    /\ call[c].op = "review" /\ ~Claimable(session)
    /\ Return(c)
    /\ UNCHANGED <<now, client, session, alarm, version, minter, opened, redeemed, replayed>>

\* redeemRegistration: Internet Identity answers with a permission and an expiry.
Redeem(c, permission, grant) ==
    /\ call[c].op = "redeem" /\ grant > now
    /\ Goto(c, [op |-> "complete", source |-> "ii", permission |-> permission, grant |-> grant])
    /\ UNCHANGED <<now, client, session, alarm, version, minter, opened, redeemed, replayed>>

RedeemFails(c) ==
    /\ call[c].op = "redeem"
    /\ Goto(c, [op |-> "invalidate"])
    /\ UNCHANGED <<now, client, session, alarm, version, minter, opened, redeemed, replayed>>

SessionExpiry(s, source, grant) ==
    Earliest(Earliest(s.created + SessionTTL, grant),
             s.created + (IF source = "review" THEN ReviewTTL ELSE SessionTTL))

Authorized(s, source, permission, expiry) ==
    [s EXCEPT !.phase = "authorized", !.codeExp = Earliest(now + CodeTTL, expiry),
              !.exp = expiry, !.source = source, !.permission = permission,
              !.version = IF source = "review" THEN version ELSE 0,
              !.scope = IF permission = "queries" THEN @ \ {"write"} ELSE @]

Completable(s) == s.kind = "session" /\ s.phase = "redeeming" /\ s.connectExp > now

\* completeAuthorization, for both ways to sign in.
CompleteAuthorization(c) ==
    LET in == call[c]
        expiry == SessionExpiry(session, in.source, in.grant)
    IN  /\ in.op = "complete"
        /\ \/ /\ ~Completable(session)
              /\ Goto(c, [op |-> "invalidate"]) /\ UNCHANGED session
           \/ /\ Completable(session) /\ expiry <= now
              /\ session' = [session EXCEPT !.phase = "invalid"]
              /\ Goto(c, [op |-> "invalidate"])
           \/ /\ Completable(session) /\ expiry > now
              /\ session' = Authorized(session, in.source, in.permission, expiry)
              /\ Goto(c, [op |-> "alarm", at |-> session'.codeExp])
        /\ UNCHANGED <<now, client, alarm, version, minter, opened, redeemed, replayed>>

-----------------------------------------------------------------------------
\* The token endpoint.

VersionIsCurrent(s) == s.source = "ii" \/ s.version = version

\* authenticateClient, then the session's object is called with the time now.  A
\* request for another client, redirect or PKCE challenge is refused unchanged.
PresentCode(c) ==
    /\ call[c] = Idle /\ ClientAlive
    /\ session.kind = "session" /\ session.phase \in {"authorized", "active", "invalid"}
    /\ Goto(c, [op |-> "exchange", at |-> now, refreshes |-> client.refreshes])
    /\ UNCHANGED <<now, client, session, alarm, version, minter, opened, redeemed, replayed>>

PresentRefresh(c, g) ==
    /\ call[c] = Idle /\ ClientAlive /\ client.refreshes
    /\ session.kind = "session" /\ (g \in session.spent \/ g = session.refresh) /\ g > 0
    /\ Goto(c, [op |-> "rotate", at |-> now, cred |-> g])
    /\ UNCHANGED <<now, client, session, alarm, version, minter, opened, redeemed, replayed>>

CodeConsumed(s, at) == Live(s) /\ s.exp > at

CodeRedeemable(s, at) ==
    s.kind = "session" /\ s.phase = "authorized" /\ s.codeExp > at /\ s.exp > at /\ VersionIsCurrent(s)

\* storeInitialTokens: which sessions get a refresh token.
InitialTokens(s, at, refreshes) ==
    [s EXCEPT !.phase = "active", !.codeExp = Never, !.issues = 1, !.access = 1,
              !.accessExp = Earliest(at + AccessTTL, s.exp),
              !.refresh = IF refreshes /\ (s.source = "ii" \/ "offline" \in s.scope) THEN 1 ELSE 0]

Replay(c) ==
    /\ session' = [session EXCEPT !.phase = "invalid"]
    /\ replayed' = TRUE
    /\ Goto(c, [op |-> "invalidate"])
    /\ UNCHANGED redeemed

ExchangeCode(c) ==
    LET in == call[c] IN
    /\ in.op = "exchange"
    /\ \/ CodeConsumed(session, in.at) /\ Replay(c)
       \/ /\ CodeRedeemable(session, in.at)
          /\ session' = InitialTokens(session, in.at, in.refreshes)
          /\ redeemed' = [redeemed EXCEPT ![0] = @ + 1]
          /\ Goto(c, [op |-> "alarm", at |-> session'.exp])
          /\ UNCHANGED replayed
       \/ /\ ~CodeConsumed(session, in.at) /\ ~CodeRedeemable(session, in.at)
          /\ Return(c) /\ UNCHANGED <<session, redeemed, replayed>>
    /\ UNCHANGED <<now, client, alarm, version, minter, opened>>

Rotatable(s, at) == Live(s) /\ s.exp > at /\ VersionIsCurrent(s)

\* Mutant: the presented token stays the current one.
RotatedTokens_KeepsRefresh(s, at) == [s EXCEPT !.issues = @ + 1, !.access = s.issues + 1]

\* storeRotatedTokens: the presented token is spent, the next pair replaces it.
RotatedTokens(s, at) ==
    [s EXCEPT !.spent = @ \cup {s.refresh}, !.issues = @ + 1, !.refresh = s.issues + 1,
              !.access = s.issues + 1, !.accessExp = Earliest(at + AccessTTL, s.exp)]

RotateRefreshToken(c) ==
    LET in == call[c] IN
    /\ in.op = "rotate"
    /\ \/ /\ Rotatable(session, in.at)
          /\ \/ in.cred \in session.spent
             \/ in.cred = session.refresh /\ Cardinality(session.spent) >= MaxRotations
          /\ Replay(c)
       \/ /\ Rotatable(session, in.at)
          /\ in.cred \notin session.spent /\ in.cred = session.refresh
          /\ Cardinality(session.spent) < MaxRotations
          /\ session' = RotatedTokens(session, in.at)
          /\ redeemed' = [redeemed EXCEPT ![in.cred] = @ + 1]
          /\ Goto(c, [op |-> "alarm", at |-> session'.exp])
          /\ UNCHANGED replayed
       \/ /\ IF Rotatable(session, in.at) THEN in.cred \notin session.spent \cup {session.refresh}
                                         ELSE TRUE
          /\ Return(c) /\ UNCHANGED <<session, redeemed, replayed>>
    /\ UNCHANGED <<now, client, alarm, version, minter, opened>>

-----------------------------------------------------------------------------
\* The object's deadline and its end.

SetAlarm(c) ==
    /\ call[c].op = "alarm"
    /\ alarm' = call[c].at
    /\ Return(c)
    /\ UNCHANGED <<now, client, session, version, minter, opened, redeemed, replayed>>

Invalidate(c) ==
    /\ call[c].op = "invalidate"
    /\ session' = NoRecord /\ alarm' = Never
    /\ Return(c)
    /\ UNCHANGED <<now, client, version, minter, opened, redeemed, replayed>>

\* recordDeadline: an invalid record is due at once.
Deadline(s) ==
    CASE s.phase \in {"pending", "redeeming"} -> s.connectExp
      [] s.phase = "authorized" -> s.codeExp
      [] s.phase = "active" -> s.exp
      [] OTHER -> 0

\* Mutant: an alarm that comes early is not set again.
AlarmFires_NotRearmed ==
    /\ alarm <= now
    /\ session' = IF session = NoRecord \/ Deadline(session) <= now THEN NoRecord ELSE session
    /\ alarm' = Never
    /\ UNCHANGED <<now, client, call, version, minter, opened, redeemed, replayed>>

AlarmFires ==
    /\ alarm <= now
    /\ IF session = NoRecord \/ Deadline(session) <= now
       THEN session' = NoRecord /\ alarm' = Never
       ELSE session' = session /\ alarm' = Deadline(session)
    /\ UNCHANGED <<now, client, call, version, minter, opened, redeemed, replayed>>

-----------------------------------------------------------------------------
\* Access tokens and the delegation they are served with.

Validates(s, g, at) ==
    /\ Live(s) /\ s.access = g /\ s.accessExp > at /\ s.exp > at
    /\ VersionIsCurrent(s)

\* authenticateAccessToken; a tool call needs a delegation, a listing does not.
Authenticate(c, g) ==
    /\ call[c] = Idle
    /\ Validates(session, g, now) /\ session.source = "ii"
    /\ Goto(c, [op |-> "cached", at |-> now])
    /\ UNCHANGED <<now, client, session, alarm, version, minter, opened, redeemed, replayed>>

NeedsRefresh(s, at) == s.delegation <= at + RefreshMargin

\* readCachedDelegation: served from the record, or on to a new delegation.
ReadCachedDelegation(c) ==
    /\ call[c].op = "cached"
    /\ IF session.kind = "session" /\ session.delegation > 0
       THEN IF NeedsRefresh(session, call[c].at)
            THEN Goto(c, [op |-> "clear", seen |-> session.delegation, at |-> call[c].at])
            ELSE Return(c)
       ELSE Goto(c, [op |-> "mint", at |-> call[c].at])
    /\ UNCHANGED <<now, client, session, alarm, version, minter, opened, redeemed, replayed>>

\* clearCachedDelegation only clears what was read.
ClearCachedDelegation(c) ==
    /\ call[c].op = "clear"
    /\ session' = IF session.kind = "session" /\ session.delegation = call[c].seen
                  THEN [session EXCEPT !.delegation = 0] ELSE session
    /\ Goto(c, [op |-> "mint", at |-> call[c].at])
    /\ UNCHANGED <<now, client, alarm, version, minter, opened, redeemed, replayed>>

\* SingleFlight.run: the first caller mints, later ones wait for its answer.
MintStart(c) ==
    /\ call[c].op = "mint"
    /\ IF minter # Nobody
       THEN Goto(c, [op |-> "joined"]) /\ UNCHANGED minter
       ELSE IF Live(session) /\ session.exp > call[c].at
       THEN Goto(c, [op |-> "minting", seen |-> session]) /\ minter' = c
       ELSE Return(c) /\ UNCHANGED minter
    /\ UNCHANGED <<now, client, session, alarm, version, opened, redeemed, replayed>>

\* Everyone waiting on the flight gets its answer.
Answered(c) ==
    call' = [d \in Calls |-> IF d = c \/ call[d].op = "joined" THEN Idle ELSE call[d]]

\* Mutant: the delegation goes into the record read before the await.
WithDelegation_FirstRead(c) == [call[c].seen EXCEPT !.delegation = now + DelegationTTL]

\* The record is read again after Internet Identity answered.
WithDelegation(c) ==
    IF Live(session) /\ session.exp > now
    THEN [session EXCEPT !.delegation = now + DelegationTTL] ELSE session

MintSucceeds(c) ==
    /\ call[c].op = "minting"
    /\ session' = WithDelegation(c)
    /\ Answered(c) /\ minter' = Nobody
    /\ UNCHANGED <<now, client, alarm, version, opened, redeemed, replayed>>

\* Unauthorized at Internet Identity ends the session; other errors do not.
MintFails(c, ended) ==
    /\ call[c].op = "minting"
    /\ IF ended THEN session' = NoRecord /\ alarm' = Never ELSE UNCHANGED <<session, alarm>>
    /\ Answered(c) /\ minter' = Nobody
    /\ UNCHANGED <<now, client, version, opened, redeemed, replayed>>

-----------------------------------------------------------------------------
\* The environment.

\* The worker's or the object's request is lost; the object's flight with it.
RequestDies(c) ==
    /\ call[c] # Idle
    /\ IF minter = c THEN Answered(c) /\ minter' = Nobody ELSE Return(c) /\ UNCHANGED minter
    /\ UNCHANGED <<now, client, session, alarm, version, opened, redeemed, replayed>>

Redeploy ==
    /\ version < MaxVersion
    /\ version' = version + 1
    /\ UNCHANGED <<now, client, session, alarm, call, minter, opened, redeemed, replayed>>

Tick ==
    /\ now < MaxTime
    /\ now' = now + 1
    /\ UNCHANGED <<client, session, alarm, call, version, minter, opened, redeemed, replayed>>

Init ==
    /\ now = 0 /\ client = NoRecord /\ session = NoRecord /\ alarm = Never
    /\ call = [c \in Calls |-> Idle] /\ version = 1 /\ minter = Nobody
    /\ opened = FALSE /\ redeemed = [g \in Credentials |-> 0] /\ replayed = FALSE

Next ==
    \/ \E r \in BOOLEAN : RegisterClient(r)
    \/ \E c \in Calls :
        \/ ClientForgotten(c)
        \/ \E s \in Scopes : Authorize(c, s)
        \/ CreateSession(c) \/ ReviewInspect(c) \/ ClaimRefused(c)
        \/ \E s \in {"ii", "review"} : Claim(c, s)
        \/ \E p \in {"queries", "all"}, g \in {MaxTime, now + 1} : Redeem(c, p, g)
        \/ RedeemFails(c) \/ CompleteAuthorization(c)
        \/ PresentCode(c)
        \/ \E g \in 1..MaxRotations + 1 : PresentRefresh(c, g)
        \/ ExchangeCode(c) \/ RotateRefreshToken(c)
        \/ SetAlarm(c) \/ Invalidate(c)
        \/ \E g \in AccessTokens : Authenticate(c, g)
        \/ ReadCachedDelegation(c) \/ ClearCachedDelegation(c) \/ MintStart(c)
        \/ MintSucceeds(c) \/ \E e \in BOOLEAN : MintFails(c, e)
        \/ RequestDies(c)
    \/ AlarmFires \/ Redeploy \/ Tick

Spec == Init /\ [][Next]_vars

\* The clock advances and a due alarm is delivered; requests promise nothing.
FairSpec == Spec /\ WF_vars(Tick) /\ WF_vars(AlarmFires)

-----------------------------------------------------------------------------
\* Properties.

\* The code and every refresh token buy at most one pair of tokens, however the
\* token endpoint's retries, lost answers and concurrent requests interleave.
RedeemedOnce == \A g \in Credentials : redeemed[g] <= 1

\* Once a spent code or refresh token of the live session has come back, the
\* session never serves again: neither a transaction that was under way, nor a
\* delegation that Internet Identity was minting, nor an alarm revives it.
ReplayEndsSession == replayed => session = NoRecord \/ session.phase = "invalid"

\* A session never outlives its deadlines in storage, even when the request that
\* should have moved the alarm or deleted the record died before it did.
SessionIsCleaned == session # NoRecord ~> session = NoRecord
=============================================================================
