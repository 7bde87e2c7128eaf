---------------------------- MODULE McpAuthProofs ----------------------------
(***************************************************************************)
(* A code and a refresh token buy tokens once, and a replay ends the       *)
(* session, for any number of concurrent requests and of rotations and for *)
(* any lifetimes.                                                          *)
(*                                                                         *)
(* The session's record decides alone: what was redeemed is spent in it as *)
(* long as it is active, and nothing makes a record again once its id was  *)
(* used. Times, versions and delegations only refuse.                      *)
(***************************************************************************)
EXTENDS McpAuth, TLAPS

Fields ==
  {"kind", "phase", "claimed", "scope", "created", "connectExp", "codeExp", "exp", "source",
   "permission", "version", "access", "accessExp", "refresh", "spent", "issues", "delegation"}

Record(s) == DOMAIN s = Fields /\ s = [f \in Fields |-> s[f]]

BeforeTokens == {"pending", "redeeming", "authorized"}

\* What was redeemed is the code, or is spent; the current refresh token is not.
SpendsIn(s, bought) ==
  /\ s.issues \in Nat /\ s.refresh \in 0..s.issues /\ s.spent \subseteq 0..s.issues
  /\ s.refresh \notin s.spent
  /\ \A g \in Credentials : bought[g] = 1 => g = 0 \/ g \in s.spent

\* A record before, with and after its tokens.
SessionIs(s, bought, again) ==
  /\ Record(s) /\ s.kind = "session"
  /\ s.phase \in BeforeTokens \union {"active", "invalid"}
  /\ s.phase \in BeforeTokens => /\ s.spent = {} /\ s.refresh = 0 /\ s.issues = 0
                                 /\ \A g \in Credentials : bought[g] = 0
  /\ s.phase = "active" => SpendsIn(s, bought)
  /\ s.phase # "invalid" => ~again

\* One request may be about to create the session, and only the first one.
CallInv ==
  /\ DOMAIN call = Calls /\ call = [c \in Calls |-> call[c]]
  /\ \A c \in Calls : call[c].op = "rotate" => call[c].cred \in 1..MaxRotations + 1
  /\ \A c \in Calls : call[c].op = "create" => ~opened
  /\ \A c, d \in Calls : call[c].op = "create" /\ call[d].op = "create" => c = d

AuthInv ==
  /\ redeemed \in [Credentials -> {0, 1}]
  /\ opened \in BOOLEAN /\ replayed \in BOOLEAN
  /\ session # NoRecord => opened /\ SessionIs(session, redeemed, replayed)
  /\ ~opened => ~replayed /\ \A g \in Credentials : redeemed[g] = 0
  /\ CallInv

-----------------------------------------------------------------------------
(* Requests                                                                *)

\* A request that goes on to a step other than creating the session.
LEMMA GoesInv ==
  ASSUME CallInv, NEW c \in Calls, NEW step, Goto(c, step), step.op # "create",
         step.op = "rotate" => step.cred \in 1..MaxRotations + 1,
         opened' = opened \/ call[c].op = "create"
  PROVE  CallInv'
<1>1. \A d \in Calls : call'[d] = IF d = c THEN step ELSE call[d]
  BY DEF Goto, CallInv
<1>2. DOMAIN call' = Calls /\ call' = [d \in Calls |-> call'[d]]
  BY DEF Goto, CallInv
<1>3. QED
  BY <1>1, <1>2 DEF CallInv

\* A request that is over.
LEMMA ReturnInv ==
  ASSUME CallInv, NEW c \in Calls, Return(c), opened' = opened \/ call[c].op = "create"
  PROVE  CallInv'
<1>1. Idle.op = "idle"
  BY DEF Idle
<1>2. QED
  BY <1>1, GoesInv DEF Return

\* The requests that waited for a delegation are over with the one that minted it.
LEMMA AnsweredInv ==
  ASSUME CallInv, NEW c \in Calls, Answered(c), opened' = opened
  PROVE  CallInv'
<1>1. Idle.op = "idle"
  BY DEF Idle
<1>2. \A d \in Calls : call'[d] \in {Idle, call[d]}
  BY DEF Answered
<1>3. DOMAIN call' = Calls /\ call' = [d \in Calls |-> call'[d]]
  BY DEF Answered
<1>4. QED
  BY <1>1, <1>2, <1>3 DEF CallInv

\* A step that leaves the record or deletes it.
LEMMA QuietInv ==
  ASSUME AuthInv, CallInv', session' \in {session, NoRecord},
         UNCHANGED <<opened, redeemed, replayed>>
  PROVE  AuthInv'
  BY DEF AuthInv, SessionIs, SpendsIn

\* A step that changes the record and redeems nothing.
LEMMA RecordInv ==
  ASSUME AuthInv, CallInv', session # NoRecord, session' # NoRecord,
         SessionIs(session', redeemed, replayed),
         UNCHANGED <<opened, redeemed, replayed>>
  PROVE  AuthInv'
  BY DEF AuthInv, SessionIs, SpendsIn

\* A record is told from none by its kind.
LEMMA RecordFacts ==
  ASSUME AuthInv, session.kind = "session"
  PROVE  session # NoRecord /\ opened /\ SessionIs(session, redeemed, replayed)
  BY DEF AuthInv, NoRecord

\* A step of requests that leaves the record and its history alone.
LEMMA RequestInv ==
  ASSUME AuthInv, NEW c \in Calls,
         \/ ClientForgotten(c) \/ ReviewInspect(c) \/ ClaimRefused(c) \/ RedeemFails(c)
         \/ \E p \in {"queries", "all"}, g \in {MaxTime, now + 1} : Redeem(c, p, g)
         \/ PresentCode(c)
         \/ \E g \in 1..MaxRotations + 1 : PresentRefresh(c, g)
         \/ SetAlarm(c) \/ Invalidate(c)
         \/ \E g \in AccessTokens : Authenticate(c, g)
         \/ ReadCachedDelegation(c) \/ MintStart(c)
         \/ \E e \in BOOLEAN : MintFails(c, e)
         \/ RequestDies(c)
  PROVE  AuthInv'
<1>0. CallInv
  BY DEF AuthInv
<1>1. session' \in {session, NoRecord} /\ UNCHANGED <<opened, redeemed, replayed>>
  BY DEF ClientForgotten, ReviewInspect, ClaimRefused, RedeemFails, Redeem,
         PresentCode, PresentRefresh, SetAlarm, Invalidate, Authenticate, ReadCachedDelegation,
         MintStart, MintFails, RequestDies
<1>2. \/ call' = call \/ Return(c) \/ Answered(c)
      \/ \E step : /\ Goto(c, step) /\ step.op # "create"
                   /\ step.op = "rotate" => step.cred \in 1..MaxRotations + 1
  <2>1. CASE ClientForgotten(c) \/ ClaimRefused(c) \/ SetAlarm(c) \/ Invalidate(c)
    BY <2>1 DEF ClientForgotten, ClaimRefused, SetAlarm, Invalidate
  <2>2. CASE ReviewInspect(c) \/ RedeemFails(c) \/ PresentCode(c)
    <3>1. \E step : Goto(c, step) /\ step.op \notin {"create", "rotate"}
      BY <2>2 DEF ReviewInspect, RedeemFails, PresentCode
    <3>2. QED
      BY <3>1
  <2>3. CASE \E p \in {"queries", "all"}, g \in {MaxTime, now + 1} : Redeem(c, p, g)
    <3>1. \E step : Goto(c, step) /\ step.op \notin {"create", "rotate"}
      BY <2>3 DEF Redeem
    <3>2. QED
      BY <3>1
  <2>4. CASE \E g \in 1..MaxRotations + 1 : PresentRefresh(c, g)
    BY <2>4 DEF PresentRefresh
  <2>5. CASE \E g \in AccessTokens : Authenticate(c, g)
    <3>1. \E step : Goto(c, step) /\ step.op \notin {"create", "rotate"}
      BY <2>5 DEF Authenticate
    <3>2. QED
      BY <3>1
  <2>6. CASE ReadCachedDelegation(c) \/ MintStart(c)
    <3>1. Return(c) \/ \E step : Goto(c, step) /\ step.op \notin {"create", "rotate"}
      BY <2>6 DEF ReadCachedDelegation, MintStart
    <3>2. QED
      BY <3>1
  <2>7. CASE (\E e \in BOOLEAN : MintFails(c, e)) \/ RequestDies(c)
    BY <2>7 DEF MintFails, RequestDies
  <2>8. QED
    BY <2>1, <2>2, <2>3, <2>4, <2>5, <2>6, <2>7
<1>3. CallInv'
  <2>1. CASE call' = call
    BY <1>0, <1>1, <2>1 DEF CallInv
  <2>2. QED
    BY <1>0, <1>1, <1>2, <2>1, ReturnInv, AnsweredInv, GoesInv
<1>4. QED
  BY <1>1, <1>3, QuietInv

-----------------------------------------------------------------------------
(* The record                                                              *)

\* handleAuthorize: the request that will create the session.
LEMMA AuthorizeInv ==
  ASSUME AuthInv, NEW c \in Calls, NEW scope, Authorize(c, scope)
  PROVE  AuthInv'
<1>1. \A d \in Calls : call'[d].op = "create" => d = c
  BY DEF Authorize, Goto, AuthInv, CallInv
<1>2. /\ DOMAIN call' = Calls /\ call' = [d \in Calls |-> call'[d]]
      /\ \A d \in Calls : call'[d].op = "rotate" => call'[d] = call[d]
  BY DEF Authorize, Goto, AuthInv, CallInv
<1>3. CallInv'
  BY <1>1, <1>2 DEF Authorize, AuthInv, CallInv
<1>4. QED
  BY <1>3, QuietInv DEF Authorize

\* create: the id was not used before.
LEMMA CreateSessionInv ==
  ASSUME AuthInv, NEW c \in Calls, CreateSession(c)
  PROVE  AuthInv'
<1>1. ~opened /\ ~replayed /\ \A g \in Credentials : redeemed[g] = 0
  BY DEF AuthInv, CallInv, CreateSession
<1>2. CallInv'
  BY ReturnInv DEF AuthInv, CreateSession
<1>3. ASSUME NEW at, NEW scope, NEW s, s = Fresh(at, scope)
      PROVE  /\ Record(s) /\ s.kind = "session" /\ s.phase = "pending" /\ s.spent = {}
             /\ s.refresh = 0 /\ s.issues = 0 /\ s # NoRecord
  BY <1>3 DEF Fresh, Record, Fields, NoRecord
<1>4. /\ Record(session') /\ session'.kind = "session" /\ session'.phase = "pending"
      /\ session'.spent = {} /\ session'.refresh = 0 /\ session'.issues = 0
  BY <1>3 DEF CreateSession
<1>5. SessionIs(session', redeemed, replayed)
  BY <1>1, <1>4 DEF SessionIs, BeforeTokens
<1>6. opened' = TRUE /\ redeemed' = redeemed /\ replayed' = replayed
  BY DEF CreateSession
<1>7. SessionIs(session, redeemed, replayed)'
  BY <1>5, <1>6 DEF SessionIs, SpendsIn
<1>8. QED
  BY <1>2, <1>6, <1>7 DEF AuthInv

\* A record whose credentials are untouched goes on from one phase to the next
\* before its tokens, stays in its phase, or becomes invalid.
LEMMA PhaseInv ==
  ASSUME NEW s, NEW bought, NEW again, SessionIs(s, bought, again), NEW t, Record(t),
         t.kind = s.kind, t.spent = s.spent, t.refresh = s.refresh, t.issues = s.issues,
         \/ t.phase = s.phase
         \/ t.phase = "invalid"
         \/ s.phase \in BeforeTokens /\ t.phase \in BeforeTokens
  PROVE  SessionIs(t, bought, again) /\ t # NoRecord
<1>1. SessionIs(t, bought, again)
  BY DEF SessionIs, SpendsIn, BeforeTokens
<1>2. QED
  BY <1>1 DEF SessionIs, NoRecord

\* claimConnect
LEMMA ClaimInv ==
  ASSUME AuthInv, NEW c \in Calls, NEW source \in {"ii", "review"}, Claim(c, source)
  PROVE  AuthInv'
<1> DEFINE t == [session EXCEPT !.phase = "redeeming", !.claimed = TRUE]
<1>1. session.kind = "session" /\ session.phase = "pending"
  BY DEF Claim, Claimable
<1>2. session # NoRecord /\ SessionIs(session, redeemed, replayed)
  BY <1>1, RecordFacts
<1>3. /\ Record(t) /\ t.kind = session.kind /\ t.spent = session.spent
      /\ t.refresh = session.refresh /\ t.issues = session.issues /\ t.phase = "redeeming"
  BY <1>2 DEF SessionIs, Record, Fields
<1>4. session' = t /\ UNCHANGED <<opened, redeemed, replayed>>
  BY DEF Claim
<1> HIDE DEF t
<1>5. SessionIs(t, redeemed, replayed) /\ t # NoRecord
  BY <1>1, <1>2, <1>3, PhaseInv DEF BeforeTokens
<1>6. CallInv'
  <2>1. \E step : Goto(c, step) /\ step.op \notin {"create", "rotate"}
    BY DEF Claim
  <2>2. QED
    BY <1>4, <2>1, GoesInv DEF AuthInv
<1>7. QED
  BY <1>2, <1>4, <1>5, <1>6, RecordInv

\* completeAuthorization
LEMMA CompleteAuthorizationInv ==
  ASSUME AuthInv, NEW c \in Calls, CompleteAuthorization(c)
  PROVE  AuthInv'
<1> DEFINE in == call[c]
           expiry == SessionExpiry(session, in.source, in.grant)
<1>0. UNCHANGED <<opened, redeemed, replayed>>
  BY DEF CompleteAuthorization
<1>1. CallInv'
  <2>1. \E step : Goto(c, step) /\ step.op \notin {"create", "rotate"}
    BY DEF CompleteAuthorization
  <2>2. QED
    BY <1>0, <2>1, GoesInv DEF AuthInv
<1>2. CASE session' = session
  BY <1>0, <1>1, <1>2, QuietInv
<1>3. CASE session' # session
  <2>1. /\ Completable(session)
        /\ \/ session' = [session EXCEPT !.phase = "invalid"]
           \/ session' = Authorized(session, in.source, in.permission, expiry)
    BY <1>3 DEF CompleteAuthorization
  <2>2. /\ session # NoRecord /\ SessionIs(session, redeemed, replayed)
        /\ session.phase = "redeeming"
    BY <2>1, RecordFacts DEF Completable
  <2>3. ASSUME NEW t, t = [session EXCEPT !.phase = "invalid"]
        PROVE  /\ Record(t) /\ t.kind = session.kind /\ t.spent = session.spent
               /\ t.refresh = session.refresh /\ t.issues = session.issues /\ t.phase = "invalid"
    BY <2>2, <2>3 DEF SessionIs, Record, Fields
  <2>4. ASSUME NEW x, NEW y, NEW z, NEW t, t = Authorized(session, x, y, z)
        PROVE  /\ Record(t) /\ t.kind = session.kind /\ t.spent = session.spent
               /\ t.refresh = session.refresh /\ t.issues = session.issues /\ t.phase = "authorized"
    <3> DEFINE e == Earliest(now + CodeTTL, z)
               n == IF x = "review" THEN version ELSE 0
               m == IF y = "queries" THEN session.scope \ {"write"} ELSE session.scope
    <3>1. t = [session EXCEPT !.phase = "authorized", !.codeExp = e, !.exp = z, !.source = x,
                              !.permission = y, !.version = n, !.scope = m]
      BY <2>4 DEF Authorized
    <3> HIDE DEF e, n, m
    <3>2. QED
      BY <2>2, <3>1 DEF SessionIs, Record, Fields
  <2>5. /\ Record(session') /\ session'.kind = session.kind /\ session'.spent = session.spent
        /\ session'.refresh = session.refresh /\ session'.issues = session.issues
        /\ session'.phase \in {"invalid", "authorized"}
    BY <2>1, <2>3, <2>4
  <2>6. SessionIs(session', redeemed, replayed) /\ session' # NoRecord
    BY <2>2, <2>5, PhaseInv DEF BeforeTokens
  <2>7. QED
    BY <1>0, <1>1, <2>2, <2>6, RecordInv
<1>4. QED
  BY <1>2, <1>3

\* clearCachedDelegation and mintDelegation: the record is read again, and
\* only its delegation changes.
LEMMA DelegationInv ==
  ASSUME AuthInv, NEW c \in Calls, ClearCachedDelegation(c) \/ MintSucceeds(c)
  PROVE  AuthInv'
<1>0. UNCHANGED <<opened, redeemed, replayed>>
  BY DEF ClearCachedDelegation, MintSucceeds
<1>1. CallInv'
  <2>1. Answered(c) \/ \E step : Goto(c, step) /\ step.op \notin {"create", "rotate"}
    BY DEF ClearCachedDelegation, MintSucceeds
  <2>2. QED
    BY <1>0, <2>1, GoesInv, AnsweredInv DEF AuthInv
<1>2. \/ session' = session
      \/ /\ session.kind = "session"
         /\ \E d : session' = [session EXCEPT !.delegation = d]
  BY DEF ClearCachedDelegation, MintSucceeds, WithDelegation, Live
<1>3. CASE session' = session
  BY <1>0, <1>1, <1>3, QuietInv
<1>4. CASE session.kind = "session" /\ \E d : session' = [session EXCEPT !.delegation = d]
  <2>1. PICK d : session' = [session EXCEPT !.delegation = d]
    BY <1>4
  <2>2. session # NoRecord /\ SessionIs(session, redeemed, replayed)
    BY <1>4, RecordFacts
  <2>3. /\ Record(session') /\ session'.kind = session.kind /\ session'.spent = session.spent
        /\ session'.refresh = session.refresh /\ session'.issues = session.issues
        /\ session'.phase = session.phase
    BY <2>1, <2>2 DEF SessionIs, Record, Fields
  <2>4. SessionIs(session', redeemed, replayed) /\ session' # NoRecord
    BY <2>2, <2>3, PhaseInv
  <2>5. QED
    BY <1>0, <1>1, <2>2, <2>4, RecordInv
<1>5. QED
  BY <1>2, <1>3, <1>4

-----------------------------------------------------------------------------
(* The token endpoint                                                      *)

\* A credential of the live session came back: its record is invalid at once.
LEMMA ReplayInv ==
  ASSUME AuthInv, NEW c \in Calls, Live(session), Replay(c), UNCHANGED opened
  PROVE  AuthInv'
<1>1. session # NoRecord /\ opened /\ SessionIs(session, redeemed, replayed)
  BY RecordFacts DEF Live
<1>2. CallInv'
  <2>1. \E step : Goto(c, step) /\ step.op \notin {"create", "rotate"}
    BY DEF Replay
  <2>2. QED
    BY <2>1, GoesInv DEF AuthInv
<1>3. /\ Record(session') /\ session'.kind = session.kind /\ session'.phase = "invalid"
      /\ redeemed' = redeemed /\ replayed' = TRUE
  BY <1>1 DEF Replay, SessionIs, Record, Fields
<1>4. SessionIs(session, redeemed, replayed)'
  BY <1>1, <1>3 DEF SessionIs, BeforeTokens
<1>5. QED
  BY <1>1, <1>2, <1>3, <1>4 DEF AuthInv

\* exchangeCode: the code is redeemed when nothing has been.
LEMMA ExchangeCodeInv ==
  ASSUME MaxRotations \in Nat, AuthInv, NEW c \in Calls, ExchangeCode(c)
  PROVE  AuthInv'
<1> DEFINE in == call[c]
<1>0. UNCHANGED opened
  BY DEF ExchangeCode
<1>1. CASE CodeConsumed(session, in.at) /\ Replay(c)
  BY <1>0, <1>1, ReplayInv DEF CodeConsumed
<1>2. CASE Return(c) /\ UNCHANGED <<session, redeemed, replayed>>
  BY <1>0, <1>2, ReturnInv, QuietInv DEF AuthInv
<1>3. CASE /\ CodeRedeemable(session, in.at)
           /\ session' = InitialTokens(session, in.at, in.refreshes)
           /\ redeemed' = [redeemed EXCEPT ![0] = @ + 1]
           /\ Goto(c, [op |-> "alarm", at |-> session'.exp])
           /\ UNCHANGED replayed
  <2>1. session # NoRecord /\ opened /\ SessionIs(session, redeemed, replayed) /\ session.phase = "authorized"
    BY <1>3, RecordFacts DEF CodeRedeemable
  <2>2. CallInv'
    <3>1. \E step : Goto(c, step) /\ step.op \notin {"create", "rotate"}
      BY <1>3
    <3>2. QED
      BY <1>0, <3>1, GoesInv DEF AuthInv
  <2>3. /\ Record(session') /\ session'.kind = "session" /\ session'.phase = "active"
        /\ session'.spent = {} /\ session'.issues = 1 /\ session'.refresh \in {0, 1}
    <3> DEFINE e == Earliest(in.at + AccessTTL, session.exp)
               n == IF in.refreshes /\ (session.source = "ii" \/ "offline" \in session.scope) THEN 1 ELSE 0
    <3>1. session' = [session EXCEPT !.phase = "active", !.codeExp = Never, !.issues = 1, !.access = 1,
                                     !.accessExp = e, !.refresh = n]
      BY <1>3 DEF InitialTokens
    <3>2. n \in {0, 1} /\ session.spent = {}
      BY <2>1 DEF SessionIs, BeforeTokens
    <3> HIDE DEF e, n
    <3>3. QED
      BY <2>1, <3>1, <3>2 DEF SessionIs, Record, Fields
  <2>4. /\ redeemed' \in [Credentials -> {0, 1}]
        /\ \A g \in Credentials : redeemed'[g] = 1 => g = 0
    BY <1>3, <2>1 DEF AuthInv, SessionIs, BeforeTokens, Credentials
  <2>5. SessionIs(session, redeemed, replayed)'
    BY <1>3, <2>1, <2>3, <2>4 DEF SessionIs, SpendsIn, BeforeTokens
  <2>6. QED
    BY <1>0, <1>3, <2>1, <2>2, <2>4, <2>5 DEF AuthInv
<1>4. QED
  BY <1>1, <1>2, <1>3 DEF ExchangeCode

\* rotateRefreshToken: the current token is not spent, so it was not redeemed; it
\* is spent when the next one replaces it.
LEMMA RotateInv ==
  ASSUME MaxRotations \in Nat, AuthInv, NEW c \in Calls, RotateRefreshToken(c)
  PROVE  AuthInv'
<1> DEFINE in == call[c]
<1>0. UNCHANGED opened /\ in.op = "rotate"
  BY DEF RotateRefreshToken
<1>1. CASE Rotatable(session, in.at) /\ Replay(c)
  BY <1>0, <1>1, ReplayInv DEF Rotatable
<1>2. CASE Return(c) /\ UNCHANGED <<session, redeemed, replayed>>
  BY <1>0, <1>2, ReturnInv, QuietInv DEF AuthInv
<1>3. CASE /\ Rotatable(session, in.at)
           /\ in.cred \notin session.spent /\ in.cred = session.refresh
           /\ session' = RotatedTokens(session, in.at)
           /\ redeemed' = [redeemed EXCEPT ![in.cred] = @ + 1]
           /\ Goto(c, [op |-> "alarm", at |-> session'.exp])
           /\ UNCHANGED replayed
  <2>1. session # NoRecord /\ opened /\ SessionIs(session, redeemed, replayed) /\ session.phase = "active"
    BY <1>3, RecordFacts DEF Rotatable, Live
  <2>2. CallInv'
    <3>1. \E step : Goto(c, step) /\ step.op \notin {"create", "rotate"}
      BY <1>3
    <3>2. QED
      BY <1>0, <3>1, GoesInv DEF AuthInv
  <2>3. SpendsIn(session, redeemed)
    BY <2>1 DEF SessionIs
  <2>4. /\ Record(session') /\ session'.kind = "session" /\ session'.phase = "active"
        /\ session'.spent = session.spent \union {session.refresh}
        /\ session'.issues = session.issues + 1 /\ session'.refresh = session.issues + 1
    <3> DEFINE e == Earliest(in.at + AccessTTL, session.exp)
               x == session.spent \union {session.refresh}
               n == session.issues + 1
    <3>1. session' = [session EXCEPT !.spent = x, !.issues = n, !.refresh = n, !.access = n,
                                     !.accessExp = e]
      BY <1>3 DEF RotatedTokens
    <3> HIDE DEF e, x, n
    <3>2. /\ Record(session') /\ session'.kind = "session" /\ session'.phase = "active"
          /\ session'.spent = x /\ session'.issues = n /\ session'.refresh = n
      BY <2>1, <3>1 DEF SessionIs, Record, Fields
    <3>3. QED
      BY <3>2 DEF x, n
  <2>5. in.cred \in Credentials /\ redeemed[in.cred] = 0
    <3>1. in.cred \in 1..MaxRotations + 1
      BY <1>0 DEF AuthInv, CallInv
    <3>2. in.cred \in Credentials /\ in.cred # 0
      BY <3>1 DEF Credentials
    <3>3. redeemed[in.cred] \in {0, 1}
      BY <3>2 DEF AuthInv
    <3>4. QED
      BY <1>3, <2>3, <3>2, <3>3 DEF SpendsIn
  <2>6. /\ redeemed' \in [Credentials -> {0, 1}]
        /\ \A g \in Credentials : redeemed'[g] = 1 => g = in.cred \/ redeemed[g] = 1
    BY <1>3, <2>5 DEF AuthInv
  <2>7. SpendsIn(session, redeemed)'
    <3>1. /\ session'.issues \in Nat /\ session'.refresh \in 0..session'.issues
          /\ session'.spent \subseteq 0..session'.issues /\ session'.refresh \notin session'.spent
      BY <2>3, <2>4 DEF SpendsIn
    <3>2. \A g \in Credentials : redeemed'[g] = 1 => g = 0 \/ g \in session'.spent
      BY <1>3, <2>3, <2>4, <2>6 DEF SpendsIn
    <3>3. QED
      BY <3>1, <3>2 DEF SpendsIn
  <2>8. SessionIs(session, redeemed, replayed)'
    BY <1>3, <2>1, <2>4, <2>7 DEF SessionIs, BeforeTokens
  <2>9. QED
    BY <1>0, <1>3, <2>1, <2>2, <2>6, <2>8 DEF AuthInv
<1>4. QED
  BY <1>1, <1>2, <1>3 DEF RotateRefreshToken

-----------------------------------------------------------------------------
(* The theorems                                                            *)

\* Nothing is registered, opened or redeemed.
LEMMA AuthInit == Init => AuthInv
<1> SUFFICES ASSUME Init PROVE AuthInv
  OBVIOUS
<1>1. Idle.op = "idle"
  BY DEF Idle
<1>2. CallInv
  BY <1>1 DEF Init, CallInv
<1>3. QED
  BY <1>2 DEF Init, AuthInv

\* Every step keeps the invariant.
LEMMA AuthNext ==
  ASSUME AuthConstants
  PROVE  AuthInv /\ [Next]_vars => AuthInv'
<1> SUFFICES ASSUME AuthInv, [Next]_vars PROVE AuthInv'
  OBVIOUS
<1>1. CASE UNCHANGED vars
  BY <1>1 DEF vars, AuthInv, CallInv, SessionIs, SpendsIn
<1>2. CASE (\E r \in BOOLEAN : RegisterClient(r)) \/ AlarmFires \/ Redeploy \/ Tick
  <2>1. CallInv'
    BY <1>2 DEF RegisterClient, AlarmFires, Redeploy, Tick, AuthInv, CallInv
  <2>2. QED
    BY <1>2, <2>1, QuietInv DEF RegisterClient, AlarmFires, Redeploy, Tick
<1>3. ASSUME NEW c \in Calls,
             \/ ClientForgotten(c) \/ ReviewInspect(c) \/ ClaimRefused(c) \/ RedeemFails(c)
             \/ \E p \in {"queries", "all"}, g \in {MaxTime, now + 1} : Redeem(c, p, g)
             \/ PresentCode(c)
             \/ \E g \in 1..MaxRotations + 1 : PresentRefresh(c, g)
             \/ SetAlarm(c) \/ Invalidate(c)
             \/ \E g \in AccessTokens : Authenticate(c, g)
             \/ ReadCachedDelegation(c) \/ MintStart(c)
             \/ \E e \in BOOLEAN : MintFails(c, e)
             \/ RequestDies(c)
      PROVE  AuthInv'
  BY <1>3, RequestInv
<1>4. ASSUME NEW c \in Calls,
             \/ \E s \in Scopes : Authorize(c, s)
             \/ CreateSession(c)
             \/ \E s \in {"ii", "review"} : Claim(c, s)
             \/ CompleteAuthorization(c) \/ ExchangeCode(c) \/ RotateRefreshToken(c)
             \/ ClearCachedDelegation(c) \/ MintSucceeds(c)
      PROVE  AuthInv'
  BY <1>4, AuthorizeInv, CreateSessionInv, ClaimInv, CompleteAuthorizationInv, ExchangeCodeInv,
     RotateInv, DelegationInv DEF AuthConstants
<1>5. QED
  BY <1>1, <1>2, <1>3, <1>4 DEF Next

\* The record of the session and what was bought with it agree in every state.
THEOREM AuthInvHolds ==
  ASSUME AuthConstants
  PROVE  Spec => []AuthInv
<1>1. Init => AuthInv
  BY AuthInit
<1>2. AuthInv /\ [Next]_vars => AuthInv'
  BY AuthNext
<1>3. QED
  BY <1>1, <1>2, PTL DEF Spec

\* exchangeCode and rotateRefreshToken: a code or refresh token buys one pair of
\* tokens, for any number of requests that present it together or again.
THEOREM RedeemedOnceHolds ==
  ASSUME AuthConstants
  PROVE  Spec => []RedeemedOnce
<1>1. AuthInv => RedeemedOnce
  BY DEF AuthInv, RedeemedOnce
<1>2. QED
  BY <1>1, AuthInvHolds, PTL

\* A replay ends the session for good: no transaction, delegation or alarm that was
\* under way revives it, and its id is not used again.
THEOREM ReplayEndsSessionHolds ==
  ASSUME AuthConstants
  PROVE  Spec => []ReplayEndsSession
<1>1. AuthInv => ReplayEndsSession
  BY DEF AuthInv, SessionIs, ReplayEndsSession
<1>2. QED
  BY <1>1, AuthInvHolds, PTL
===============================================================================
