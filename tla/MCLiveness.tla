------------------------------ MODULE MCLiveness ------------------------------
(***************************************************************************)
(* What must eventually happen, for TLC: a stored billing run is completed, *)
(* or the MCP worker's session object is cleaned up. One of the two        *)
(* machines runs in a behaviour, the other stays where it began. Billing   *)
(* meets two databases, batches of one and one upgrade; the session meets  *)
(* two concurrent requests and one rotation of its refresh token.          *)
(***************************************************************************)
EXTENDS StorageBilling

CONSTANT Calls

VARIABLES part, now, client, session, alarm, call, version, minter, opened, redeemed, replayed

Auth == INSTANCE McpAuth WITH
    ConnectTTL <- 1, CodeTTL <- 1, AccessTTL <- 1, SessionTTL <- 3, ReviewTTL <- 2,
    DelegationTTL <- 1, RefreshMargin <- 0, MaxRotations <- 1, LastStart <- 0, MaxTime <- 3,
    MaxVersion <- 2

ASSUME AuthAssumption == Auth!AuthConstants

auth == <<now, client, session, alarm, call, version, minter, opened, redeemed, replayed>>

Start == part \in {"billing", "session"} /\ Init /\ Auth!Init

Bills(A) == part = "billing" /\ A /\ UNCHANGED <<part, auth>>
Serves(A) == part = "session" /\ A /\ UNCHANGED <<part, vars>>

\* A session that is gone may be left alone for ever. Billing may not stop.
Step == Bills(Next) \/ Serves(Auth!Next) \/ Serves(UNCHANGED auth)

\* The fairness of StorageBilling and of McpAuth: only one machine runs, so each
\* formula speaks of that machine's clock, timer or message.
everything == <<part, vars, auth>>
Fairly ==
    /\ WF_everything(Bills(Advance) \/ Serves(Auth!Tick))
    /\ WF_everything(Bills(Tick) \/ Serves(Auth!AlarmFires))
    /\ SF_everything(Bills(TimerRuns))

Liveness == Start /\ [][Step]_everything /\ Fairly

-----------------------------------------------------------------------------
\* A code or refresh token buys tokens once, and a session whose spent credential
\* came back never serves again, although requests, retries, a mint under way and
\* alarms interleave with the replay.
CredentialsAreSafe == Auth!RedeemedOnce /\ Auth!ReplayEndsSession

\* What is stored for later goes away: a billing run is completed through errors
\* and upgrades (RunCompletes), and a session is deleted after its deadlines even
\* when the request that should have moved the alarm or deleted the record died
\* before it did (SessionIsCleaned).
Stored == run.on \/ session # Auth!NoRecord
StoredGoesAway == Stored ~> ~Stored
=============================================================================
