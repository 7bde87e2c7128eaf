--------------------------- MODULE MCClients ---------------------------
(*****************************************************************************)
(* The clipper extension, the wallet and the client of the canister: one     *)
(* machine runs in a behaviour, so they share the variables v1, v2, ....     *)
(*****************************************************************************)
EXTENDS Integers, Sequences, FiniteSets, TLC

-----------------------------------------------------------------------------
(* Instances                                                               *)

\* Two pages whose captures have the same path.
Path == [p \in {"a", "b"} |-> "p"]

\* Hits of every kind: own, repeated, with and without content.
Hit(p, k, s, c, o) == [path |-> p, kind |-> k, score |-> s, content |-> c, snippet |-> TRUE,
                       offset |-> o, reason |-> TRUE]
HitLists == {<<Hit("s", "Source", 1, TRUE, 0), Hit("k", "File", 3, FALSE, 0),
               Hit("own", "Source", 0, TRUE, 1), Hit("k", "File", 2, TRUE, 5)>>}
Own == [c \in {"c1", "c2"} |-> IF c = "c1" THEN "own" ELSE "own2"]

\* Two principals with different rights.
Role == [u |-> [d \in {"d1", "d2"} |-> IF d = "d1" THEN "Owner" ELSE "Writer"],
         v |-> [d \in {"d1", "d2"} |-> IF d = "d1" THEN "Reader" ELSE "Owner"]]

-----------------------------------------------------------------------------

VARIABLES part, v1, v2, v3, v4, v5, v6, v7, v8, v9, v10, v11, v12, v13, v14, v15

\* Variables that the machine which runs does not use.
Unused == "unused"
Rest15 == v15 = Unused
Rest14 == v14 = Unused /\ Rest15
Rest13 == v13 = Unused /\ Rest14
Rest12 == v12 = Unused /\ Rest13
Rest11 == v11 = Unused /\ Rest12
Rest10 == v10 = Unused /\ Rest11
Rest9 == v9 = Unused /\ Rest10
Rest8 == v8 = Unused /\ Rest9
rest8 == <<v8, v9, v10, v11, v12, v13, v14, v15>>
rest11 == <<v11, v12, v13, v14, v15>>
rest12 == <<v12, v13, v14, v15>>

Capture ==
    INSTANCE ClipperCapture WITH
        handler <- v1, job <- v2, active <- v3, slot <- v4, aged <- v5,
        stops <- v6, node <- v7,
        Pages <- {"a", "b"}, Path <- Path, Databases <- {"d"}, MaxTasks <- 2,
        MaxVersions <- 2, MaxStops <- 1

Export ==
    INSTANCE ClipperExport WITH
        stored <- v1, ui <- v2, main <- v3, worker <- v4, cancel <- v5,
        calls <- v6, saves <- v7,
        Conversations <- {"x", "y"}, Limit <- 2, MaxExports <- 1,
        MaxReloads <- 1

Recall ==
    INSTANCE ClipperRecall WITH
        tab <- v1, draft <- v2, config <- v3, generation <- v4, search <- v5,
        shown <- v6, adding <- v7, session <- v8, identity <- v9, moves <- v10,
        Conversations <- {"c1", "c2"}, Databases <- {"d1", "d2"},
        Principals <- {"u", "v"}, HitLists <- HitLists, Knowledge <- {"k"},
        Own <- Own, Queries <- {"q"}, MaxSearches <- 2, MaxMoves <- 2

Badge ==
    INSTANCE ClipperBadge WITH
        tab <- v1, config <- v2, active <- v3, next <- v4, lookup <- v5,
        capture <- v6, popup <- v7, saved <- v8, raced <- v9, events <- v10,
        Pages <- {"p", "q"}, Databases <- {"d1", "d2"}, Role <- Role,
        Saved <- {<<"d1", "p">>}, MaxLookups <- 2, MaxEvents <- 2

Settings ==
    INSTANCE ClipperBadge WITH
        tab <- v1, config <- v2, active <- v3, next <- v4, lookup <- v5,
        capture <- v6, popup <- v7, saved <- v8, raced <- v9, events <- v10,
        Pages <- {"p", "q"}, Databases <- {"d1", "d2"}, Role <- Role,
        Saved <- {<<"d1", "p">>}, MaxLookups <- 1, MaxEvents <- 3

Wallet ==
    INSTANCE KinicWallet WITH
        page <- v1, session <- v2, stored <- v3, selected <- v4, shown <- v5,
        reads <- v6, status <- v7, view <- v8, previews <- v9, buys <- v10,
        active <- v11, ledger <- v12, canister <- v13, charges <- v14,
        events <- v15,
        Pages <- {"cycles", "market", "profile"}, Users <- {"u", "v"},
        Accounts <- {"w1", "w2"}, Targets <- {"d"}, Prices <- {1},
        Rates <- {1, 2}, Entitled <- {}, Funds <- 3, Fee <- 1, MaxBuys <- 1,
        MaxReads <- 1, MaxEvents <- 1

Client ==
    INSTANCE VfsClient WITH
        actorCache <- v1, healthCache <- v2, calls <- v3, node <- v4,
        member <- v5, summary <- v6, ledger <- v7, listing <- v8,
        sessions <- v9, asked <- v10, faults <- v11,
        Users <- {"u"}, Paths <- {1, 2}, LocalHost <- TRUE, PageLimit <- 1,
        Entries <- 2, Owner <- "u", Causes <- {"network"}, MaxCalls <- 2,
        MaxFaults <- 1

Init ==
    \/ part = "capture" /\ Capture!Init /\ Rest8
    \/ part = "export" /\ Export!Init /\ Rest8
    \/ part = "recall" /\ Recall!Init /\ Rest11
    \/ part = "badge" /\ Badge!Init /\ Rest11
    \/ part = "settings" /\ Settings!Init /\ Rest11
    \/ part = "wallet" /\ Wallet!Init
    \/ part = "calls" /\ Client!Init /\ Rest12

Next ==
    /\ UNCHANGED part
    /\ \/ part = "capture" /\ Capture!Next /\ UNCHANGED rest8
       \/ part = "export" /\ Export!Next /\ UNCHANGED rest8
       \/ part = "recall" /\ Recall!Next /\ UNCHANGED rest11
       \/ part = "badge" /\ Badge!Next /\ UNCHANGED rest11
       \/ part = "settings" /\ Settings!Next /\ UNCHANGED rest11
       \/ part = "wallet" /\ Wallet!Next
       \/ part = "calls" /\ Client!Next /\ UNCHANGED rest12

vars == <<part, v1, v2, v3, v4, v5, v6, v7, v8, v9, v10, v11, v12, v13, v14,
          v15>>
Spec == Init /\ [][Next]_vars

-----------------------------------------------------------------------------
(* Properties                                                              *)

\* The clipper shows and exports what belongs to where the reader is: an export
\* writes each conversation once, a recall card and a badge are of the present
\* conversation, database, page and principal, whatever answers come late.
ClipperIsSound ==
    /\ part = "export" => Export!ExportIsSound
    /\ part = "recall" => Recall!RecallIsCurrent
    /\ part = "badge" => Badge!BadgeIsCurrent
    /\ part = "settings" => Settings!BadgeIsCurrent

\* A stored source is never replaced by the capture of another page, and what is
\* inserted into a chat is a card that was shown for it.
ClipperKeepsItsWord ==
    [][/\ part = "capture" => Capture!KeepsPage
       /\ part = "recall" => Recall!InsertsCard]_vars

\* One payment per click, from the account and on the terms shown, while users and
\* accounts change; and a call to the canister runs as its caller, with its own
\* answer or its own failure.
CallsAreFaithful ==
    /\ part = "wallet" => Wallet!WalletIsFaithful
    /\ part = "calls" => Client!ClientIsFaithful
=============================================================================
