--------------------------- MODULE MCBrowser ---------------------------
(*****************************************************************************)
(* The pages of the browser and of the skill registry: one machine runs in a *)
(* behaviour, so they share the variables v1, v2, ....                       *)
(*****************************************************************************)
EXTENDS Integers, Sequences, FiniteSets, TLC

-----------------------------------------------------------------------------
(* Instances                                                               *)

\* A file, a folder and its overview page, which may not exist.
Overview == [f \in {"g"} |-> "o"]
Versions == {[p \in {"f", "o", "g"} |-> 1], [p \in {"f", "o", "g"} |-> IF p = "f" THEN 1 ELSE 0]}

\* Two folders and files below them; two sources for one target, one of them of a
\* kind that is not imported; a tree that is empty, conflicts in a file, or has a
\* file where a folder is wanted.
ImportPaths == {"r", "q", "a", "b", "x"}
Above == [p \in ImportPaths |-> CASE p \in {"q", "a"} -> {"r"} [] p = "b" -> {"r", "q"} [] OTHER -> {}]
Sources == {"am", "ap", "bm", "h", "xm"}
Target == [s \in Sources |-> CASE s \in {"am", "ap", "h"} -> "a" [] s = "bm" -> "b" [] OTHER -> "x"]
Rank == [s \in Sources |-> IF s \in {"ap", "h"} THEN 1 ELSE 0]
Node(kind, v) == [kind |-> kind, v |-> v]
Gone == Node("gone", 0)
Stores ==
    {[p \in ImportPaths |-> Gone],
     [p \in ImportPaths |-> CASE p = "r" -> Node("folder", 1) [] p \in {"a", "x"} -> Node("file", 1)
                              [] OTHER -> Gone],
     [p \in ImportPaths |-> CASE p = "r" -> Node("folder", 1) [] p = "q" -> Node("file", 1)
                              [] p = "x" -> Node("source", 1) [] OTHER -> Gone]}

\* A listing without values and one with them.
Values == {-1, 1}

-----------------------------------------------------------------------------

VARIABLES part, v1, v2, v3, v4, v5, v6, v7, v8, v9, v10, v11, v12, v13, v14, v15, v16, v17

\* Variables that the machine which runs does not use.
Unused == "unused"
Rest17 == v17 = Unused
Rest16 == v16 = Unused /\ Rest17
Rest15 == v15 = Unused /\ Rest16
Rest14 == v14 = Unused /\ Rest15
Rest13 == v13 = Unused /\ Rest14
Rest12 == v12 = Unused /\ Rest13
Rest11 == v11 = Unused /\ Rest12
rest11 == <<v11, v12, v13, v14, v15, v16, v17>>
rest12 == <<v12, v13, v14, v15, v16, v17>>
rest14 == <<v14, v15, v16, v17>>
rest15 == <<v15, v16, v17>>
rest16 == <<v16, v17>>

Browser ==
    INSTANCE WikiBrowser WITH
        route <- v1, identity <- v2, directory <- v3, store <- v4,
        shown <- v5, cache <- v6, loads <- v7, editor <- v8, saves <- v9,
        op <- v10, reported <- v11, spent <- v12, lost <- v13,
        Files <- {"f", "o"}, Folders <- {"g"}, Overview <- Overview,
        User <- "u", Stores <- Versions, Public <- FALSE, MaxMoves <- 2,
        MaxSaves <- 0, MaxChanges <- 1

Editor ==
    INSTANCE WikiBrowser WITH
        route <- v1, identity <- v2, directory <- v3, store <- v4,
        shown <- v5, cache <- v6, loads <- v7, editor <- v8, saves <- v9,
        op <- v10, reported <- v11, spent <- v12, lost <- v13,
        Files <- {"f", "o"}, Folders <- {"g"}, Overview <- Overview,
        User <- "u", Stores <- Versions, Public <- FALSE, MaxMoves <- 1,
        MaxSaves <- 1, MaxChanges <- 1

Panels ==
    INSTANCE BrowserPanels WITH
        route <- v1, drawn <- v2, ran <- v3, calls <- v4, search <- v5,
        latest <- v6, lastKey <- v7, graph <- v8, tree <- v9, cache <- v10,
        inspector <- v11, version <- v12, moves <- v13, toggles <- v14,
        errors <- v15,
        Readers <- {"u", "anonymous"}, Queries <- {"q"}, Paths <- {"p", "c"},
        Cited <- {"c"}, MaxMoves <- 2, MaxToggles <- 1, MaxChanges <- 1,
        MaxErrors <- 1

Import ==
    INSTANCE LocalImport WITH
        database <- v1, store <- v2, version <- v3, dialog <- v4,
        sequence <- v5, job <- v6, write <- v7, log <- v8, late <- v9,
        count <- v10,
        Databases <- {"d", "e"}, Paths <- ImportPaths, Above <- Above,
        Folders <- {"r", "q"}, Sources <- Sources, Target <- Target,
        Rank <- Rank, Unsupported <- {"h"},
        Selections <- {{"am", "ap", "bm", "h"}, {"xm"}}, Stores <- Stores,
        NodeLimit <- 4, MaxSelections <- 2, MaxSwitches <- 1, MaxChanges <- 1,
        MaxImports <- 1

Market ==
    INSTANCE MarketPages WITH
        market <- v1, owned <- v2, page <- v3, params <- v4, since <- v5,
        principal <- v6, reads <- v7, stats <- v8, metrics <- v9,
        loads <- v10, changes <- v11,
        Listings <- {1, 2, 3}, Seller <- "s", Buyer <- "b", Bought <- {1, 2},
        Prices <- {1}, PageLimit <- 1, Values <- Values, Points <- 3,
        MaxLoads <- 3, MaxChanges <- 1

Board ==
    INSTANCE Dashboard WITH
        principal <- v1, tab <- v2, shown <- v3, refreshes <- v4,
        refreshSeq <- v5, dialog <- v6, form <- v7, call <- v8, hist <- v9,
        loads <- v10, loadSeq <- v11, db <- v12, log <- v13, own <- v14,
        events <- v15,
        Users <- {"u", "v"}, Prices <- {1, 2}, PageSize <- 1, History <- 2,
        MaxRefreshes <- 3, MaxLoads <- 3, MaxEvents <- 1, MaxCalls <- 1

Home ==
    INSTANCE DashboardHome WITH
        principal <- v1, ref <- v2, mounted <- v3, list <- v4,
        refreshes <- v5, seq <- v6, dialog <- v7, choice <- v8,
        creation <- v9, databases <- v10, grants <- v11, payments <- v12,
        opened <- v13, events <- v14,
        Users <- {"u", "v"}, Wallet <- "w", MaxDatabases <- 2,
        MaxRefreshes <- 4, MaxEvents <- 2

Registry ==
    INSTANCE SkillRegistry WITH
        principal <- v1, shown <- v2, refreshes <- v3, seq <- v4, role <- v5,
        roleReads <- v6, op <- v7, pkg <- v8, manifest <- v9, skill <- v10,
        runs <- v11, trail <- v12, branch <- v13, now <- v14, log <- v15,
        ops <- v16, events <- v17,
        Writers <- {"w"}, Readers <- {"r"},
        Statuses <- {"promoted", "deprecated"},
        Outcomes <- {"success", "fail"}, Dir <- "skill", RunWindow <- 2,
        MaxTime <- 1, MaxRevisions <- 2, MaxRefreshes <- 3, MaxOps <- 2,
        MaxEvents <- 1

Twice ==
    INSTANCE KinicWallet WITH
        page <- v1, session <- v2, stored <- v3, selected <- v4, shown <- v5,
        reads <- v6, status <- v7, view <- v8, previews <- v9, buys <- v10,
        active <- v11, ledger <- v12, canister <- v13, charges <- v14,
        events <- v15,
        Pages <- {"cycles", "market", "profile"}, Users <- {"u"},
        Accounts <- {"w1"}, Targets <- {"d"}, Prices <- {1}, Rates <- {1},
        Entitled <- {"u"}, Funds <- 3, Fee <- 1, MaxBuys <- 2, MaxReads <- 1,
        MaxEvents <- 0

Runs ==
    INSTANCE SkillRegistry WITH
        principal <- v1, shown <- v2, refreshes <- v3, seq <- v4, role <- v5,
        roleReads <- v6, op <- v7, pkg <- v8, manifest <- v9, skill <- v10,
        runs <- v11, trail <- v12, branch <- v13, now <- v14, log <- v15,
        ops <- v16, events <- v17,
        Writers <- {"w"}, Readers <- {"r"}, Statuses <- {"promoted"},
        Outcomes <- {"success", "fail"}, Dir <- "skill", RunWindow <- 2,
        MaxTime <- 1, MaxRevisions <- 1, MaxRefreshes <- 3, MaxOps <- 3,
        MaxEvents <- 0

Init ==
    \/ part = "browser" /\ Browser!Init /\ Rest14
    \/ part = "editor" /\ Editor!Init /\ Rest14
    \/ part = "panels" /\ Panels!Init /\ Rest16
    \/ part = "import" /\ Import!Init /\ Rest11
    \/ part = "market" /\ Market!Init /\ Rest12
    \/ part = "dashboard" /\ Board!Init /\ Rest16
    \/ part = "home" /\ Home!Init /\ Rest15
    \/ part = "registry" /\ Registry!Init
    \/ part = "twice" /\ Twice!Init /\ Rest16
    \/ part = "runs" /\ Runs!Init

Next ==
    /\ UNCHANGED part
    /\ \/ part = "browser" /\ Browser!Next /\ UNCHANGED rest14
       \/ part = "editor" /\ Editor!Next /\ UNCHANGED rest14
       \/ part = "panels" /\ Panels!Next /\ UNCHANGED rest16
       \/ part = "import" /\ Import!Next /\ UNCHANGED rest11
       \/ part = "market" /\ Market!Next /\ UNCHANGED rest12
       \/ part = "dashboard" /\ Board!Next /\ UNCHANGED rest16
       \/ part = "home" /\ Home!Next /\ UNCHANGED rest15
       \/ part = "registry" /\ Registry!Next
       \/ part = "twice" /\ Twice!Next /\ UNCHANGED rest16
       \/ part = "runs" /\ Runs!Next

vars == <<part, v1, v2, v3, v4, v5, v6, v7, v8, v9, v10, v11, v12, v13, v14,
          v15, v16, v17>>
Spec == Init /\ [][Next]_vars

-----------------------------------------------------------------------------
(* Properties                                                              *)

\* What the wiki pages show and write is of the page, database and reader they
\* are at: late answers of loads, searches and graph reads never take their
\* place, a save replaces the version its draft was written from, and an import
\* neither overwrites a node nor writes below one that failed.
BrowserIsCurrent ==
    /\ part = "browser" => Browser!PageIsCurrent
    /\ part = "editor" => Editor!PageIsCurrent
    /\ part = "panels" => Panels!PanelsAreCurrent
    /\ part = "import" => Import!ImportIsSafe

\* The market, dashboard and registry pages show one principal's data of one
\* refresh, complete pages of a list each once, and what the canister did; who
\* buys twice pays for each once.
PagesAreSound ==
    /\ part = "market" => Market!PagesAreFaithful
    /\ part = "dashboard" => Board!DashboardIsSound
    /\ part = "home" => Home!HomeIsSound
    /\ part = "registry" => Registry!RegistryIsSound
    /\ part = "runs" => Runs!RegistryIsSound
    /\ part = "twice" => Twice!WalletIsFaithful
=============================================================================
