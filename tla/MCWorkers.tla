--------------------------- MODULE MCWorkers ---------------------------
(*****************************************************************************)
(* The workers' machines that are checked apart, and node publications: one  *)
(* of them runs in a behaviour, so they share the variables v1, v2, ....     *)
(*****************************************************************************)
EXTENDS Integers, Sequences, FiniteSets, TLC

CONSTANT None

-----------------------------------------------------------------------------
(* Instances                                                               *)

\* One operation of each kind, two of them stale after another writer's change.
Op(kind, path, to, expected) == [kind |-> kind, path |-> path, to |-> to, expected |-> expected]
Ops == {Op("write", "p1", "p1", 0), Op("edit", "p1", "p1", 1), Op("mkdir", "p2", "p2", 0),
        Op("move", "p1", "p2", 1), Op("delete", "p2", "p2", 1)}

\* Pages that differ in evidence, kind or lexical score only.
Score(p, n) == [q \in {"a", "b", "c"} |-> IF q = p THEN n ELSE 0]

\* A page with a readable and a hidden source, and a blank page.
Documents == {"k1", "k2", "s", "h"}
Tree == [d \in Documents |-> CASE d = "s" -> "source" [] d = "h" -> "hidden" [] OTHER -> "knowledge"]
SourceRefs == [d \in Documents |-> IF d = "k1" THEN {"s", "h"} ELSE {}]

\* A file, a folder with its index page, and a free place for either.
A == <<"a">>
D == <<"d">>
DI == <<"d", "index">>
E == <<"e">>
Paths == {A, D, DI, E, <<"e", "index">>}
Nodes == [p \in Paths |-> CASE p = A -> [kind |-> "file", page |-> 1]
                            [] p = D -> [kind |-> "folder", page |-> 2]
                            [] p = DI -> [kind |-> "file", page |-> 3]
                            [] OTHER -> [kind |-> "none", page |-> 0]]
Write(kind, p) == [op |-> "write", kind |-> kind, path |-> p, to |-> p]
Remove(p) == [op |-> "delete", kind |-> "none", path |-> p, to |-> p]
Move(p, q) == [op |-> "move", kind |-> "none", path |-> p, to |-> q]
Changes == {<<Write("file", A)>>, <<Write("source", A)>>, <<Write("file", E)>>, <<Remove(A)>>,
            <<Remove(D)>>, <<Move(D, E)>>, <<Move(A, E)>>, <<Move(DI, A)>>,
            <<Remove(A), Write("file", A)>>, <<Move(A, E), Write("file", A)>>, <<Move(D, E), Remove(E)>>}

-----------------------------------------------------------------------------

VARIABLES part, v1, v2, v3, v4, v5, v6, v7, v8, v9, v10, v11, v12, v13, v14, v15

\* Variables that the machine which runs does not use.
Unused == "unused"
Rest15 == v15 = Unused
Rest14 == v14 = Unused /\ Rest15
Rest13 == v13 = Unused /\ Rest14
Rest12 == v12 = Unused /\ Rest13
Rest11 == v11 = Unused /\ Rest12
Rest10 == v10 = Unused /\ Rest11
Rest9 == v9 = Unused /\ Rest10
Rest8 == v8 = Unused /\ Rest9
Rest7 == v7 = Unused /\ Rest8
Rest6 == v6 = Unused /\ Rest7
rest6 == <<v6, v7, v8, v9, v10, v11, v12, v13, v14, v15>>
rest7 == <<v7, v8, v9, v10, v11, v12, v13, v14, v15>>
rest11 == <<v11, v12, v13, v14, v15>>
rest12 == <<v12, v13, v14, v15>>
rest13 == <<v13, v14, v15>>

Tools ==
    INSTANCE McpTools WITH
        deployment <- v1, store <- v2, call <- v3, seen <- v4, ran <- v5,
        Databases <- {"d1", "d2"}, Paths <- {"p1", "p2"},
        ReviewDatabase <- "d1", ReviewPaths <- {"p1"}, Operations <- Ops,
        ItemLimit <- 2, BatchLimit <- 1, ListLimit <- 2, MaxWrites <- 0

Batches ==
    INSTANCE McpTools WITH
        deployment <- v1, store <- v2, call <- v3, seen <- v4, ran <- v5,
        Databases <- {"d1", "d2"}, Paths <- {"p1", "p2"},
        ReviewDatabase <- "d1", ReviewPaths <- {"p1"}, Operations <- Ops,
        ItemLimit <- 1, BatchLimit <- 2, ListLimit <- 2, MaxWrites <- 1

SignIn ==
    INSTANCE McpAuth WITH
        now <- v1, client <- v2, session <- v3, alarm <- v4, call <- v5,
        version <- v6, minter <- v7, opened <- v8, redeemed <- v9,
        replayed <- v10,
        Calls <- {"c"}, ConnectTTL <- 2, CodeTTL <- 1, AccessTTL <- 1,
        SessionTTL <- 3, ReviewTTL <- 2, DelegationTTL <- 1,
        RefreshMargin <- 0, MaxRotations <- 1, LastStart <- 0, MaxTime <- 3,
        MaxVersion <- 2

Search ==
    INSTANCE Retrieval WITH
        mode <- v1, stage <- v2, lists <- v3, candidates <- v4,
        probability <- v5, result <- v6,
        Paths <- {"a", "b", "c"}, Evidence <- Score("a", 2),
        Kind <- Score("c", 1), Lexical <- Score("b", 1), ListLimit <- 2,
        PoolLimit <- 2, Limit <- 1, Searches <- 2

Turn ==
    INSTANCE AssistantTurn WITH
        route <- v1, turn <- v2, saved <- v3, phase <- v4, answer <- v5,
        Documents <- Documents, Tree <- Tree, Blank <- {"k2"},
        SourceRefs <- SourceRefs, Scope <- "database", Subject <- "k1",
        CallLimit <- 3, RoundLimit <- 3, Budget <- 2, OverviewReads <- 1

Query ==
    INSTANCE QueryPanel WITH
        me <- v1, shown <- v2, job <- v3, sessions <- v4, requests <- v5,
        store <- v6, minute <- v7, cooling <- v8, queued <- v9, log <- v10,
        output <- v11, count <- v12,
        Users <- {"u", "v"}, Members <- {"u"}, Pages <- {"k", "s", "b"},
        RawSources <- {"s"}, Blank <- {"b"}, Rankings <- {<<>>, <<"s", "k">>},
        Scores <- {0, 1, 2}, Threshold <- 1, ContextLimit <- 2,
        ResultLimit <- 1, RateLimit <- 1, MaxActions <- 2, MaxRequests <- 2,
        MaxMinutes <- 1

Trigger ==
    INSTANCE WorkerTrigger WITH
        now <- v1, writers <- v2, cache <- v3, calls <- v4, sessions <- v5,
        nodes <- v6, source <- v7, jobs <- v8, started <- v9, refused <- v10,
        count <- v11,
        Users <- {"u", "v"}, Ttl <- 5, Refresh <- 2, CallTime <- 2,
        MaxTime <- 7, MaxJobs <- 2, MaxVersions <- 2, MaxRevocations <- 1

ASSUME TriggerAssumption == Trigger!TriggerConstants

Publications ==
    INSTANCE NodePublications WITH
        nodes <- v1, pages <- v2, commits <- v3, table <- v4, batches <- v5,
        operations <- v6, change <- v7, issued <- v8, due <- v9, ui <- v10,
        reads <- v11, calls <- v12, changes <- v13, crashes <- v14,
        moves <- v15,
        Paths <- Paths, Tree <- Nodes, Changes <- Changes, MaxChanges <- 2,
        MaxCrashes <- 1, MaxPublishes <- 1, MaxMoves <- 2

Links ==
    INSTANCE NodePublications WITH
        nodes <- v1, pages <- v2, commits <- v3, table <- v4, batches <- v5,
        operations <- v6, change <- v7, issued <- v8, due <- v9, ui <- v10,
        reads <- v11, calls <- v12, changes <- v13, crashes <- v14,
        moves <- v15,
        Paths <- Paths, Tree <- Nodes, Changes <- Changes, MaxChanges <- 1,
        MaxCrashes <- 1, MaxPublishes <- 2, MaxMoves <- 2

Init ==
    \/ part = "tools" /\ Tools!Init /\ Rest6
    \/ part = "batches" /\ Batches!Init /\ Rest6
    \/ part = "signin" /\ SignIn!Init /\ Rest11
    \/ part = "retrieval" /\ Search!Init /\ Rest7
    \/ part = "turn" /\ Turn!Init /\ Rest6
    \/ part = "query" /\ Query!Init /\ Rest13
    \/ part = "trigger" /\ Trigger!Init /\ Rest12
    \/ part = "publications" /\ Publications!Init
    \/ part = "links" /\ Links!Init

Next ==
    /\ UNCHANGED part
    /\ \/ part = "tools" /\ Tools!Next /\ UNCHANGED rest6
       \/ part = "batches" /\ Batches!Next /\ UNCHANGED rest6
       \/ part = "signin" /\ SignIn!Next /\ UNCHANGED rest11
       \/ part = "retrieval" /\ Search!Next /\ UNCHANGED rest7
       \/ part = "turn" /\ Turn!Next /\ UNCHANGED rest6
       \/ part = "query" /\ Query!Next /\ UNCHANGED rest13
       \/ part = "trigger" /\ Trigger!Next /\ UNCHANGED rest12
       \/ part = "publications" /\ Publications!Next
       \/ part = "links" /\ Links!Next

vars == <<part, v1, v2, v3, v4, v5, v6, v7, v8, v9, v10, v11, v12, v13, v14,
          v15>>
Spec == Init /\ [][Next]_vars

-----------------------------------------------------------------------------
(* Properties                                                              *)

\* What the MCP worker answers is what the canister holds or did: the tools read
\* the nodes they were asked for, name every node they left out, report the
\* outcome of a batch, and keep a reviewer in the review paths; a search returns
\* distinct pages, the best of its candidates; a sign-in that expires on the way
\* buys no tokens.
McpIsFaithful ==
    /\ part = "tools" => Tools!ToolsAreFaithful
    /\ part = "batches" => Batches!ToolsAreFaithful
    /\ part = "retrieval" => Search!SearchIsSound
    /\ part = "signin" => SignIn!RedeemedOnce /\ SignIn!ReplayEndsSession

\* Answers rest on what was read: the assistant's turn and the answer of the
\* query panel cite only pages that were put before the model, within the limits
\* of the turn and of the rate counter.
AnswersAreGrounded ==
    /\ part = "turn" => Turn!TurnIsGrounded
    /\ part = "query" => Query!QueriesAreGrounded

\* A generation starts for the version its author saved, and a trigger whose
\* session is fresh in the browser's cache is not refused: see TriggersAreSound.
TriggersAreSound == part = "trigger" => Trigger!TriggersAreSound

\* A public link shows the page it was published for or nothing, through
\* changes of the tree, failed changes and crashes: see PublicationsAreSound.
PublicationsAreSound ==
    /\ part = "publications" => Publications!PublicationsAreSound
    /\ part = "links" => Links!PublicationsAreSound
=============================================================================
