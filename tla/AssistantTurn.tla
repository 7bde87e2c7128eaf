---------------------------- MODULE AssistantTurn ----------------------------
(***************************************************************************)
(* One text turn of the assistant worker: the provider loop of             *)
(* runDeepSeekTurn over the tools of KinicReader.                          *)
(*                                                                         *)
(* The turn lives in memory and is checkpointed to D1; a crash goes back   *)
(* to the last checkpoint.  The provider is free: it may call any tool     *)
(* with any path, repeat itself, answer with blanks or cite what it likes. *)
(* Documents stand for paths, one unit of budget for one excerpt.          *)
(***************************************************************************)
EXTENDS Integers, Sequences, FiniteSets, SequencesExt

CONSTANTS
  Documents,      \* paths of the database
  Tree,           \* Documents -> "knowledge", "memory", "source", "root" or "hidden"
  Blank,          \* documents without content
  SourceRefs,     \* Documents -> sources it refers to
  Scope,          \* "knowledge", "memory" or "database"
  Subject,        \* the selected document, or None
  CallLimit,      \* limits().calls
  RoundLimit,     \* 13 provider rounds
  Budget,         \* limits().characters, in excerpts
  OverviewReads,  \* 4 documents of an overview
  None

VARIABLES
  route,       \* pending.route
  turn,        \* pending.deepseek and pending.tools in memory
  saved,       \* the same in D1
  phase,       \* where the pump is
  answer       \* documents cited by the published answer, None before

vars == <<route, turn, saved, phase, answer>>

Routes == {"database_overview", "focused_search", "selected_node_summary", "conversation"}
Tools == {"wiki_query", "wiki_inventory", "wiki_read", "wiki_sources"}
Call(name, d) == [name |-> name, document |-> d]

NewTurn == [seeded |-> FALSE, requesting |-> FALSE, rounds |-> 0, open |-> <<>>, last |-> "prompt",
            blanks |-> 0, repairs |-> 0, prefetched |-> FALSE, searched |-> FALSE,
            calls |-> 0, budget |-> Budget, discovered |-> {}, sources |-> {}, read |-> {},
            shown |-> {}]

-----------------------------------------------------------------------------
(* KinicReader                                                             *)

\* isReadablePath: nothing outside the document trees.
IsReadablePath(d) == Tree[d] # "hidden"

\* path(): inside the scope, or a source the turn was led to.
PathAllowed(t, d) ==
  /\ IsReadablePath(d)
  /\ \/ Scope = "database" /\ (Tree[d] \in {"knowledge", "memory"} \/ d \in t.discovered)
     \/ Tree[d] = Scope
     \/ d \in t.sources

MayRead_Unlisted(t, d) == PathAllowed(t, d)

\* What executeReadBatch lets through: a path the turn discovered.
MayRead(t, d) == d \in t.discovered \union t.sources /\ PathAllowed(t, d)

\* sourceRefs
Refs(d) == {s \in SourceRefs[d] : Tree[s] = "source"}

\* search_nodes and rerankWithJev: any documents of the searched trees.
SearchHits == {d \in Documents : IF Scope = "database" THEN Tree[d] \in {"knowledge", "memory", "root"}
                                 ELSE Tree[d] = Scope}

\* wiki_inventory's representatives: any documents but sources and hidden ones.
Inventory == {d \in Documents : Tree[d] \in {"knowledge", "memory", "root"}}

Fails == /\ phase' = "failed"
         /\ UNCHANGED <<route, turn, saved, answer>>

Counted(t) == [t EXCEPT !.calls = @ + 1]
Closed(t) == [t EXCEPT !.open = Tail(@)]

\* commitRead: the excerpt takes what is left of the budget.
CommitRead(t, d) ==
  [t EXCEPT !.budget = @ - 1, !.read = @ \union {d}, !.shown = @ \union {d},
            !.sources = IF route = "focused_search" /\ Tree[d] # "source"
                        THEN @ \union Refs(d) ELSE @]

\* One wiki_read: refused, over the overview's limit, blank, or an excerpt.
ReadOutcome(t, d) ==
  IF route = "database_overview" /\ Cardinality(t.read) >= OverviewReads THEN t
  ELSE IF d \in Blank THEN t
  ELSE CommitRead(t, d)

ReadFails(t, d) ==
  \/ t.calls > CallLimit
  \/ route = "conversation"
  \/ ~(route = "database_overview" /\ Cardinality(t.read) >= OverviewReads) /\ ~MayRead(t, d)
  \/ d \in Blank /\ route \notin {"focused_search", "database_overview"}
  \/ d \notin Blank /\ t.budget = 0

\* execute and executeReadBatch on the first call that has no answer.
ExecuteTool(found) ==
  LET call == Head(turn.open)
      t == Counted(turn)
  IN
  /\ phase = "running" /\ turn.open # <<>>
  /\ call.name \in {"wiki_read", "wiki_sources"} => found = {}
  /\ IF call.name = "wiki_read" /\ ~ReadFails(t, call.document)
     THEN turn' = Closed(ReadOutcome(t, call.document))
     ELSE IF call.name = "wiki_query" /\ t.calls <= CallLimit /\ route = "focused_search"
             /\ found \subseteq SearchHits
     THEN turn' = Closed([t EXCEPT !.discovered = @ \union found, !.searched = TRUE])
     ELSE IF call.name = "wiki_inventory" /\ t.calls <= CallLimit /\ route = "database_overview"
             /\ Scope = "database" /\ found \subseteq Inventory
     THEN turn' = Closed([t EXCEPT !.discovered = @ \union found])
     ELSE IF call.name = "wiki_sources" /\ t.calls <= CallLimit /\ route # "conversation"
             /\ PathAllowed(t, call.document) /\ call.document \in t.read
     THEN turn' = Closed([t EXCEPT !.sources = @ \union Refs(call.document)])
     ELSE FALSE
  /\ phase' = "checkpoint"
  /\ UNCHANGED <<route, saved, answer>>

\* A tool that is refused ends the turn.
ToolRefused ==
  LET call == Head(turn.open)
      t == Counted(turn)
  IN
  /\ phase = "running" /\ turn.open # <<>>
  /\ CASE call.name = "wiki_read"      -> ReadFails(t, call.document)
       [] call.name = "wiki_query"     -> t.calls > CallLimit \/ route # "focused_search"
       [] call.name = "wiki_inventory" -> t.calls > CallLimit \/ route # "database_overview"
                                          \/ Scope # "database"
       [] call.name = "wiki_sources"   -> t.calls > CallLimit \/ route = "conversation"
                                          \/ ~PathAllowed(t, call.document)
                                          \/ call.document \notin t.read
  /\ Fails

-----------------------------------------------------------------------------
(* runTextTurn                                                             *)

\* routeTurn, settled before the turn runs; a selected document counts as
\* discovered.
RouteTurn(r) ==
  /\ phase = "routing"
  /\ r = "selected_node_summary" => Subject # None
  /\ route' = r
  /\ turn' = IF r = "selected_node_summary" THEN [NewTurn EXCEPT !.discovered = {Subject}] ELSE NewTurn
  /\ saved' = turn'
  /\ phase' = "seeding"
  /\ UNCHANGED answer

\* seedTextContext: the inventory and its first documents, or the selected one.
SeedTextContext(found) ==
  /\ phase = "seeding"
  /\ phase' = "running"
  /\ turn' =
       IF turn.seeded \/ route \notin {"database_overview", "selected_node_summary"}
       THEN [turn EXCEPT !.seeded = TRUE]
       ELSE LET start == IF route = "database_overview"
                         THEN [Counted(turn) EXCEPT !.discovered = @ \union found] ELSE turn
                targets == IF route = "database_overview" THEN found ELSE {Subject}
            IN [FoldLeft(LAMBDA t, d : IF ReadFails(Counted(t), d) THEN t
                                       ELSE ReadOutcome(Counted(t), d),
                         start, SetToSeq(targets))
                  EXCEPT !.seeded = TRUE]
  /\ route = "database_overview" /\ ~turn.seeded => found \subseteq Inventory /\ Scope = "database"
  /\ route # "database_overview" => found = {}
  /\ UNCHANGED <<route, saved, answer>>

\* prefetchSearchReads: after the first search, hits that are not read yet are
\* read without asking the provider, if the budgets allow.
PrefetchTargets ==
  IF route = "focused_search" /\ turn.searched /\ ~turn.prefetched
     /\ turn.calls < CallLimit /\ turn.budget > 1
  THEN turn.discovered \ turn.read ELSE {}

Prefetch(d) ==
  /\ phase = "running" /\ turn.open = <<>> /\ turn.last = "tools"
  /\ d \in PrefetchTargets
  /\ turn' = [turn EXCEPT !.open = <<Call("wiki_read", d)>>, !.prefetched = TRUE]
  /\ phase' = "checkpoint"
  /\ UNCHANGED <<route, saved, answer>>

\* The checkpoint that says a request is under way.
Request ==
  /\ phase = "running" /\ turn.open = <<>>
  /\ turn.last = "prompt" \/ (turn.last = "tools" /\ PrefetchTargets = {})
  /\ IF turn.rounds < RoundLimit
     THEN /\ turn' = [turn EXCEPT !.requesting = TRUE, !.rounds = @ + 1]
          /\ saved' = turn'
          /\ phase' = "requested"
          /\ UNCHANGED <<route, answer>>
     ELSE Fails

\* What the provider may return.
Reply(t, last, open) ==
  [t EXCEPT !.requesting = FALSE, !.last = last, !.open = open]

\* requestCompletion: tool calls, a final answer, a blank or a malformed one.
Receive(last, open) ==
  /\ phase = "requested"
  /\ (last = "tools") = (open # <<>>)
  /\ turn' = Reply(turn, last, open)
  /\ phase' = "checkpoint"
  /\ UNCHANGED <<route, saved, answer>>

ProviderFails == phase = "requested" /\ Fails

Checkpoint ==
  /\ phase = "checkpoint"
  /\ saved' = turn
  /\ phase' = "running"
  /\ UNCHANGED <<route, turn, answer>>

\* A blank answer is asked for once more, a malformed one too.
Repair ==
  /\ phase = "running" /\ turn.open = <<>>
  /\ \/ /\ turn.last = "blank" /\ turn.blanks = 0
        /\ turn' = [turn EXCEPT !.blanks = 1, !.last = "prompt"]
     \/ /\ turn.last = "malformed" /\ turn.repairs = 0
        /\ turn' = [turn EXCEPT !.repairs = 1, !.last = "prompt"]
  /\ phase' = "checkpoint"
  /\ UNCHANGED <<route, saved, answer>>

RepairRefused ==
  /\ phase = "running"
  /\ \/ turn.last = "blank" /\ turn.blanks = 1
     \/ turn.last = "malformed" /\ turn.repairs = 1
  /\ Fails

ValidAnswer_AnyCitation(t, cited, insufficient) == route = "conversation" \/ insufficient \/ cited # {}

\* validateAnswer: every citation is evidence of this turn, and a Wiki route
\* has one or says the evidence is insufficient.
ValidAnswer(t, cited, insufficient) ==
  /\ cited \subseteq t.read
  /\ route = "conversation" \/ insufficient \/ cited # {}

\* publishTurn
Publish(cited, insufficient) ==
  /\ phase = "running" /\ turn.last = "final" /\ turn.open = <<>>
  /\ IF ValidAnswer(turn, cited, insufficient)
     THEN /\ answer' = cited /\ phase' = "published"
          /\ UNCHANGED <<route, turn, saved>>
     ELSE Fails

\* The pump is gone; the next one resumes from the checkpoint, unless that says
\* that a request was under way.
Crash ==
  /\ phase \in {"seeding", "running", "requested", "checkpoint"}
  /\ turn' = saved
  /\ phase' = CASE saved.requesting -> "failed"
                [] saved.seeded     -> "running"
                [] OTHER            -> "seeding"
  /\ UNCHANGED <<route, saved, answer>>

-----------------------------------------------------------------------------

Init ==
  /\ route = "pending" /\ turn = NewTurn /\ saved = NewTurn
  /\ phase = "routing" /\ answer = None

\* One call at a time is enough: calls of a message are executed in order.
Calls == {Call(n, d) : n \in {"wiki_read", "wiki_sources"}, d \in Documents}
         \union {Call("wiki_query", None), Call("wiki_inventory", None)}

Next ==
  \/ \E r \in Routes : RouteTurn(r)
  \/ \E found \in SUBSET Documents : SeedTextContext(found) \/ ExecuteTool(found)
  \/ ToolRefused \/ Request \/ ProviderFails \/ Checkpoint \/ Repair \/ RepairRefused \/ Crash
  \/ \E d \in Documents : Prefetch(d)
  \/ \E call \in Calls : Receive("tools", <<call>>)
  \/ \E last \in {"final", "blank", "malformed"} : Receive(last, <<>>)
  \/ \E cited \in SUBSET Documents, insufficient \in BOOLEAN : Publish(cited, insufficient)

Spec == Init /\ [][Next]_vars

-----------------------------------------------------------------------------
(* Properties                                                              *)

\* A published citation is a document the reader was allowed to read, was led
\* to by the Wiki, and read in this very turn, whatever the provider claims and
\* however often the turn was resumed.
CitationsAreEvidence ==
  answer # None => \A d \in answer :
    /\ d \in turn.read /\ d \notin Blank
    /\ IsReadablePath(d)
    /\ d \in turn.discovered \/ \E e \in turn.read : d \in Refs(e)

\* Budgets bound what a turn costs, across crashes too.
WithinBudget ==
  /\ turn.budget >= 0 /\ turn.rounds <= RoundLimit
  /\ Cardinality(turn.read) <= CallLimit
  /\ route = "database_overview" => Cardinality(turn.read) <= OverviewReads

TurnIsGrounded == CitationsAreEvidence /\ WithinBudget
=============================================================================
