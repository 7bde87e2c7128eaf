------------------------------ MODULE McpTools ------------------------------
(***************************************************************************)
(* The tools of the MCP worker: what one request may call, how its reads   *)
(* are grouped by database, and how a mutation batch is answered.          *)
(*                                                                         *)
(* The canister is external.  Other clients write between the worker's     *)
(* calls, a call may fail, and the reply of a mutation may be lost before  *)
(* or after the canister executed it.  A version stands for a node's etag  *)
(* and content; 0 is an absent node.                                       *)
(***************************************************************************)
EXTENDS Integers, Sequences, FiniteSets, SequencesExt

CONSTANTS
  Databases,
  Paths,
  ReviewDatabase,   \* MCP_REVIEW_DATABASE_ID
  ReviewPaths,      \* paths below MCP_REVIEW_WRITE_PREFIX
  Operations,       \* operations a batch may hold
  ItemLimit,        \* MAX_FETCH_MANY_IDS, MAX_READ_PATHS
  BatchLimit,       \* MAX_MUTATION_BATCH_ITEMS
  ListLimit,        \* MAX_LIST_LIMIT
  MaxWrites         \* bound on the writes of others during a call

VARIABLES
  deployment,   \* authentication mode and MCP_WRITE_POLICY
  store,        \* the canister's nodes
  call,         \* the request being served
  seen,         \* ghost: the versions each node had while the call was served
  ran           \* ghost: the canister executed the batch of this call

vars == <<deployment, store, call, seen, ran>>

Keys == Databases \X Paths
NoCall == [tool |-> "none"]
Reference(c, d, p) == [canister |-> c, db |-> d, path |-> p]

\* toNodeMutationInput: expected is 0 where the operation expects no etag.
Operation(kind, path, to, expected) ==
  [kind |-> kind, path |-> path, to |-> to, expected |-> expected]

Versions == UNION {{store[d][p] : p \in Paths} : d \in Databases}
LastVersion == CHOOSE v \in Versions : \A w \in Versions : w <= v

-----------------------------------------------------------------------------
(* handleMcpRequest                                                        *)

ReadTools == {"find_databases", "search", "fetch_many", "read_paths", "list",
              "memory_manifest", "context"}

\* write_nodes, mutate_nodes_batch and the six tools of one kind.
MutationTools == {"write_nodes", "mutate_nodes_batch", "append_nodes", "edit_nodes",
                  "multi_edit_nodes", "create_folders", "move_nodes", "delete_nodes"}

\* The kind a dedicated tool adds to its operations.
KindOf == [write_nodes |-> "write", append_nodes |-> "append", edit_nodes |-> "edit",
           multi_edit_nodes |-> "multi_edit", create_folders |-> "mkdir",
           move_nodes |-> "move", delete_nodes |-> "delete"]

\* A deployment without a policy, or with writes for everybody, serves nothing.
Serves ==
  /\ deployment.mode \in {"public", "private_required"}
  /\ deployment.writes \in {"disabled", "private"}
  /\ ~(deployment.writes = "private" /\ deployment.mode = "public")

WritesAvailable == deployment.writes = "private" /\ deployment.mode # "public"

\* createServer and registerMutationTools.
Registered ==
  ReadTools \union (IF WritesAvailable THEN MutationTools ELSE {})
            \union (IF deployment.mode = "private_required" THEN {"get_profile"} ELSE {})

\* Whom authenticateMcpRequest lets through, and with which permissions.
Callers ==
  IF deployment.mode = "public" THEN {[source |-> "none", writes |-> FALSE]}
  ELSE {[source |-> s, writes |-> w] : s \in {"user", "review_service"}, w \in BOOLEAN}

\* The input schemas: 1 to ItemLimit references, 1 to BatchLimit operations.
References == {Reference(c, d, p) : c \in {"ours"}, d \in Databases, p \in Paths}
              \union {Reference("other", d, p) : d \in {ReviewDatabase}, p \in ReviewPaths}

Batches(t) ==
  LET ops == IF t = "mutate_nodes_batch" THEN Operations
             ELSE {o \in Operations : o.kind = KindOf[t]}
  IN UNION {[1..n -> ops] : n \in 1..BatchLimit}

Inputs(t) ==
  CASE t = "fetch_many" -> {[refs |-> r] : r \in UNION {[1..n -> References] : n \in 1..ItemLimit}}
    [] t = "read_paths" -> {[refs |-> [i \in DOMAIN q |-> Reference("ours", d, q[i])]] :
                              d \in Databases, q \in UNION {[1..n -> Paths] : n \in 1..ItemLimit}}
    [] t = "list"       -> {[db |-> d, limit |-> n] : d \in Databases, n \in 1..ListLimit}
    [] t \in MutationTools -> {[db |-> d, ops |-> b] : d \in Databases, b \in Batches(t)}
    [] OTHER            -> {[db |-> d] : d \in Databases}

Accept(t, input, caller) ==
  /\ call = NoCall
  /\ Serves
  /\ t \in Registered /\ caller \in Callers
  /\ call' = [tool |-> t, input |-> input, caller |-> caller, phase |-> "started",
              todo |-> {}, found |-> <<>>, failed |-> {}, others |-> 0, result |-> <<>>]
  /\ seen' = [k \in Keys |-> {store[k[1]][k[2]]}]
  /\ ran' = FALSE
  /\ UNCHANGED <<deployment, store>>

\* The response is sent.  Nothing of a call outlives it, so one call from any
\* state of the canister stands for all of them.
Finish(result) ==
  /\ call' = [call EXCEPT !.phase = "done", !.result = result]
  /\ UNCHANGED deployment

-----------------------------------------------------------------------------
(* fetch_many and read_paths                                               *)

\* fetchedNode, or an item's error; a version of 0 is "node not found".
Item(v) == [version |-> v, error |-> FALSE]
ItemError == [version |-> 0, error |-> TRUE]

Key_PathOnly(r) == r.path

\* readNodeItems' key
Key(r) == <<r.db, r.path>>

\* Result ids of another canister are refused one by one.
ValidItems == SelectSeq(call.input.refs, LAMBDA r : r.canister = "ours")

\* Each node is read once: the last request with its key.
Jobs ==
  LET v == ValidItems
  IN {v[i] : i \in {i \in DOMAIN v : \A j \in DOMAIN v : Key(v[j]) = Key(v[i]) => j <= i}}

Group(d) == {r \in Jobs : r.db = d}

StartReads ==
  /\ call # NoCall /\ call.phase = "started" /\ call.tool \in {"fetch_many", "read_paths"}
  /\ call' = [call EXCEPT !.phase = "reading", !.todo = {r.db : r \in Jobs}]
  /\ UNCHANGED <<deployment, store, seen, ran>>

\* createNodeReader fails: every request gets its error.
ReaderFails ==
  /\ call # NoCall /\ call.phase = "started" /\ call.tool \in {"fetch_many", "read_paths"}
  /\ Jobs # {}
  /\ call' = [call EXCEPT !.phase = "reading",
                          !.found = [k \in {Key(r) : r \in Jobs} |-> ItemError],
                          !.failed = Jobs]
  /\ UNCHANGED <<deployment, store, seen, ran>>

Found(found, group, outcome(_)) ==
  [k \in DOMAIN found \union {Key(r) : r \in group} |->
     IF \E r \in group : Key(r) = k THEN outcome(CHOOSE r \in group : Key(r) = k) ELSE found[k]]

\* reader.readMany on one database, answered before the next one is asked.
\* Any of its items may fail by itself; all of them do when the database cannot
\* be read, or answers with another number of items.
ReadMany(d, bad) ==
  /\ call # NoCall /\ call.phase = "reading" /\ d \in call.todo
  /\ bad \subseteq Group(d)
  /\ call' = [call EXCEPT !.todo = @ \ {d}, !.failed = @ \union bad,
                          !.found = Found(@, Group(d),
                             LAMBDA r : IF r \in bad THEN ItemError ELSE Item(store[r.db][r.path]))]
  /\ UNCHANGED <<deployment, store, seen, ran>>

\* The results in the order of the request.
AnswerReads ==
  /\ call # NoCall /\ call.phase = "reading" /\ call.todo = {}
  /\ Finish([i \in DOMAIN call.input.refs |->
               LET r == call.input.refs[i]
               IN IF r.canister # "ours" THEN ItemError ELSE call.found[Key(r)]])
  /\ UNCHANGED <<store, seen, ran>>

-----------------------------------------------------------------------------
(* list and the tools that make one query                                  *)

\* The canister lists the nodes of a database, at most limit of them.
ListNodes(d, limit) ==
  LET all == {p \in Paths : store[d][p] # 0}
  IN {s \in SUBSET all : Cardinality(s) = IF Cardinality(all) < limit THEN Cardinality(all) ELSE limit}

FetchLimit_Exact(limit) == limit

\* One more than asked for, to tell whether the listing is complete.
FetchLimit(limit) == limit + 1

ListDatabaseNodes(entries, kept) ==
  /\ call # NoCall /\ call.phase = "started" /\ call.tool = "list"
  /\ entries \in ListNodes(call.input.db, FetchLimit(call.input.limit))
  /\ kept \subseteq entries
  /\ Cardinality(kept) = IF Cardinality(entries) > call.input.limit THEN call.input.limit
                         ELSE Cardinality(entries)
  /\ Finish([ok |-> TRUE, entries |-> kept, truncated |-> Cardinality(entries) > call.input.limit])
  /\ UNCHANGED <<store, seen, ran>>

\* One query of the canister, answered, refused or lost: callVfs and unwrap.
Query(t, ok) ==
  /\ call # NoCall /\ call.phase = "started" /\ call.tool = t
  /\ Finish([ok |-> ok])
  /\ UNCHANGED <<store, seen, ran>>

FindDatabases(ok) == Query("find_databases", ok)
SearchDatabase(ok) == Query("search", ok)
ReadMemoryManifest(ok) == Query("memory_manifest", ok)
QueryTaskContext(ok) == Query("context", ok)
GetProfile(ok) == Query("get_profile", ok)
ListFails == Query("list", FALSE)

-----------------------------------------------------------------------------
(* Mutations                                                               *)

MutationAuthorizationPaths_Source(o) == {o.path}

\* A move is authorized for both its ends.
MutationAuthorizationPaths(o) == IF o.kind = "move" THEN {o.path, o.to} ELSE {o.path}

HasWriteAuthorization == call.caller.source # "none" /\ call.caller.writes

\* writeAuthorizationError
WriteAuthorizationError ==
  IF ~HasWriteAuthorization THEN "write connection required"
  ELSE IF /\ call.caller.source = "review_service"
          /\ \/ call.input.db # ReviewDatabase
             \/ \E i \in DOMAIN call.input.ops :
                  ~(MutationAuthorizationPaths(call.input.ops[i]) \subseteq ReviewPaths)
  THEN "review_write_boundary_exceeded"
  ELSE "none"

MutationRefused ==
  /\ call # NoCall /\ call.phase = "started" /\ call.tool \in MutationTools
  /\ WriteAuthorizationError # "none"
  /\ Finish([error |-> WriteAuthorizationError, current |-> 0])
  /\ UNCHANGED <<store, seen, ran>>

\* The canister's check of one operation against the nodes it meets.
OperationError(nodes, o) ==
  CASE o.kind = "mkdir" -> "none"
    [] nodes[o.path] = 0 -> IF o.kind \in {"write", "append"} /\ o.expected = 0 THEN "none" ELSE "not_found"
    [] nodes[o.path] # o.expected -> "etag_conflict"
    [] o.kind = "move" /\ nodes[o.to] # 0 -> "invalid_operation"
    [] OTHER -> "none"

Applied(nodes, o, v) ==
  CASE o.kind = "mkdir"  -> IF nodes[o.path] = 0 THEN [nodes EXCEPT ![o.path] = v] ELSE nodes
    [] o.kind = "delete" -> [nodes EXCEPT ![o.path] = 0]
    [] o.kind = "move"   -> [nodes EXCEPT ![o.path] = 0, ![o.to] = v]
    [] OTHER             -> [nodes EXCEPT ![o.path] = v]

\* write_nodes and mutate_nodes_batch: all the operations or none, with the
\* first one that cannot be applied.
CanisterMutates(nodes, ops, v) ==
  FoldLeft(LAMBDA acc, o : IF acc.error # "none" THEN acc
                           ELSE IF OperationError(acc.nodes, o) # "none"
                           THEN [acc EXCEPT !.error = OperationError(acc.nodes, o), !.at = o.path]
                           ELSE [acc EXCEPT !.nodes = Applied(acc.nodes, o, v)],
           [nodes |-> nodes, error |-> "none", at |-> ops[1].path], ops)

\* The versions of a database that its nodes take while the call is served.
Observed(s, d, nodes) == [k \in Keys |-> IF k[1] = d THEN s[k] \union {nodes[k[2]]} ELSE s[k]]

\* executeMutationBatch: the call reaches the canister; its reply arrives, or
\* is lost, which the tool reports as write_unavailable.
MutateNodesBatch(lost) ==
  LET d == call.input.db
      r == CanisterMutates(store[d], call.input.ops, LastVersion + 1)
      ok == r.error = "none"
  IN
  /\ call # NoCall /\ call.phase = "started" /\ call.tool \in MutationTools
  /\ WriteAuthorizationError = "none"
  /\ store' = IF ok THEN [store EXCEPT ![d] = r.nodes] ELSE store
  /\ seen' = IF ok THEN Observed(seen, d, r.nodes) ELSE seen
  /\ ran' = ok
  /\ IF lost THEN Finish([error |-> "write_unavailable", current |-> 0])
     ELSE IF r.error = "etag_conflict"
     THEN call' = [call EXCEPT !.phase = "conflict", !.result = r.at] /\ UNCHANGED deployment
     ELSE Finish([error |-> r.error, current |-> 0])

\* The request does not reach the canister.
MutationUnreachable ==
  /\ call # NoCall /\ call.phase = "started" /\ call.tool \in MutationTools
  /\ WriteAuthorizationError = "none"
  /\ Finish([error |-> "write_unavailable", current |-> 0])
  /\ UNCHANGED <<store, seen, ran>>

\* mutationToolError: a conflict is answered with the node as it is now, or
\* without it when it is gone or that read fails.
MutationToolError(fails) ==
  /\ call # NoCall /\ call.phase = "conflict"
  /\ Finish([error |-> "etag_conflict",
             current |-> IF fails THEN 0 ELSE store[call.input.db][call.result]])
  /\ UNCHANGED <<store, seen, ran>>

\* Another client writes or deletes a node.
ElsewhereWrites(d, p, v) ==
  /\ call # NoCall /\ call.phase # "done"
  /\ call.others < MaxWrites
  /\ call' = [call EXCEPT !.others = @ + 1]
  /\ v # store[d][p]
  /\ store' = [store EXCEPT ![d][p] = v]
  /\ seen' = [seen EXCEPT ![<<d, p>>] = @ \union {v}]
  /\ UNCHANGED <<deployment, ran>>

-----------------------------------------------------------------------------

Init ==
  /\ deployment \in [mode : {"public", "private_required", "unknown"},
                     writes : {"disabled", "private", "missing"}]
  /\ store \in [Databases -> [Paths -> {0, 1}]]
  /\ call = NoCall
  /\ seen = [k \in Keys |-> {}]
  /\ ran = FALSE

Next ==
  \/ \E t \in Registered : \E input \in Inputs(t), caller \in Callers : Accept(t, input, caller)
  \/ StartReads \/ ReaderFails \/ AnswerReads \/ MutationRefused \/ MutationUnreachable
  \/ call # NoCall /\ \E d \in call.todo : \E bad \in SUBSET Group(d) : ReadMany(d, bad)
  \/ \E entries, kept \in SUBSET Paths : ListDatabaseNodes(entries, kept)
  \/ ListFails
  \/ \E ok \in BOOLEAN : \/ FindDatabases(ok) \/ SearchDatabase(ok) \/ ReadMemoryManifest(ok)
                         \/ QueryTaskContext(ok) \/ GetProfile(ok)
  \/ \E b \in BOOLEAN : MutateNodesBatch(b) \/ MutationToolError(b)
  \/ \E d \in Databases, p \in Paths, v \in {0, LastVersion + 1} : ElsewhereWrites(d, p, v)

Spec == Init /\ [][Next]_vars

-----------------------------------------------------------------------------
(* Properties                                                              *)

Done == call # NoCall /\ call.phase = "done"

\* fetch_many and read_paths answer item i with the node that request i names,
\* as it stood at some moment of the call, though requests repeat, mix
\* databases and mix canisters; an item fails only by its own read.
ReadsAnswerRequests ==
  Done /\ call.tool \in {"fetch_many", "read_paths"} =>
    /\ DOMAIN call.result = DOMAIN call.input.refs
    /\ \A i \in DOMAIN call.result :
         LET r == call.input.refs[i]
         IN IF call.result[i].error
            THEN r.canister # "ours" \/ r \in call.failed
            ELSE r.canister = "ours" /\ call.result[i].version \in seen[<<r.db, r.path>>]

\* A listing that is not truncated held every node of its database at one
\* moment of the call: a node it leaves out was absent at some moment.
ListIsHonest ==
  Done /\ call.tool = "list" /\ call.result.ok =>
    /\ \A p \in call.result.entries : seen[<<call.input.db, p>>] # {0}
    /\ ~call.result.truncated =>
         \A p \in Paths \ call.result.entries : 0 \in seen[<<call.input.db, p>>]
    /\ call.result.truncated => Cardinality(call.result.entries) = call.input.limit

\* A success means that the batch was executed, a definite error that nothing
\* was; only write_unavailable leaves it open.  The node a conflict shows is
\* one the database held during the call.
MutationIsReported ==
  Done /\ call.tool \in MutationTools =>
    /\ call.result.error = "none" => ran
    /\ call.result.error \notin {"none", "write_unavailable"} => ~ran
    /\ call.result.current # 0 => \E p \in Paths : call.result.current \in seen[<<call.input.db, p>>]

\* Whatever the operations, the reviewer's connection changes no node outside
\* its database and prefix, a public one changes nothing.
ReviewBoundary ==
  ran => /\ call.caller.source # "none"
         /\ call.caller.source = "review_service" =>
              /\ call.input.db = ReviewDatabase
              /\ \A i \in DOMAIN call.input.ops :
                   {call.input.ops[i].path, call.input.ops[i].to} \subseteq ReviewPaths

\* What the tools tell a client agrees with the canister, and they stay within
\* what the connection may do.
ToolsAreFaithful == ReadsAnswerRequests /\ ListIsHonest /\ MutationIsReported /\ ReviewBoundary
=============================================================================
