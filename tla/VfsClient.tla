------------------------------ MODULE VfsClient ------------------------------
(***************************************************************************)
(* How the browser talks to the canister.  A call obtains an actor (one    *)
(* anonymous actor is cached, an identity's is made for the call), sends   *)
(* the request in Candid form, and turns the answer, a refusal or a        *)
(* failure into what the pages use.  A Candid optional is a sequence of at *)
(* most one element, a variant its name, a number in a page a decimal      *)
(* text; the pages' null is Null.  The canister is one database, with what *)
(* the calls read and change.                                              *)
(***************************************************************************)
EXTENDS Integers, Sequences, FiniteSets, TLC

CONSTANTS Users,          \* principals that sign in
          Paths,          \* paths of nodes in one folder, 1..n in the order of names
          LocalHost,      \* BOOLEAN: a local replica, whose root key is fetched
          PageLimit,      \* entries in a page of the history
          Entries,        \* entries in the history at first
          Owner,          \* who created the database and its listing
          Causes,         \* what may fail on the way of a call
          MaxCalls, MaxFaults

Null == "null"
Anonymous == "anonymous"
Callers == Users \cup {Anonymous}

VARIABLES actorCache,     \* actorCache: the actor for reads without an identity
          healthCache,    \* healthCache: the call whose answer is shared, or 0
          calls,          \* the calls made, in order
          node,           \* external: path -> [kind, etag, published, size] or absent
          member,         \* external: principal -> role or none
          summary,        \* external: llm_summary of the metadata, an optional
          ledger,         \* external: number of entries of the cycles history
          listing,        \* external: [status, price, revision]
          sessions,       \* external: nonce -> principal
          asked,          \* ghost: what the pages asked for last and was applied
          faults
canisterVars == <<node, member, summary, ledger, listing, sessions, asked>>
vars == <<actorCache, healthCache, calls, canisterVars, faults>>

Absent == [kind |-> "none", etag |-> 0, published |-> FALSE, size |-> 0]
NoActor == [pc |-> "none", as |-> Null]

Init == /\ actorCache = NoActor /\ healthCache = 0
        /\ calls = <<>> /\ faults = 0
        /\ node = [p \in Paths |-> [kind |-> IF p = 1 THEN "File" ELSE "Folder", etag |-> 1,
                                    published |-> FALSE, size |-> p % 2]]
        /\ \E public \in {"Reader", "none"} :
             member = [c \in Callers |-> CASE c = Owner -> "Owner" [] c = Anonymous -> public
                                           [] OTHER -> "none"]
        /\ listing = [seller |-> Owner, status |-> "Paused", price |-> 1, revision |-> 1]
        /\ summary = <<>> /\ ledger = Entries
        /\ sessions = [n \in 1..MaxCalls |-> Null]
        /\ asked = [kind |-> [p \in Paths |-> IF p = 1 THEN "file" ELSE "folder"],
                    role |-> [c \in Callers |-> Null], summary |-> Null]

-----------------------------------------------------------------------------
(* Conversions *)

candidOptional(value) == IF value = Null THEN <<>> ELSE <<value>>
First(optional) == IF optional = <<>> THEN Null ELSE optional[1]
FirstText(optional) == IF optional = <<>> THEN Null ELSE ToString(optional[1])
BigInt(text) == CHOOSE n \in 0..(Entries + MaxCalls + 1) : ToString(n) = text

nodeKindVariant(kind) ==
  CASE kind = "folder" -> "Folder" [] kind = "source" -> "Source" [] OTHER -> "File"

normalizeNodeKind(kind) ==
  CASE kind = "Folder" -> "folder" [] kind = "Source" -> "source" [] OTHER -> "file"

\* A mutant of databaseRoleVariant: a writer is granted as a reader.
databaseRoleVariant_NoWriter(role) == IF role = "owner" THEN "Owner" ELSE "Reader"

databaseRoleVariant(role) ==
  CASE role = "owner" -> "Owner" [] role = "writer" -> "Writer" [] OTHER -> "Reader"

normalizeDatabaseRole(role) ==
  CASE role = "Owner" -> "owner" [] role = "Writer" -> "writer" [] OTHER -> "reader"

normalizeMarketListingStatus(status) == IF status = "Active" THEN "Active" ELSE "Paused"

\* A page's cursor is a text; none and the empty text ask for the first page.
rawDatabaseCycleCursor(cursor) == IF cursor \in {Null, ""} THEN <<>> ELSE <<BigInt(cursor)>>

rawTextCursor(cursor) == IF cursor = "" THEN <<>> ELSE candidOptional(cursor)

normalizeNode(raw) ==
  [kind |-> normalizeNodeKind(raw.kind), etag |-> ToString(raw.etag)]

normalizeChild(raw) ==
  [name |-> raw.name, kind |-> normalizeNodeKind(raw.kind), updatedAt |-> ToString(raw.updated_at),
   sizeBytes |-> ToString(raw.size_bytes), isPublished |-> raw.is_published]

normalizeMarketListing(raw) ==
  [status |-> normalizeMarketListingStatus(raw.status), priceE8s |-> ToString(raw.price),
   revision |-> ToString(raw.revision)]

normalizeWikiMetrics(raw) == ToString(raw)

normalizeDatabaseCycleEntryPage(raw) ==
  [entries |-> [i \in DOMAIN raw.entries |-> ToString(raw.entries[i])],
   nextCursor |-> FirstText(raw.next_cursor)]

rawMarketUpdateListingRequest(request) ==
  [price_e8s |-> BigInt(request.priceE8s), expected_revision |-> BigInt(request.expectedRevision)]

\* The expected etag of a mutation, when the page knows one.
rawExpectedEtag(etag) == candidOptional(etag)

-----------------------------------------------------------------------------
(* Errors: what a page sees of a failure is a status and a code. *)

Ok(value) == [ok |-> TRUE, value |-> value, status |-> 200, code |-> Null]
ApiError(status, code) == [ok |-> FALSE, value |-> Null, status |-> status, code |-> code]

mutationErrorMetadata(code) ==
  CASE code = "EtagConflict"     -> ApiError(409, "etag_conflict")
    [] code = "NotFound"         -> ApiError(404, "node_not_found")
    [] code = "Forbidden"        -> ApiError(403, "forbidden")
    [] code = "WriteUnavailable" -> ApiError(503, "write_unavailable")
    [] code = "InvalidOperation" -> ApiError(400, "invalid_operation")
    [] OTHER                     -> ApiError(502, "wiki_api_version_mismatch")

classifyCanisterError(message) ==
  CASE message = "database not found" -> ApiError(404, "database_not_found")
    [] message = "node not found"     -> ApiError(404, "node_not_found")
    [] message = "path not found"     -> ApiError(404, "path_not_found")
    [] OTHER                          -> ApiError(400, "wiki_request_failed")

\* What failed on the way: the host, the canister, its interface or the decoding.
classifyApiError(cause) ==
  CASE cause = "canister not found" -> ApiError(502, "canister_not_found")
    [] cause = "network"            -> ApiError(502, "ic_host_unreachable")
    [] cause = "decode"             -> ApiError(502, "wiki_api_version_mismatch")
    [] cause = "method not found"   -> ApiError(502, "wiki_api_missing")
    [] OTHER                        -> ApiError(502, "wiki_request_failed")

\* A mutant of callVfs: an error that was classified is classified again.
callVfs_Again(error) == classifyApiError("other")

callVfs(error) == error

-----------------------------------------------------------------------------
(* A call *)

\* A mutant of UsesCache: the actor of an identity is cached too.
UsesCache_Everyone(u) == TRUE

\* createReadActor: only a call without an identity takes the cached actor.
UsesCache(u) == u = Anonymous

\* createVfsActor, createAuthenticatedActor: the first use creates the actor; on a
\* local replica its root key must arrive.
CreateActor(u) ==
  actorCache' = IF UsesCache(u) /\ actorCache.pc = "none"
                  THEN [pc |-> IF LocalHost THEN "creating" ELSE "ready", as |-> u]
                  ELSE actorCache

NoReply == [refusal |-> Null, value |-> <<>>]

Call(op, u, arg) ==
  [op |-> op, as |-> u, arg |-> arg, pc |-> "actor", actor |-> Null, ran |-> Null,
   applied |-> FALSE, reply |-> NoReply, result |-> Ok(<<>>)]

Start(op, u, arg) ==
  /\ Len(calls) < MaxCalls
  /\ calls' = Append(calls, Call(op, u, arg))
  /\ CreateActor(u)
  /\ healthCache' = IF op = "canister_health" THEN Len(calls) + 1 ELSE healthCache
  /\ UNCHANGED <<canisterVars, faults>>

\* Reads, with the identity when there is one.
ReadNode(u, p) == Start("read_node", u, [path |-> p])
ListChildren(u) == Start("list_children", u, <<>>)
ListCycleEntries(u, cursor) ==
  Start("list_database_cycle_entries", u, [cursor |-> rawDatabaseCycleCursor(cursor)])
GraphLinks(u) == Start("find", u, <<>>)
QueryContext(u) == Start("find", u, <<>>)
SearchNodes(u) == Start("find", u, <<>>)
GetListing(u) == Start("market_get_listing", u, <<>>)
ListMembers(u) == Start("list_database_members", u, <<>>)
ListDatabases(u) == Start("list_databases", u, <<>>)

\* Public calls never carry an identity.
ReadPublicNode(p) == Start("read_public_node", Anonymous, [path |-> p])
CheckSession(nonce) == Start("check_session", Anonymous, [nonce |-> nonce])
WikiMetrics == Start("wiki_metrics", Anonymous, <<>>)
GetCyclesBillingConfig == Start("wiki_metrics", Anonymous, <<>>)
ListListings(cursor) == Start("market_list_listings", Anonymous, [cursor |-> rawTextCursor(cursor)])

\* Mutations of nodes; a move does not overwrite.
WriteNode(u, p, kind, etag) ==
  Start("write_node", u, [path |-> p, kind |-> nodeKindVariant(kind), page |-> kind,
                          expected_etag |-> rawExpectedEtag(etag)])
DeleteNode(u, p, etag) ==
  Start("delete_node", u, [path |-> p, to |-> 0, expected_etag |-> rawExpectedEtag(etag)])
MoveNode(u, p, q, etag) ==
  Start("move_node", u, [path |-> p, to |-> q, expected_etag |-> rawExpectedEtag(etag)])

\* Publications, members, metadata, listing and sessions.
PublishNode(u, p, published) == Start("publish_node", u, [path |-> p, published |-> published])
GrantAccess(u, v, role) ==
  Start("set_access", u, [user |-> v, role |-> databaseRoleVariant(role), page |-> role])
RevokeAccess(u, v) == Start("set_access", u, [user |-> v, role |-> "none", page |-> Null])
UpdateMetadata(u, text) ==
  Start("update_database_metadata", u, [llm_summary |-> candidOptional(text), page |-> text])
UpdateListing(u, price, revision) ==
  Start("market_update_listing", u,
        rawMarketUpdateListingRequest([priceE8s |-> price, expectedRevision |-> revision]))
SetListing(u, status) == Start("market_set_listing", u, [status |-> status])
AuthorizeSession(u) == Start("authorize_session", u, [nonce |-> Len(calls) + 1])

\* canisterHealth: an answer, or a call under way, is shared.
CanisterHealth ==
  IF healthCache = 0
    THEN Start("canister_health", Anonymous, [leader |-> Len(calls) + 1, ended |-> FALSE])
    ELSE /\ Len(calls) < MaxCalls
         /\ calls' = Append(calls,
              [Call("canister_health", Anonymous,
                    [leader |-> healthCache, ended |-> calls[healthCache].pc = "done"])
                 EXCEPT !.pc = "joined"])
         /\ UNCHANGED <<actorCache, healthCache, canisterVars, faults>>

Joined(i) ==
  /\ calls[i].pc = "joined"
  /\ calls[calls[i].arg.leader].pc = "done"
  /\ calls' = [calls EXCEPT ![i].pc = "done", ![i].result = calls[calls[i].arg.leader].result]
  /\ UNCHANGED <<actorCache, healthCache, canisterVars, faults>>

\* A mutant of FailedHealth: the failed answer stays in the cache.
FailedHealth_Kept(i) == UNCHANGED healthCache

\* A failed health call leaves the cache.
FailedHealth(i) == healthCache' = IF healthCache = i THEN 0 ELSE healthCache

Fails(i, error) ==
  /\ calls' = [calls EXCEPT ![i].pc = "done", ![i].result = callVfs(error)]
  /\ FailedHealth(i)

Fault(i) == /\ faults < MaxFaults /\ faults' = faults + 1
            /\ \E cause \in Causes : Fails(i, classifyApiError(cause))

\* fetchRootKey of the cached actor; a failure stays in the cache.
RootKey ==
  /\ actorCache.pc = "creating"
  /\ \/ actorCache' = [actorCache EXCEPT !.pc = "ready"] /\ UNCHANGED faults
     \/ /\ faults < MaxFaults /\ faults' = faults + 1
        /\ actorCache' = [actorCache EXCEPT !.pc = "failed"]
  /\ UNCHANGED <<healthCache, calls, canisterVars>>

GetActor(i) ==
  /\ calls[i].pc = "actor"
  /\ LET actor == IF UsesCache(calls[i].as) THEN actorCache
                  ELSE [pc |-> "ready", as |-> calls[i].as] IN
     \/ /\ actor.pc = "ready"
        /\ calls' = [calls EXCEPT ![i].pc = "send", ![i].actor = actor.as]
        /\ UNCHANGED <<healthCache, faults>>
     \/ /\ actor.pc = "failed"
        /\ Fails(i, classifyApiError("network"))
        /\ UNCHANGED faults
     \/ LocalHost /\ ~UsesCache(calls[i].as) /\ Fault(i)
  /\ UNCHANGED <<actorCache, canisterVars>>

-----------------------------------------------------------------------------
(* External: the canister, as the calls use it *)

Writers == {"Owner", "Writer"}
Version == 2 + Cardinality({j \in DOMAIN calls : calls[j].applied})

\* The answer to call i, and whether it changed anything.
Answers(i, refusal, value, changes) ==
  calls' = [calls EXCEPT ![i].pc = "reply", ![i].ran = calls[i].actor,
              ![i].applied = changes /\ refusal = Null,
              ![i].reply = [refusal |-> refusal, value |-> IF refusal = Null THEN value ELSE <<>>]]

EntriesAfter(cursor) ==
  LET after == IF cursor = <<>> THEN 0 ELSE cursor[1]
      last  == IF after + PageLimit < ledger THEN after + PageLimit ELSE ledger IN
  [entries |-> [k \in 1..(last - after) |-> after + k],
   next_cursor |-> IF last < ledger THEN <<last>> ELSE <<>>]

Orders(s) == {f \in [1..Cardinality(s) -> s] : \A k, m \in DOMAIN f : f[k] = f[m] => k = m}
Present == {p \in Paths : node[p].kind # "none"}

MayList(u) == member[u] = "Owner" \/ (u = Anonymous /\ member[u] # "none")

\* A child as the canister delivers it; publications are shown to members only.
RawChild(u, p) ==
  [name |-> p, kind |-> node[p].kind, updated_at |-> node[p].etag, size_bytes |-> node[p].size,
   is_published |-> node[p].published /\ u # Anonymous]

CanisterReads(i) ==
  LET c == calls[i] IN
  LET role == member[c.actor]
      Unless(allowed) == IF allowed THEN Null ELSE "no access" IN
  /\ \/ /\ c.op = "read_node"
        /\ Answers(i, Unless(role # "none"),
                   IF c.arg.path \in Present THEN <<node[c.arg.path]>> ELSE <<>>, FALSE)
     \/ /\ c.op = "list_children"
        /\ \E delivered \in Orders(Present) :
             Answers(i, Unless(role # "none"),
                     [k \in DOMAIN delivered |-> RawChild(c.actor, delivered[k])], FALSE)
     \/ /\ c.op = "list_database_members"
        /\ Answers(i, Unless(MayList(c.actor)), <<member>>, FALSE)
     \/ /\ c.op = "list_databases"
        /\ Answers(i, Null, IF role = "none" THEN <<>> ELSE <<[role |-> role, llm_summary |-> summary]>>,
                   FALSE)
     \/ /\ c.op = "list_database_cycle_entries"
        /\ Answers(i, Unless(role \in Writers), <<EntriesAfter(c.arg.cursor)>>, FALSE)
     \/ /\ c.op = "market_get_listing"
        /\ Answers(i, Unless(listing.status = "Active" \/ c.actor = listing.seller), <<listing>>, FALSE)
     \/ /\ c.op = "read_public_node"
        /\ Answers(i, Null, IF node[c.arg.path].published THEN <<node[c.arg.path]>> ELSE <<>>, FALSE)
     \/ /\ c.op = "check_session"
        /\ LET u == sessions[c.arg.nonce] IN
           Answers(i, Unless(u # Null /\ member[IF u = Null THEN Anonymous ELSE u] # "none"), <<u>>,
                   FALSE)
     \/ /\ c.op = "find"      \* links, contexts and hits, in the canister's order
        /\ \E found \in Orders(Present) :
             Answers(i, Unless(role # "none"), [k \in DOMAIN found |-> node[found[k]]], FALSE)
     \/ /\ c.op = "wiki_metrics" /\ Answers(i, Null, <<ledger>>, FALSE)
     \/ /\ c.op = "market_list_listings"
        /\ Answers(i, Null, IF listing.status = "Active" /\ member[listing.seller] = "Owner"
                              /\ c.arg.cursor = <<>> THEN <<listing>> ELSE <<>>, FALSE)
     \/ /\ c.op = "canister_health" /\ Answers(i, Null, <<ledger>>, FALSE)
  /\ UNCHANGED canisterVars

\* The canister's guard on the version of an existing node.
Matches(p, expected) == expected # <<>> /\ ToString(node[p].etag) = expected[1]

\* write_node, write_nodes, write_source_for_generation and mkdir_node.
PutRefusal(p, kind, expected) ==
  CASE kind = "Folder" /\ (expected # <<>> \/ node[p].kind \notin {"none", "Folder"}) -> "InvalidOperation"
    [] kind # "Folder" /\ node[p].kind = "Folder"                  -> "InvalidOperation"
    [] kind # "Folder" /\ node[p].kind = "none" /\ expected # <<>> -> "NotFound"
    [] kind # "Folder" /\ node[p].kind # "none" /\ ~Matches(p, expected) -> "EtagConflict"
    [] OTHER -> Null

\* delete_node and move_node, of a node that has no children.
TakeRefusal(p, to, expected) ==
  CASE p = to                -> "InvalidOperation"
    [] node[p].kind = "none" -> "NotFound"
    [] ~Matches(p, expected) -> "EtagConflict"
    [] to # 0 /\ node[IF to = 0 THEN p ELSE to].kind # "none" -> "InvalidOperation"
    [] OTHER -> Null

Refusal(u, why) == IF member[u] \in Writers THEN why ELSE "Forbidden"

\* Folders stay as they are; a source is no longer published, nor is a node that goes.
CanisterMutates(i) ==
  LET c == calls[i] IN
  LET p == c.arg.path IN
  /\ \/ /\ c.op = "write_node"
        /\ LET kind == c.arg.kind
               refusal == Refusal(c.actor, PutRefusal(p, kind, c.arg.expected_etag))
               kept == refusal # Null \/ (kind = "Folder" /\ node[p].kind = "Folder") IN
           /\ Answers(i, refusal, <<Version>>, ~kept)
           /\ node' = IF kept THEN node
                      ELSE [node EXCEPT ![p] = [kind |-> kind, etag |-> Version, size |-> Version % 2,
                                                published |-> node[p].published /\ kind = "File"]]
           /\ asked' = IF kept THEN asked ELSE [asked EXCEPT !.kind[p] = c.arg.page]
     \/ /\ c.op \in {"delete_node", "move_node"}
        /\ LET to == c.arg.to
               refusal == Refusal(c.actor, TakeRefusal(p, to, c.arg.expected_etag)) IN
           /\ Answers(i, refusal, <<Version>>, TRUE)
           /\ node' = IF refusal # Null THEN node
                      ELSE [q \in Paths |->
                              IF q = p THEN Absent
                              ELSE IF q = to THEN [node[p] EXCEPT !.etag = Version, !.published = FALSE]
                              ELSE node[q]]
           /\ asked' = IF refusal # Null THEN asked
                       ELSE [asked EXCEPT !.kind = [q \in Paths |->
                              IF q = p THEN Null ELSE IF q = to THEN asked.kind[p] ELSE asked.kind[q]]]
  /\ UNCHANGED <<member, summary, ledger, listing, sessions>>

CanisterManages(i) ==
  LET c == calls[i] IN
  LET owner == member[c.actor] = "Owner"
      Unless(allowed) == IF allowed THEN Null ELSE "no access" IN
  /\ \/ /\ c.op = "publish_node"
        /\ LET allowed == owner /\ node[c.arg.path].kind = "File" IN
           /\ Answers(i, IF owner /\ node[c.arg.path].kind = "none" THEN "node not found"
                         ELSE Unless(allowed), <<>>, TRUE)
           /\ node' = IF allowed THEN [node EXCEPT ![c.arg.path].published = c.arg.published] ELSE node
        /\ UNCHANGED <<member, summary, listing, sessions, asked>>
     \/ /\ c.op = "set_access"
        /\ LET allowed == owner /\ (c.arg.user = c.actor => c.arg.role = "Owner") IN
           /\ Answers(i, Unless(allowed), <<>>, TRUE)
           /\ IF allowed
                THEN /\ member' = [member EXCEPT ![c.arg.user] = c.arg.role]
                     /\ asked' = [asked EXCEPT !.role[c.arg.user] = c.arg.page]
                ELSE UNCHANGED <<member, asked>>
        /\ UNCHANGED <<node, summary, listing, sessions>>
     \/ /\ c.op = "update_database_metadata"
        /\ Answers(i, Unless(owner), <<c.arg.llm_summary>>, TRUE)
        /\ summary' = IF owner THEN c.arg.llm_summary ELSE summary
        /\ asked' = IF owner THEN [asked EXCEPT !.summary = c.arg.page] ELSE asked
        /\ UNCHANGED <<node, member, listing, sessions>>
     \/ /\ c.op \in {"market_update_listing", "market_set_listing"}
        /\ LET allowed == /\ c.actor = listing.seller
                          /\ c.op = "market_update_listing" => c.arg.expected_revision = listing.revision
                          /\ c.op = "market_set_listing" /\ c.arg.status = "Active" => owner
               new == IF c.op = "market_set_listing" THEN [listing EXCEPT !.status = c.arg.status]
                      ELSE [listing EXCEPT !.price = c.arg.price_e8s, !.revision = @ + 1] IN
           /\ Answers(i, Unless(allowed), <<new>>, TRUE)
           /\ listing' = IF allowed THEN new ELSE listing
        /\ UNCHANGED <<node, member, summary, sessions, asked>>
     \/ /\ c.op = "authorize_session"
        /\ LET allowed == member[c.actor] # "none" IN
           /\ Answers(i, Unless(allowed), <<>>, TRUE)
           /\ sessions' = IF allowed THEN [sessions EXCEPT ![c.arg.nonce] = c.actor] ELSE sessions
        /\ UNCHANGED <<node, member, summary, listing, asked>>
  /\ UNCHANGED ledger

\* The call reaches the canister, or fails on its way.
Execute(i) ==
  /\ calls[i].pc = "send"
  /\ \/ /\ CanisterReads(i) \/ CanisterMutates(i) \/ CanisterManages(i)
        /\ UNCHANGED <<healthCache, faults>>
     \/ Fault(i) /\ UNCHANGED canisterVars
  /\ UNCHANGED actorCache

-----------------------------------------------------------------------------
(* The answer, as the page gets it *)

IsMutation(c) == c.op \in {"write_node", "delete_node", "move_node"}

\* compareExplorerChildNodes, with a node's version for its time: folders first
\* unless by size, then the key, then the name.
Folder(child) == child.kind \in {"folder", "directory"}
Precedes(order, a, b) ==
  LET key(x) == IF order = "size-desc" THEN BigInt(x.sizeBytes) ELSE BigInt(x.updatedAt) IN
  CASE order # "size-desc" /\ Folder(a) # Folder(b)        -> Folder(a)
    [] order # "name-asc" /\ key(a) # key(b)               -> key(a) > key(b)
    [] OTHER                                               -> a.name < b.name

SortedBy(order, children) == SortSeq(children, LAMBDA a, b : Precedes(order, a, b))

sortChildNodes(children) == SortedBy("name-asc", children)

Decoded(c) ==
  LET value == c.reply.value IN
  CASE c.op \in {"read_node", "find"} -> [k \in DOMAIN value |-> normalizeNode(value[k])]
    [] c.op = "list_children"   -> sortChildNodes([k \in DOMAIN value |-> normalizeChild(value[k])])
    [] c.op = "list_database_members" ->
         <<[m \in {u \in Callers : value[1][u] # "none"} |-> normalizeDatabaseRole(value[1][m])]>>
    [] c.op = "list_databases"  -> [k \in DOMAIN value |->
                                      [role |-> normalizeDatabaseRole(value[k].role),
                                       llmSummary |-> First(value[k].llm_summary)]]
    [] c.op = "list_database_cycle_entries" -> <<normalizeDatabaseCycleEntryPage(value[1])>>
    [] c.op \in {"market_get_listing", "market_update_listing", "market_set_listing"} ->
         <<normalizeMarketListing(value[1])>>
    [] c.op = "market_list_listings" -> [k \in DOMAIN value |-> normalizeMarketListing(value[k])]
    [] c.op = "wiki_metrics" -> <<normalizeWikiMetrics(value[1])>>
    [] c.op = "read_public_node" -> [k \in DOMAIN value |-> [updatedAt |-> ToString(value[k].etag)]]
    [] c.op = "update_database_metadata" -> <<First(value[1])>>
    [] OTHER -> value

Return(i) ==
  /\ calls[i].pc = "reply"
  /\ LET c == calls[i]
         refusal == c.reply.refusal IN
     \/ /\ refusal = Null
        /\ calls' = [calls EXCEPT ![i].pc = "done", ![i].result = Ok(Decoded(c))]
        /\ UNCHANGED <<healthCache, faults>>
     \/ /\ refusal # Null
        /\ Fails(i, IF IsMutation(c) THEN mutationErrorMetadata(refusal)
                    ELSE classifyCanisterError(refusal))
        /\ UNCHANGED faults
     \/ Fault(i)
  /\ UNCHANGED <<actorCache, canisterVars>>

-----------------------------------------------------------------------------
Etags == {Null} \cup {ToString(node[p].etag) : p \in Paths}
Results(op) == {i \in DOMAIN calls : calls[i].op = op /\ calls[i].pc = "done" /\ calls[i].result.ok}

\* The next page is asked for with the cursor of an earlier one.
Cursors == {Null} \cup {calls[i].result.value[1].nextCursor : i \in Results("list_database_cycle_entries")}

Next ==
  \/ \E u \in Callers :
       \/ GraphLinks(u) \/ QueryContext(u) \/ SearchNodes(u)
       \/ ListChildren(u) \/ GetListing(u) \/ ListMembers(u) \/ ListDatabases(u)
       \/ \E p \in Paths : ReadNode(u, p)
       \/ \E cursor \in Cursors : ListCycleEntries(u, cursor)
  \/ \E p \in Paths : ReadPublicNode(p)
  \/ \E nonce \in 1..MaxCalls : CheckSession(nonce)
  \/ \E u \in Users :
       \/ \E p \in Paths :
            \/ \E etag \in Etags :
                 \/ \E kind \in {"file", "source", "folder"} : WriteNode(u, p, kind, etag)
                 \/ DeleteNode(u, p, etag)
                 \/ \E q \in Paths : MoveNode(u, p, q, etag)
            \/ \E published \in BOOLEAN : PublishNode(u, p, published)
       \/ \E v \in Callers : (\E role \in {"owner", "writer", "reader"} : GrantAccess(u, v, role))
                             \/ RevokeAccess(u, v)
       \/ \E text \in {Null, "t"} : UpdateMetadata(u, text)
       \/ \E price, revision \in {"1", "2"} : UpdateListing(u, price, revision)
       \/ \E status \in {"Active", "Paused"} : SetListing(u, status)
       \/ AuthorizeSession(u)
  \/ WikiMetrics \/ GetCyclesBillingConfig
  \/ \E cursor \in {Null, "l"} : ListListings(cursor)
  \/ CanisterHealth \/ RootKey
  \/ \E i \in DOMAIN calls : Joined(i) \/ GetActor(i) \/ Execute(i) \/ Return(i)

Spec == Init /\ [][Next]_vars

-----------------------------------------------------------------------------
(* Properties *)

\* A call runs at the canister as the principal it was made for, whoever else is
\* calling; a public call runs as nobody.
RunsAsItsCaller == \A i \in DOMAIN calls : calls[i].ran \in {Null, calls[i].as}

\* What the canister holds reads back in a page as what a page asked for.
ReadsBack ==
  /\ \A p \in Present : normalizeNodeKind(node[p].kind) = asked.kind[p]
  /\ \A u \in Callers : asked.role[u] # Null => normalizeDatabaseRole(member[u]) = asked.role[u]
  /\ First(summary) = asked.summary

\* A status below 502 is the canister's refusal, so nothing changed, and the other
\* way round; a conflict of versions, and only that, is reported as one.
RefusalsAreKnown ==
  \A i \in DOMAIN calls :
    LET c == calls[i] IN
    (c.pc = "done" /\ c.op # "canister_health") =>
      /\ c.result.status \notin {200, 502} => c.ran # Null /\ ~c.applied
      /\ c.reply.refusal # Null /\ faults = 0 => c.result.status \notin {200, 502}
      /\ (c.reply.refusal = "EtagConflict" /\ c.result.status # 502) <=> c.result.code = "etag_conflict"

\* Pages of the history follow each other without a gap or an overlap, and the last
\* one is the one that has no cursor.
PagesFollow ==
  \A i \in Results("list_database_cycle_entries") :
    LET c    == calls[i]
        page == c.result.value[1]
        from == IF c.arg.cursor = <<>> THEN 0 ELSE c.arg.cursor[1] IN
    /\ \A k \in DOMAIN page.entries : BigInt(page.entries[k]) = from + k
    /\ page.nextCursor = Null \/ BigInt(page.nextCursor) = from + Len(page.entries)
    /\ page.nextCursor = Null <=> from + Len(page.entries) = ledger

\* A health answer is shared while it is fresh from the canister: who asks after a
\* failure asks again.
HealthIsShared ==
  \A i \in DOMAIN calls :
    calls[i].op = "canister_health" /\ calls[i].arg.ended =>
      calls[calls[i].arg.leader].result.ok

\* A listing is in the explorer's order however the canister delivered it.
ListingIsOrdered ==
  \A i \in Results("list_children") :
    LET children == calls[i].result.value IN
    \A order \in {"name-asc", "modified-desc", "size-desc"} :
      LET sorted == SortedBy(order, children) IN
      /\ Len(sorted) = Len(children)
      /\ \A k, m \in DOMAIN sorted : k < m => Precedes(order, sorted[k], sorted[m])
                                              /\ ~Precedes(order, sorted[m], sorted[k])

\* What the browser's client of the canister promises the pages (the wrappers of
\* vfs-client.ts): a call's identity, its answer and its failure are not mixed up.
ClientIsFaithful == /\ RunsAsItsCaller /\ ReadsBack /\ RefusalsAreKnown
                    /\ PagesFollow /\ HealthIsShared /\ ListingIsOrdered

=============================================================================
