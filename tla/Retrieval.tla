----------------------------- MODULE Retrieval -----------------------------
(***************************************************************************)
(* The search tool of the MCP worker: a first search, auxiliary searches   *)
(* run beside each other, fusion of their lists, and Jev's reranking.      *)
(*                                                                         *)
(* The canister's hits, Jev's probabilities and their failures are free.   *)
(* A path stands for a hit; a list of hits has no path twice.              *)
(***************************************************************************)
EXTENDS Integers, Sequences, FiniteSets, SequencesExt

CONSTANTS
  Paths,
  Evidence,      \* Paths -> evidenceRank, 0..2
  Kind,          \* Paths -> kindRank, 0..3
  Lexical,       \* Paths -> score of the intent's terms in title and preview
  ListLimit,     \* 20 hits of a search
  PoolLimit,     \* 20 candidates
  Limit,         \* results asked for
  Searches       \* auxiliary searches, at most 2

VARIABLES
  mode,          \* "retrieval" or "plain": reranking configured or not
  stage,
  lists,         \* ordered hits of each search, in the order asked
  candidates,
  probability,   \* ghost: Jev's answers
  result

vars == <<mode, stage, lists, candidates, probability, result>>

Distinct(s) == \A i, j \in DOMAIN s : s[i] = s[j] => i = j

HitLists == {s \in UNION {[1..n -> Paths] : n \in 0..ListLimit} : Distinct(s)}

\* A stable sort by a key, greatest first.
SortedBy(s, key(_)) ==
  LET before(i, j) == key(s[i]) > key(s[j]) \/ (key(s[i]) = key(s[j]) /\ i < j)
      at(n) == CHOOSE i \in DOMAIN s : Cardinality({j \in DOMAIN s : before(j, i)}) = n - 1
  IN [n \in DOMAIN s |-> s[at(n)]]

Prefix(s, n) == SubSeq(s, 1, IF Len(s) < n THEN Len(s) ELSE n)

\* orderSearchHitsForRetrieval: hits with evidence first, then files.
Ordered(s) == SortedBy(s, LAMBDA p : Evidence[p] * 4 - Kind[p])

-----------------------------------------------------------------------------
(* selectRetrievalCandidates                                               *)

\* 1 / (60 + i) for the i-th hit from 0, times a common multiple.
Rank(i) == (60 * 61 * 62) \div (59 + i)

Rrf(ls, p) ==
  FoldLeft(LAMBDA sum, l : sum + IF \E i \in DOMAIN l : l[i] = p
                                 THEN Rank(CHOOSE i \in DOMAIN l : l[i] = p) ELSE 0,
           0, ls)

Unique_Concatenated(ls) == FlattenSeq(ls)

\* Each path once, in the order the lists brought it up.
Unique(ls) ==
  FoldLeft(LAMBDA seen, p : IF Contains(seen, p) THEN seen ELSE Append(seen, p), <<>>, FlattenSeq(ls))

SelectRetrievalCandidates(ls) ==
  LET fused == SortedBy(Unique(ls), LAMBDA p : Rrf(ls, p))
  IN Prefix(SortedBy(fused, LAMBDA p : Lexical[p]), PoolLimit)

-----------------------------------------------------------------------------
(* searchDatabase and retrievalSearch                                      *)

Answer(r) ==
  /\ stage' = "done"
  /\ result' = r

\* searchNodes: one query, its hits ordered.
PlainSearch(hits) ==
  /\ stage = "start" /\ mode = "plain"
  /\ lists' = <<Ordered(Prefix(hits, Limit))>>
  /\ candidates' = lists'[1]
  /\ Answer(lists'[1])
  /\ UNCHANGED <<mode, probability>>

\* The first retrieval search; its failure is the tool's.
InitialSearch(hits) ==
  /\ stage = "start" /\ mode = "retrieval"
  /\ lists' = <<Ordered(hits)>>
  /\ stage' = "auxiliary"
  /\ UNCHANGED <<mode, candidates, probability, result>>

SearchFails ==
  /\ stage = "start"
  /\ stage' = "failed"
  /\ UNCHANGED <<mode, lists, candidates, probability, result>>

\* search_nodes_for_retrieval is missing from the canister.
RetrievalSearchUnavailable ==
  /\ stage = "start" /\ mode = "retrieval"
  /\ mode' = "plain"
  /\ UNCHANGED <<stage, lists, candidates, probability, result>>

\* Another query of auxiliaryQueries; one that fails brings nothing.
AuxiliarySearch(hits, fails) ==
  /\ stage = "auxiliary" /\ Len(lists) <= Searches
  /\ lists' = Append(lists, IF fails THEN <<>> ELSE Ordered(hits))
  /\ UNCHANGED <<mode, stage, candidates, probability, result>>

Select ==
  /\ stage = "auxiliary"
  /\ candidates' = SelectRetrievalCandidates(lists)
  /\ stage' = "rerank"
  /\ UNCHANGED <<mode, lists, probability, result>>

\* candidate_size, or any JevError: the candidates as they are.
RerankFails ==
  /\ stage = "rerank"
  /\ Answer(Prefix(candidates, Limit))
  /\ UNCHANGED <<mode, lists, candidates, probability>>

Selected_Unsorted(p) == Prefix(candidates, Limit)

\* The most probable candidates, ties in their order.
Selected(p) ==
  LET at(i) == [path |-> candidates[i], index |-> i]
      sorted == SortedBy([i \in DOMAIN candidates |-> at(i)], LAMBDA c : p[c.index])
  IN [n \in 1..Len(Prefix(sorted, Limit)) |-> sorted[n].path]

\* A complete answer of Jev: a probability for every candidate.
ParseProbabilities == [DOMAIN candidates -> 0..1]

RerankWithJev(p) ==
  /\ stage = "rerank"
  /\ p \in ParseProbabilities
  /\ probability' = p
  /\ Answer(Selected(p))
  /\ UNCHANGED <<mode, lists, candidates>>

-----------------------------------------------------------------------------

Init ==
  /\ mode \in {"retrieval", "plain"} /\ stage = "start"
  /\ lists = <<>> /\ candidates = <<>> /\ probability = <<>> /\ result = <<>>

Next ==
  \/ \E hits \in HitLists : PlainSearch(hits) \/ InitialSearch(hits) \/ AuxiliarySearch(hits, FALSE)
  \/ AuxiliarySearch(<<>>, TRUE)
  \/ SearchFails \/ RetrievalSearchUnavailable \/ Select \/ RerankFails
  \/ stage = "rerank" /\ \E p \in ParseProbabilities : RerankWithJev(p)

Spec == Init /\ [][Next]_vars

-----------------------------------------------------------------------------
(* Properties                                                              *)

\* A search answers with hits of its own searches, each once, as many as asked
\* for if the candidates suffice, whether the auxiliary searches or Jev fail or
\* not; a candidate left out is no likelier than one returned, and no hit is
\* lost while there is room for it.
SearchIsSound ==
  stage = "done" =>
    /\ Distinct(result) /\ Distinct(candidates)
    /\ Range(candidates) \subseteq UNION {Range(lists[i]) : i \in DOMAIN lists}
    /\ Range(result) \subseteq Range(candidates)
    /\ Len(result) = Len(Prefix(candidates, Limit))
    /\ probability # <<>> =>
         \A i, j \in DOMAIN candidates :
           candidates[i] \in Range(result) /\ candidates[j] \notin Range(result) =>
             probability[i] > probability[j] \/ (probability[i] = probability[j] /\ i < j)
    /\ mode = "retrieval" /\ Cardinality(UNION {Range(lists[i]) : i \in DOMAIN lists}) <= PoolLimit =>
         Range(candidates) = UNION {Range(lists[i]) : i \in DOMAIN lists}
=============================================================================
