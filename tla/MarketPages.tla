----------------------------- MODULE MarketPages -----------------------------
(***************************************************************************)
(* Three pages that read the market and the metrics: the marketplace       *)
(* (pages of listings, loaded one after the other, filtered and sorted in  *)
(* the browser), the profile (totals over all pages of what a user bought  *)
(* and sells) and the metrics (one answer, drawn as lines).  Meanwhile     *)
(* others list, pause, reprice and buy.  Listings are numbered in the      *)
(* order of their ids.                                                     *)
(***************************************************************************)
EXTENDS Integers, Sequences, FiniteSets, SequencesExt

CONSTANTS Listings,       \* 1..n: the databases and their listings
          Seller,         \* who sells them all
          Buyer,          \* who may buy them
          Bought,         \* what the buyer bought before
          Prices,
          PageLimit,      \* length of a page, of listings and of entitlements
          Values,         \* values of a metric, with Missing for one that is not a number
          Points,         \* points of the series
          MaxLoads, MaxChanges

Null == 0                 \* no cursor; the first id is 1
Missing == -1

VARIABLES market,         \* external: listing -> [active, price, sold]
          owned,          \* external: entitlements of the buyer
          page,           \* MarketplaceClient: listings, cursor, state
          params,         \* its search parameters
          since,          \* ghost: listings active since the page was opened
          principal,      \* who is signed in, on the profile page
          reads,          \* loadProfile: reads under way
          stats,          \* profileStats
          metrics,        \* MetricsClient: state and series
          loads, changes
vars == <<market, owned, page, params, since, principal, reads, stats, metrics, loads, changes>>
pageVars == <<page, params, since>>
profileVars == <<principal, reads, stats>>

NoPage == [listings |-> <<>>, cursor |-> Null, state |-> "idle", loaded |-> FALSE]
NoStats == [of |-> "nobody", purchased |-> 0, atLeast |-> 0, listings |-> 0, sales |-> 0]
Users == {Seller, Buyer}

Active == {l \in Listings : market[l].active}

Init == /\ \E active \in SUBSET Listings, price \in [Listings -> Prices] :
             market = [l \in Listings |-> [active |-> l \in active, price |-> price[l],
                                          sold |-> IF l \in Bought THEN 1 ELSE 0]]
        /\ owned = Bought
        /\ page = NoPage /\ params = [max |-> Null, sort |-> "recent"]
        /\ since = Active
        /\ principal = "nobody" /\ reads = {} /\ stats = NoStats
        /\ metrics = [state |-> "idle", series |-> <<>>]
        /\ loads = 0 /\ changes = 0

Load == loads < MaxLoads /\ loads' = loads + 1

-----------------------------------------------------------------------------
(* External: the market *)

Change == changes < MaxChanges /\ changes' = changes + 1

SetActive(l) ==
  /\ Change
  /\ market' = [market EXCEPT ![l].active = ~@]
  /\ since' = since \ {l}
  /\ UNCHANGED <<owned, page, params, profileVars, metrics, loads>>

Reprice(l, price) ==
  /\ Change
  /\ market' = [market EXCEPT ![l].price = price]
  /\ UNCHANGED <<owned, pageVars, profileVars, metrics, loads>>

Buy(l) ==
  /\ Change
  /\ market[l].active /\ l \notin owned
  /\ owned' = owned \cup {l}
  /\ market' = [market EXCEPT ![l].sold = @ + 1]
  /\ UNCHANGED <<pageVars, profileVars, metrics, loads>>

\* A page of the ids in s after the cursor, and the cursor of the next page.
PageOf(s, cursor) ==
  LET rest == SetToSortSeq({l \in s : l > cursor}, <)
      ids  == SubSeq(rest, 1, IF Len(rest) < PageLimit THEN Len(rest) ELSE PageLimit) IN
  [ids |-> ids, next |-> IF Len(rest) > PageLimit THEN ids[PageLimit] ELSE Null]

-----------------------------------------------------------------------------
(* The marketplace *)

\* Opening the page loads the first listings; leaving it forgets everything.
OpenMarket ==
  /\ Load
  /\ page' = [NoPage EXCEPT !.state = "loading"]
  /\ since' = Active
  /\ UNCHANGED <<market, owned, params, profileVars, metrics, changes>>

\* A mutant of MayLoadMore: the button is enabled while a page is loading.
MayLoadMore_Always == page.cursor # Null

MayLoadMore == page.cursor # Null /\ page.state # "loading"

\* "Load more" with the cursor of the last page.
LoadMore ==
  /\ Load /\ MayLoadMore
  /\ page' = [page EXCEPT !.state = IF page.state = "loading" THEN "twice" ELSE "loading"]
  /\ UNCHANGED <<market, owned, params, since, profileVars, metrics, changes>>

View(l) == [id |-> l, price |-> market[l].price, sold |-> market[l].sold]

\* The answer is appended; a failure keeps what was loaded.
Loaded ==
  /\ page.state \in {"loading", "twice"}
  /\ LET answer == PageOf(Active, page.cursor)
         added  == [k \in DOMAIN answer.ids |-> View(answer.ids[k])] IN
     \/ page' = [listings |-> page.listings \o added
                                \o (IF page.state = "twice" THEN added ELSE <<>>),
                 cursor |-> answer.next, state |-> "idle", loaded |-> TRUE]
     \/ page' = [page EXCEPT !.state = "error"]
  /\ UNCHANGED <<market, owned, params, since, profileVars, metrics, loads, changes>>

\* replaceParams: the search form, the highest price and the order.
SetParams(max, sort) ==
  /\ Load
  /\ params' = [max |-> max, sort |-> sort]
  /\ UNCHANGED <<market, owned, page, since, profileVars, metrics, changes>>

\* compareListings; by default the newest first, for which the number stands.
compareListings(left, right, sort) ==
  CASE sort = "popular"   -> right.sold - left.sold
    [] sort = "price_low" -> left.price - right.price
    [] OTHER              -> right.id - left.id

WithinMax(view) == params.max = Null \/ view.price <= params.max

\* Stable: listings that compare equal keep their order.
Filtered ==
  LET kept == SelectSeq(page.listings, WithinMax)
      Before(i, j) == LET c == compareListings(kept[i], kept[j], params.sort) IN
                      c < 0 \/ (c = 0 /\ i < j)
      order == SetToSortSeq(DOMAIN kept, Before) IN
  [k \in DOMAIN order |-> kept[order[k]]]

-----------------------------------------------------------------------------
(* The profile *)

SignIn(u) ==
  /\ Load
  /\ principal' = u
  /\ UNCHANGED <<market, owned, pageVars, reads, stats, metrics, changes>>

\* loadProfile for the principal, or nothing when nobody is signed in.
LoadProfile ==
  /\ Load
  /\ IF principal = "nobody" THEN stats' = NoStats /\ UNCHANGED reads
     ELSE /\ reads' = reads \cup {[of |-> principal, id |-> loads, atLeast |->
                                     IF principal = Buyer THEN Cardinality(owned) ELSE 0,
                                   buys |-> [cursor |-> Null, count |-> 0, pc |-> "next"],
                                   sells |-> [cursor |-> Null, count |-> 0, sales |-> 0,
                                              pc |-> "next"]]}
          /\ UNCHANGED stats
  /\ UNCHANGED <<market, owned, pageVars, principal, metrics, changes>>

\* A mutant of Pc: the loops stop after their first page.
Pc_OnePage(cursor) == "done"

\* The loops end when a page brings no cursor.
Pc(cursor) == IF cursor = Null THEN "done" ELSE "next"

\* loadPurchasedDatabaseCount: one more page.
CountPurchases(r) ==
  /\ r.buys.pc = "next"
  /\ LET answer == PageOf(IF r.of = Buyer THEN owned ELSE {}, r.buys.cursor)
         buys   == [cursor |-> answer.next, count |-> r.buys.count + Len(answer.ids),
                    pc |-> Pc(answer.next)] IN
     reads' = (reads \ {r}) \cup {[r EXCEPT !.buys = buys]}
  /\ UNCHANGED <<market, owned, pageVars, principal, stats, metrics, loads, changes>>

SoldOf(ids) == FoldSeq(LAMBDA l, n : n + market[l].sold, 0, ids)

\* loadSellerStats: one more page of the seller's active listings.
CountSales(r) ==
  /\ r.sells.pc = "next"
  /\ LET answer == PageOf(IF r.of = Seller THEN Active ELSE {}, r.sells.cursor)
         sells  == [cursor |-> answer.next, count |-> r.sells.count + Len(answer.ids),
                    sales |-> r.sells.sales + SoldOf(answer.ids), pc |-> Pc(answer.next)] IN
     reads' = (reads \ {r}) \cup {[r EXCEPT !.sells = sells]}
  /\ UNCHANGED <<market, owned, pageVars, principal, stats, metrics, loads, changes>>

\* Both are there, or one failed.
ProfileLoaded(r) ==
  /\ \/ /\ r.buys.pc = "done" /\ r.sells.pc = "done"
        /\ stats' = [of |-> r.of, purchased |-> r.buys.count, atLeast |-> r.atLeast,
                     listings |-> r.sells.count, sales |-> r.sells.sales]
     \/ stats' = NoStats
  /\ reads' = reads \ {r}
  /\ UNCHANGED <<market, owned, pageVars, principal, metrics, loads, changes>>

-----------------------------------------------------------------------------
(* The metrics *)

\* loadMetrics; the button waits for the answer.
LoadMetrics ==
  /\ Load /\ metrics.state # "loading"
  /\ metrics' = [metrics EXCEPT !.state = "loading"]
  /\ UNCHANGED <<market, owned, pageVars, profileVars, changes>>

\* The answer replaces the series, a failure clears it.
MetricsLoaded ==
  /\ metrics.state = "loading"
  /\ \/ \E series \in [1..Points -> Values] : metrics' = [state |-> "ready", series |-> series]
     \/ metrics' = [state |-> "error", series |-> <<>>]
  /\ UNCHANGED <<market, owned, pageVars, profileVars, loads, changes>>

\* A mutant of AddPoint: a missing value does not end the line.
AddPoint_Bridged(lines, i, value) ==
  IF value = Missing THEN lines
  ELSE [lines EXCEPT !.current = Append(@, [index |-> i, value |-> value])]

\* A missing value ends the line that is being drawn.
AddPoint(lines, i, value) ==
  CASE value # Missing -> [lines EXCEPT !.current = Append(@, [index |-> i, value |-> value])]
    [] lines.current = <<>> -> lines
    [] OTHER -> [done |-> Append(lines.done, lines.current), current |-> <<>>]

\* chartLineSegments.
Segments(values) ==
  LET lines == FoldLeftDomain(LAMBDA acc, i : AddPoint(acc, i, values[i]),
                              [done |-> <<>>, current |-> <<>>], values) IN
  IF lines.current = <<>> THEN lines.done ELSE Append(lines.done, lines.current)

-----------------------------------------------------------------------------
Next ==
  \/ \E l \in Listings : SetActive(l) \/ Buy(l) \/ \E price \in Prices : Reprice(l, price)
  \/ OpenMarket \/ LoadMore \/ Loaded
  \/ \E max \in Prices \cup {Null}, sort \in {"recent", "popular", "price_low"} : SetParams(max, sort)
  \/ \E u \in Users \cup {"nobody"} : SignIn(u)
  \/ LoadProfile
  \/ \E r \in reads : CountPurchases(r) \/ CountSales(r) \/ ProfileLoaded(r)
  \/ LoadMetrics \/ MetricsLoaded

Spec == Init /\ [][Next]_vars

-----------------------------------------------------------------------------
(* Properties *)

\* The marketplace shows no listing twice, and once there is no more to load it
\* has every listing that was for sale all the time since the page was opened.
CatalogIsComplete ==
  LET ids == [k \in DOMAIN page.listings |-> page.listings[k].id] IN
  /\ \A i, j \in DOMAIN ids : i < j => ids[i] < ids[j]
  /\ page.loaded /\ page.state = "idle" /\ page.cursor = Null =>
       \A l \in since : \E k \in DOMAIN ids : ids[k] = l

\* What is shown is what was loaded and passes the filter, in the order chosen.
ShownIsFiltered ==
  /\ {Filtered[k] : k \in DOMAIN Filtered} = {v \in {page.listings[k] : k \in DOMAIN page.listings} :
                                                WithinMax(v)}
  /\ \A i, j \in DOMAIN Filtered : i < j => compareListings(Filtered[i], Filtered[j], params.sort) <= 0

\* The number of purchases shown lies between what the user had when the count
\* began and what the user has, however many pages it took and whatever was bought
\* in between.
CountIsBracketed ==
  stats.purchased >= stats.atLeast
    /\ stats.purchased <= (IF stats.of = Buyer THEN Cardinality(owned) ELSE 0)

\* The lines of a chart hold every value there is, once and in order, and a line
\* never crosses a missing value.
LinesAreFaithful ==
  LET values == metrics.series
      lines  == Segments(values)
      drawn  == FlattenSeq(lines) IN
  /\ {drawn[k].index : k \in DOMAIN drawn} = {i \in DOMAIN values : values[i] # Missing}
  /\ \A k \in DOMAIN drawn : drawn[k].value = values[drawn[k].index]
  /\ \A n \in DOMAIN lines : \A k \in 2..Len(lines[n]) :
       lines[n][k].index = lines[n][k - 1].index + 1

\* What the market, profile and metrics pages show is what the canister answered.
PagesAreFaithful == CatalogIsComplete /\ ShownIsFiltered /\ CountIsBracketed /\ LinesAreFaithful

=============================================================================
