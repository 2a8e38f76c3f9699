------------------------------- MODULE History -------------------------------
(***************************************************************************)
(* The transaction history: RpcClient.rpcCall and getHistory, the page     *)
(* normalisation, the local cache it falls back to, and HistoryView, which *)
(* loads the first page, adds further ones and starts again on a switch of *)
(* account.  A row is its account, whether it was rejected, and its age.   *)
(***************************************************************************)
EXTENDS Naturals, Sequences, FiniteSets, Filters

CONSTANTS
  HistOwners,  \* accounts
  Confirmed,   \* [HistOwners -> confirmed transactions at the start]
  Rejected,    \* [HistOwners -> rejected ones]
  PageSize,    \* PAGE_SIZE
  MaxArrivals, \* bound: transactions that get confirmed meanwhile
  MaxLoads,    \* bound: refreshes, that of the first showing among them
  HistShapes   \* shapes of a page: "envelope", "no metadata", "bare"

ASSUME HistoryAssumption ==
  /\ Confirmed \in [HistOwners -> Nat] /\ Rejected \in [HistOwners -> Nat]
  /\ PageSize \in Nat \ {0} /\ MaxArrivals \in Nat /\ MaxLoads \in Nat \ {0}
  /\ HistShapes \subseteq {"envelope", "no metadata", "bare"}

VARIABLES
  ledgerRows, \* node: [account -> confirmed transactions, numbered by age]
  txCache,    \* tx-cache: rows of transactions this wallet sent
  viewer,     \* the account on the screen
  entries,    \* the rows of the table
  hasMore,    \* whether Load more is offered
  loads,      \* the requests in flight
  mixed,      \* history: a further page has landed on another list than it was asked for
  loadCount   \* bound: refreshes so far

hist_vars == <<ledgerRows, txCache, viewer, entries, hasMore, loads, mixed, loadCount>>

Row(o, kind, i) == [owner |-> o, kind |-> kind, nth |-> i]
EntryKeys(rows) == {rows[i] : i \in 1..Len(rows)}

-----------------------------------------------------------------------------
(* The RPC client.                                                         *)

\* What becomes of a POST: it never gets there, times out, or comes back as something else
\* than JSON, an HTTP error, a JSON-RPC error, with no body or with a result.
HttpReplies == {"unreachable", "timed out", "not JSON", "HTTP error", "RPC error", "empty", "result"}

\* rpcCall never throws; an empty body is a success without a result.
RpcCall(reply) ==
  [ok |-> reply \in {"empty", "result"}, result |-> reply = "result",
   status |-> IF reply \in {"unreachable", "timed out"} THEN 0 ELSE IF reply = "HTTP error" THEN 500 ELSE 200]

\* coerceHistoryRow: rejected rows are tagged as failed.
Coerced(o, kind, newest, oldest) ==
  [k \in 1..(IF newest >= oldest THEN newest + 1 - oldest ELSE 0) |-> Row(o, kind, newest + 1 - k)]

Below(m, n) == IF m > n THEN m - n ELSE 0

\* The node's confirmed rows, newest first, from offset on.
Slice(o, limit, offset) ==
  LET newest == Below(ledgerRows[o], offset)
  IN Coerced(o, "confirmed", newest, Below(newest, limit) + 1)

\* normalizeHistoryPage
NormalizeHistoryPage(o, shape, limit, offset) ==
  LET confirmed == Slice(o, limit, offset)
      rejected  == IF shape = "envelope" THEN Coerced(o, "failed", Rejected[o], 1) ELSE <<>>
  IN [transactions |-> IF offset = 0 THEN rejected \o confirmed ELSE confirmed,
      hasMore |-> CASE shape = "bare" -> Len(confirmed) >= limit
                    [] shape = "no metadata" -> FALSE
                    [] shape = "envelope" -> offset + Len(confirmed) < ledgerRows[o]]

\* Mutant: the page of the old method may claim that there is more.
LegacyPageOffersMore(o) ==
  LET page == Slice(o, PageSize, 0)
  IN [transactions |-> page, hasMore |-> Len(page) >= PageSize]

\* octra_account has no offset: always the first page, and no other after it.
LegacyPage(o) == [transactions |-> Slice(o, PageSize, 0), hasMore |-> FALSE]

\* listTxCache, the latest first.
CachedPage(o) ==
  [transactions |-> Filtered(txCache, {i \in DOMAIN txCache : txCache[i].owner = o}), hasMore |-> FALSE]

-----------------------------------------------------------------------------
(* The view.                                                               *)

Load(kind, o, offset) == [kind |-> kind, owner |-> o, offset |-> offset, stage |-> "primary", same |-> TRUE]
Refreshes == [owner : HistOwners, kind : {"refresh"}, offset : {0}, stage : {"primary", "legacy", "cache"}, same : BOOLEAN]
LoadingMore == \E l \in loads : l.kind = "more"

\* refresh
Refresh ==
  /\ loadCount < MaxLoads /\ loadCount' = loadCount + 1
  /\ loads' = loads \cup {Load("refresh", viewer, 0)}
  /\ UNCHANGED <<ledgerRows, txCache, viewer, entries, hasMore, mixed>>

\* loadMore: from where the table ends.
LoadMore ==
  /\ hasMore /\ ~LoadingMore
  /\ loads' = loads \cup {Load("more", viewer, Len(entries))}
  /\ UNCHANGED <<ledgerRows, txCache, viewer, entries, hasMore, mixed, loadCount>>

\* The effect on (wallet, rpc): another account is read, into the same table.
SwitchViewer(o) ==
  /\ o # viewer /\ viewer' = o
  /\ loadCount < MaxLoads /\ loadCount' = loadCount + 1
  /\ loads' = loads \cup {Load("refresh", o, 0)}
  /\ UNCHANGED <<ledgerRows, txCache, entries, hasMore, mixed>>

\* The panel is left and shown again: its state is gone, late answers are dropped.
Remount ==
  /\ loadCount < MaxLoads /\ loadCount' = loadCount + 1
  /\ loads' = {Load("refresh", viewer, 0)} /\ entries' = <<>> /\ hasMore' = FALSE /\ mixed' = FALSE
  /\ UNCHANGED <<ledgerRows, txCache, viewer>>

\* Mutant: the pages are put one after the other.
AppendedAll(rows) == entries \o rows
\* Rows that are already shown are left out.
Appended(rows) == entries \o Filtered(rows, {i \in DOMAIN rows : rows[i] \notin EntryKeys(entries)})

Lands(l, page) ==
  /\ entries' = IF l.kind = "refresh" THEN page.transactions ELSE Appended(page.transactions)
  /\ hasMore' = page.hasMore
  /\ mixed' = (l.kind = "more" /\ (mixed \/ ~l.same \/ \E r \in EntryKeys(entries) : r.owner # l.owner))
  /\ loads' = {IF l.kind = "refresh" THEN [m EXCEPT !.same = FALSE] ELSE m : m \in loads \ {l}}
  /\ UNCHANGED <<ledgerRows, txCache, viewer, loadCount>>

Asked(l, stage) ==
  /\ loads' = (loads \ {l}) \cup {[l EXCEPT !.stage = stage]}
  /\ UNCHANGED <<ledgerRows, txCache, viewer, entries, hasMore, mixed, loadCount>>

\* octra_transactionsByAddress answers.
PrimaryAnswers(l) ==
  /\ l.stage = "primary"
  /\ \E reply \in HttpReplies, shape \in HistShapes :
       IF RpcCall(reply).ok
       THEN Lands(l, IF RpcCall(reply).result
                     THEN NormalizeHistoryPage(l.owner, shape, PageSize, l.offset)
                     ELSE [transactions |-> <<>>, hasMore |-> FALSE])
       ELSE Asked(l, "legacy")

LegacyAnswers(l) ==
  /\ l.stage = "legacy"
  /\ \/ Lands(l, LegacyPage(l.owner))
     \/ Asked(l, "cache")

\* getHistory's last resort: the cache for the first page, an error for a further one.
FallsBack(l) ==
  /\ l.stage = "cache"
  /\ IF l.kind = "refresh" THEN Lands(l, CachedPage(l.owner))
     ELSE /\ loads' = loads \ {l}
          /\ UNCHANGED <<ledgerRows, txCache, viewer, entries, hasMore, mixed, loadCount>>

\* A transaction is confirmed, one this wallet sent and cached or another.
Arrives(o) ==
  /\ ledgerRows[o] < Confirmed[o] + MaxArrivals
  /\ ledgerRows' = [ledgerRows EXCEPT ![o] = @ + 1]
  /\ txCache' \in {txCache, <<Row(o, "confirmed", ledgerRows[o] + 1)>> \o txCache}
  /\ UNCHANGED <<viewer, entries, hasMore, loads, mixed, loadCount>>

-----------------------------------------------------------------------------
HistInit ==
  /\ ledgerRows = Confirmed /\ txCache = <<>>
  /\ viewer \in HistOwners /\ entries = <<>> /\ hasMore = FALSE /\ mixed = FALSE
  /\ loads = {Load("refresh", viewer, 0)} /\ loadCount = 1

HistNext ==
  \/ Refresh \/ LoadMore \/ Remount
  \/ \E o \in HistOwners : SwitchViewer(o) \/ Arrives(o)
  \/ \E l \in loads : PrimaryAnswers(l) \/ LegacyAnswers(l) \/ FallsBack(l)

HistSpec == HistInit /\ [][HistNext]_hist_vars

-----------------------------------------------------------------------------
HistTypeOK ==
  /\ ledgerRows \in [HistOwners -> Nat] /\ viewer \in HistOwners /\ hasMore \in BOOLEAN
  /\ \A l \in loads : l.kind = "refresh" => l \in Refreshes
  /\ \A i \in 1..Len(entries) : entries[i].owner \in HistOwners
  /\ loadCount \in 0..MaxLoads

\* No transaction is listed twice, although new ones push the pages down between two
\* requests (HistoryView.tsx "De-dupe by hash"), and although pages, caches and answers
\* for another account land in any order.
NoRowTwice == Cardinality(EntryKeys(entries)) = Len(entries)

\* Load more, while pages land on the list they were asked for, brings rows that were not shown, or
\* is not offered again (client.ts "would just re-fetch page 0 in a loop").  Fewer new
\* transactions than a page holds is presumed: a whole page of them would stop it.
LoadMoreProgresses ==
  [][\A l \in loads : l.kind = "more" /\ l.stage # "cache" /\ loads' = loads \ {l} /\ ~mixed'
                      => Len(entries') > Len(entries) \/ ~hasMore']_hist_vars

\* The list has no gap.  (Not so: the offset of the next page counts the rejected rows
\* above the first page, which the node's offset does not, so as many are skipped.)
HistoryHasNoGaps ==
  \A o \in HistOwners : \A i, k \in 1..Len(entries) :
    entries[i].owner = o /\ entries[k].owner = o /\ entries[i].kind = "confirmed" /\ entries[k].kind = "confirmed"
    => \A n \in entries[i].nth..entries[k].nth : Row(o, "confirmed", n) \in EntryKeys(entries)
=============================================================================
