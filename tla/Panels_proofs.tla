--------------------------- MODULE Panels_proofs ----------------------------
(***************************************************************************)
(* The panels of the main window: the rows of its history, its tokens, the *)
(* sweep its token panel shows, the QR scanner's camera, the pages of the  *)
(* circle browser, and the forms of the contract pages.                    *)
(***************************************************************************)
EXTENDS History, Tokens, TokensPanel, QrScanner, Browser, ContractForms,
        Lists_proofs

-----------------------------------------------------------------------------
(***************************************************************************)
(* History. For any number of owners, rows and loads, no row comes twice.  *)
(***************************************************************************)

\* The rows and the loads of history.
HistRows == [owner : HistOwners, kind : {"confirmed", "failed"}, nth : Nat]
HistLoads == [kind : {"refresh", "more"}, owner : HistOwners, offset : Nat,
              stage : {"primary", "legacy", "cache"}, same : BOOLEAN]

\* The type of the history part.
HistTyped ==
  /\ ledgerRows \in [HistOwners -> Nat] /\ viewer \in HistOwners
  /\ hasMore \in BOOLEAN /\ mixed \in BOOLEAN
  /\ txCache \in Seq(HistRows) /\ entries \in Seq(HistRows) /\ loads \subseteq HistLoads

\* No two places of a list hold the same row.
NoTwins(s) == \A i, k \in 1..Len(s) : s[i] = s[k] => i = k

\* Only what was confirmed since the start is in the cache.
CacheIsNew ==
  \A i \in 1..Len(txCache) :
    /\ txCache[i].kind = "confirmed"
    /\ txCache[i].nth \in (Confirmed[txCache[i].owner] + 1)..ledgerRows[txCache[i].owner]

\* A request for more was asked from the end of the list it is for, one at a time.
AskedFromTheEnd ==
  /\ \A l, m \in loads : l.kind = "more" /\ m.kind = "more" => l = m
  /\ \A l \in loads : l.kind = "more" => l.offset > 0 /\ (l.same => l.offset = Len(entries))
  /\ \A l \in loads : l.kind = "refresh" => l.offset = 0
  /\ hasMore => Len(entries) > 0

\* A list of n rows does not reach further down than n rows below the start's newest.
Deep(rs, n) ==
  \A i \in 1..Len(rs) : rs[i].kind = "confirmed" => rs[i].nth + n > Confirmed[rs[i].owner]

\* No twins on the list and in the cache, cached rows are this wallet's own new ones, and
\* an open load asked for what lies behind the list of its owner.
HistInv ==
  /\ HistTyped /\ NoTwins(entries) /\ NoTwins(txCache) /\ CacheIsNew /\ AskedFromTheEnd
  /\ \A o \in HistOwners : ledgerRows[o] \in Confirmed[o]..(Confirmed[o] + MaxArrivals)
  /\ ~mixed /\ (hasMore \/ \E l \in loads : l.kind = "more" /\ l.same) => Deep(entries, Len(entries))

\* A run of rows of decreasing age numbers.
LEMMA RunOfRows ==
  ASSUME NEW o \in HistOwners, NEW kind \in {"confirmed", "failed"},
         NEW m \in Nat, NEW n \in 0..m
  PROVE  LET s == [k \in 1..n |-> Row(o, kind, m + 1 - k)]
         IN  s \in Seq(HistRows) /\ Len(s) = n /\ NoTwins(s)
<1> DEFINE s == [k \in 1..n |-> Row(o, kind, m + 1 - k)]
<1>1. ASSUME NEW k \in 1..n
      PROVE  s[k] = Row(o, kind, m + 1 - k) /\ s[k] \in HistRows /\ s[k].nth = m + 1 - k
  BY DEF Row, HistRows
<1>2. s \in [1..n -> HistRows]
  BY <1>1
<1>3. s \in Seq(HistRows) /\ Len(s) = n
  BY <1>2, SeqDef
<1>4. NoTwins(s)
  <2> SUFFICES ASSUME NEW i \in 1..n, NEW k \in 1..n, s[i] = s[k] PROVE i = k
    BY <1>3 DEF NoTwins
  <2>1. m + 1 - i = m + 1 - k
    BY <1>1
  <2> QED
    BY <2>1
<1> QED
  BY <1>3, <1>4

\* What the node's page holds: as many rows as the limit and the ledger allow.
LEMMA SliceIs ==
  ASSUME HistTyped, NEW o \in HistOwners, NEW limit \in Nat, NEW offset \in Nat
  PROVE  LET newest == IF ledgerRows[o] > offset THEN ledgerRows[o] - offset ELSE 0
             n == IF newest > limit THEN limit ELSE newest
         IN  /\ newest \in Nat /\ n \in 0..newest
             /\ Slice(o, limit, offset) = [k \in 1..n |-> Row(o, "confirmed", newest + 1 - k)]
<1> DEFINE newest == IF ledgerRows[o] > offset THEN ledgerRows[o] - offset ELSE 0
           n == IF newest > limit THEN limit ELSE newest
<1>1. ledgerRows[o] \in Nat
  BY DEF HistTyped
<1>2. newest \in Nat /\ n \in 0..newest
  BY <1>1
<1>3. Below(ledgerRows[o], offset) = newest
  BY DEF Below
<1>4. Slice(o, limit, offset) = Coerced(o, "confirmed", newest, Below(newest, limit) + 1)
  BY <1>3 DEF Slice
<1> HIDE DEF newest
<1>5. (IF newest >= Below(newest, limit) + 1 THEN newest + 1 - (Below(newest, limit) + 1) ELSE 0) = n
  BY <1>2 DEF Below
<1>6. Slice(o, limit, offset) = [k \in 1..n |-> Row(o, "confirmed", newest + 1 - k)]
  BY <1>4, <1>5 DEF Coerced
<1> QED
  BY <1>2, <1>6 DEF newest

\* The rows that are added: those of the page that are not shown, once each.
LEMMA AppendedIs ==
  ASSUME HistTyped, NEW rs \in Seq(HistRows), NoTwins(entries), NoTwins(rs)
  PROVE  LET I == {i \in DOMAIN rs : rs[i] \notin EntryKeys(entries)}
         IN  /\ I \subseteq 1..Len(rs) /\ IsFiniteSet(I) /\ Cardinality(I) \in Nat
             /\ Appended(rs) \in Seq(HistRows) /\ NoTwins(Appended(rs))
             /\ Len(Appended(rs)) = Len(entries) + Cardinality(I)
             /\ \A i \in 1..Len(Appended(rs)) :
                  \/ i \in 1..Len(entries) /\ Appended(rs)[i] = entries[i]
                  \/ \E k \in I : Appended(rs)[i] = rs[k]
<1> DEFINE I == {i \in DOMAIN rs : rs[i] \notin EntryKeys(entries)}
           n == Cardinality(I)
           new == Filtered(rs, I)
           a == entries \o new
<1>1. DOMAIN rs = 1..Len(rs) /\ Len(rs) \in Nat /\ Len(entries) \in Nat
      /\ \A i \in 1..Len(rs) : rs[i] \in HistRows
  BY LenProperties DEF HistTyped
<1>2. I \in SUBSET (1..Len(rs))
  BY <1>1
<1> HIDE DEF I
<1>3. IsFiniteSet(I) /\ n \in Nat /\ new \in Seq(HistRows) /\ Len(new) = n
  BY <1>2, FilteredIs
<1>p. /\ \A k \in 1..n : Nth(I, k) \in I /\ new[k] = rs[Nth(I, k)]
      /\ \A j, k \in 1..n : Nth(I, j) = Nth(I, k) => j = k
  BY <1>2, FilteredIs
<1> HIDE DEF n, new
<1>4. new \in Seq(HistRows) /\ Len(new) = n /\ \A k \in 1..n : new[k] = rs[Nth(I, k)] /\ Nth(I, k) \in I
  BY <1>3, <1>p
<1>5. /\ a \in Seq(HistRows) /\ Len(a) = Len(entries) + n
      /\ \A i \in 1..Len(a) : a[i] = IF i <= Len(entries) THEN entries[i] ELSE new[i - Len(entries)]
  <2>1. entries \in Seq(HistRows)
    BY DEF HistTyped
  <2>2. /\ a \in Seq(HistRows) /\ Len(a) = Len(entries) + Len(new)
        /\ \A i \in 1..(Len(entries) + Len(new)) :
             a[i] = IF i <= Len(entries) THEN entries[i] ELSE new[i - Len(entries)]
    BY <1>4, <2>1, ConcatProperties
  <2> QED
    BY <1>4, <2>2
<1>6. ASSUME NEW i \in 1..Len(a)
      PROVE  \/ i \in 1..Len(entries) /\ a[i] = entries[i]
             \/ i > Len(entries) /\ i - Len(entries) \in 1..n /\ a[i] = rs[Nth(I, i - Len(entries))]
  BY <1>1, <1>3, <1>4, <1>5
<1> HIDE DEF a
<1>7. ASSUME NEW i \in 1..Len(entries), NEW k \in I PROVE entries[i] # rs[k]
  BY DEF EntryKeys, I
<1>8. ASSUME NEW i \in 1..Len(a), NEW k \in 1..Len(a), a[i] = a[k] PROVE i = k
  <2>1. CASE i \in 1..Len(entries) /\ a[i] = entries[i] /\ k \in 1..Len(entries) /\ a[k] = entries[k]
    BY <1>8, <2>1 DEF NoTwins
  <2>2. CASE /\ i > Len(entries) /\ i - Len(entries) \in 1..n /\ a[i] = rs[Nth(I, i - Len(entries))]
             /\ k > Len(entries) /\ k - Len(entries) \in 1..n /\ a[k] = rs[Nth(I, k - Len(entries))]
    <3>1. Nth(I, i - Len(entries)) \in 1..Len(rs) /\ Nth(I, k - Len(entries)) \in 1..Len(rs)
      BY <1>2, <1>p, <2>2
    <3>2. Nth(I, i - Len(entries)) = Nth(I, k - Len(entries))
      BY <1>8, <2>2, <3>1 DEF NoTwins
    <3>3. i - Len(entries) = k - Len(entries)
      BY <1>p, <2>2, <3>2
    <3> QED
      BY <1>1, <1>5, <3>3
  <2>3. CASE i \in 1..Len(entries) /\ a[i] = entries[i] /\ k - Len(entries) \in 1..n /\ a[k] = rs[Nth(I, k - Len(entries))]
    BY <1>7, <1>8, <1>p, <2>3
  <2>4. CASE k \in 1..Len(entries) /\ a[k] = entries[k] /\ i - Len(entries) \in 1..n /\ a[i] = rs[Nth(I, i - Len(entries))]
    BY <1>7, <1>8, <1>p, <2>4
  <2> QED
    BY <1>6, <2>1, <2>2, <2>3, <2>4
<1>9. NoTwins(a)
  BY <1>8 DEF NoTwins
<1>10. \A i \in 1..Len(a) : \/ i \in 1..Len(entries) /\ a[i] = entries[i]
                           \/ \E k \in I : a[i] = rs[k]
  BY <1>p, <1>6
<1>11. Appended(rs) = a
  BY DEF Appended, a, new, I
<1> QED
  BY <1>2, <1>3, <1>5, <1>9, <1>10, <1>11 DEF n, I

\* A page of the node: consecutive rows from the offset on, as many as fit.
LEMMA SlicePage ==
  ASSUME HistTyped, NEW o \in HistOwners, NEW offset \in Nat
  PROVE  LET s == Slice(o, PageSize, offset)
         IN  /\ s \in Seq(HistRows) /\ NoTwins(s) /\ Len(s) <= PageSize
             /\ \A i \in 1..Len(s) : /\ s[i].owner = o /\ s[i].kind = "confirmed"
                                     /\ s[i].nth + offset + i = ledgerRows[o] + 1
             /\ Len(s) < PageSize => ledgerRows[o] <= offset + Len(s)
<1> DEFINE s == Slice(o, PageSize, offset)
           newest == IF ledgerRows[o] > offset THEN ledgerRows[o] - offset ELSE 0
           n == IF newest > PageSize THEN PageSize ELSE newest
<1>1. PageSize \in Nat /\ ledgerRows[o] \in Nat
  BY HistoryAssumption DEF HistTyped
<1>2. newest \in Nat /\ n \in 0..newest /\ s = [k \in 1..n |-> Row(o, "confirmed", newest + 1 - k)]
  BY <1>1, SliceIs
<1>3. n <= PageSize /\ (n > 0 => newest + offset = ledgerRows[o])
      /\ (n < PageSize => ledgerRows[o] <= offset + n)
  BY <1>1
<1> HIDE DEF newest, n, s
<1>4. s \in Seq(HistRows) /\ Len(s) = n /\ NoTwins(s)
  BY <1>2, RunOfRows
<1>5. ASSUME NEW i \in 1..n
      PROVE  s[i].owner = o /\ s[i].kind = "confirmed" /\ s[i].nth + offset + i = ledgerRows[o] + 1
  <2>1. s[i] = Row(o, "confirmed", newest + 1 - i)
    BY <1>2
  <2>2. s[i].owner = o /\ s[i].kind = "confirmed" /\ s[i].nth = newest + 1 - i
    BY <2>1 DEF Row
  <2>3. newest + offset = ledgerRows[o]
    BY <1>2, <1>3
  <2> QED
    BY <1>1, <1>2, <2>2, <2>3
<1> QED
  BY <1>3, <1>4, <1>5 DEF s

\* A first page has the rejected rows above it, and reaches no further than its length.
LEMMA FirstPage ==
  ASSUME HistTyped, NEW o \in HistOwners, NEW shape \in HistShapes, ledgerRows[o] >= Confirmed[o]
  PROVE  LET page == NormalizeHistoryPage(o, shape, PageSize, 0)
         IN  /\ page.transactions \in Seq(HistRows) /\ NoTwins(page.transactions)
             /\ Deep(page.transactions, Len(page.transactions))
             /\ page.hasMore \in BOOLEAN /\ (page.hasMore => Len(page.transactions) > 0)
<1> DEFINE s == Slice(o, PageSize, 0)
           f == Coerced(o, "failed", Rejected[o], 1)
           page == NormalizeHistoryPage(o, shape, PageSize, 0)
           t == page.transactions
           L == ledgerRows[o]
           C == Confirmed[o]
<1>1. /\ PageSize \in Nat \ {0} /\ L \in Nat /\ Rejected[o] \in Nat /\ C \in Nat /\ L >= C
  BY HistoryAssumption DEF HistTyped
<1>0. shape \in {"envelope", "no metadata", "bare"}
  BY HistoryAssumption
<1>2. /\ s \in Seq(HistRows) /\ NoTwins(s) /\ Len(s) <= PageSize
      /\ \A i \in 1..Len(s) : s[i].owner = o /\ s[i].kind = "confirmed" /\ s[i].nth + 0 + i = L + 1
      /\ Len(s) < PageSize => L <= 0 + Len(s)
  BY SlicePage
<1> HIDE DEF f
<1>3. f \in Seq(HistRows) /\ NoTwins(f) /\ \A i \in 1..Len(f) : f[i].kind = "failed"
  <2> DEFINE R == Rejected[o]
  <2>r. R \in Nat
    BY <1>1
  <2> HIDE DEF R
  <2> DEFINE kind == "failed"
  <2>k. kind \in {"confirmed", "failed"}
    OBVIOUS
  <2>0. R \in Nat /\ R \in 0..R /\ (IF R >= 1 THEN R + 1 - 1 ELSE 0) = R
    BY <2>r
  <2>1. f = [k \in 1..R |-> Row(o, kind, R + 1 - k)]
    BY <2>0 DEF Coerced, R, f
  <2> HIDE DEF kind
  <2>2. f \in Seq(HistRows) /\ Len(f) = R /\ NoTwins(f)
    <3> DEFINE g == [k \in 1..R |-> Row(o, kind, R + 1 - k)]
    <3>1. g \in Seq(HistRows) /\ Len(g) = R /\ NoTwins(g)
      BY <2>k, <2>0, RunOfRows
    <3> QED
      BY <2>1, <3>1
  <2> QED
    BY <2>1, <2>2 DEF Row, kind
<1>4. /\ shape = "bare" => page.hasMore = (Len(s) >= PageSize)
      /\ shape = "no metadata" => page.hasMore = FALSE
      /\ shape = "envelope" => page.hasMore = (0 + Len(s) < L)
  BY DEF NormalizeHistoryPage
<1>5. t = (IF shape = "envelope" THEN f ELSE <<>>) \o s
  BY DEF NormalizeHistoryPage, f
<1> HIDE DEF s, page, L, C
<1>6. Len(s) \in Nat /\ Len(f) \in Nat /\ \A i \in 1..Len(s) : s[i] \in HistRows
  BY <1>2, <1>3, LenProperties
<1>7. page.hasMore \in BOOLEAN /\ (page.hasMore => Len(s) > 0)
  <2>1. (Len(s) >= PageSize) \in BOOLEAN /\ (0 + Len(s) < L) \in BOOLEAN
    OBVIOUS
  <2>2. page.hasMore \in BOOLEAN
    BY <1>0, <1>4, <2>1, Zenon
  <2>3. (Len(s) >= PageSize) => Len(s) > 0
    BY <1>1, <1>6
  <2>4. (0 + Len(s) < L) => Len(s) > 0
    <3>1. Len(s) < PageSize => L <= 0 + Len(s)
      BY <1>2
    <3> QED
      BY <1>1, <1>6, <3>1
  <2>5. page.hasMore => Len(s) > 0
    BY <1>0, <1>4, <2>3, <2>4, Zenon
  <2> QED
    BY <2>2, <2>5
<1>8. \A i \in 1..Len(s) : s[i].nth + Len(s) > C
  <2> SUFFICES ASSUME NEW i \in 1..Len(s) PROVE s[i].nth + Len(s) > C
    OBVIOUS
  <2>1. s[i].nth \in Nat
    BY <1>6 DEF HistRows
  <2>2. s[i].nth + 0 + i = L + 1 /\ i \in Nat /\ i <= Len(s)
    BY <1>2, <1>6
  <2>3. L \in Nat /\ C \in Nat /\ L >= C
    BY <1>1
  <2>4. Len(s) \in Nat
    BY <1>6
  <2> QED
    BY <2>1, <2>2, <2>3, <2>4
<1>9. CASE shape = "envelope"
  <2>1. t = f \o s
    BY <1>5, <1>9
  <2> DEFINE m == Len(f)
  <2>2. /\ t \in Seq(HistRows) /\ Len(t) = m + Len(s)
        /\ \A i \in 1..(m + Len(s)) : t[i] = IF i <= m THEN f[i] ELSE s[i - m]
    BY <1>2, <1>3, <2>1, ConcatProperties
  <2>3. ASSUME NEW i \in 1..Len(t)
        PROVE  \/ i \in 1..m /\ t[i] = f[i] /\ t[i].kind = "failed"
               \/ i - m \in 1..Len(s) /\ t[i] = s[i - m] /\ t[i].kind = "confirmed"
    BY <1>2, <1>3, <1>6, <2>2
  <2> HIDE DEF m, t
  <2>m. m \in Nat
    BY <1>6 DEF m
  <2>4. NoTwins(t)
    <3> SUFFICES ASSUME NEW i \in 1..Len(t), NEW k \in 1..Len(t), t[i] = t[k] PROVE i = k
      BY DEF NoTwins
    <3>1. CASE i \in 1..m /\ t[i] = f[i] /\ k \in 1..m /\ t[k] = f[k]
      BY <1>3, <3>1 DEF NoTwins, m
    <3>2. CASE i - m \in 1..Len(s) /\ t[i] = s[i - m] /\ k - m \in 1..Len(s) /\ t[k] = s[k - m]
      <4>1. i - m = k - m
        BY <1>2, <3>2 DEF NoTwins
      <4> QED
        BY <4>1, <2>m, <1>6, <2>2
    <3> QED
      BY <2>3, <3>1, <3>2
  <2>5. Deep(t, Len(t))
    <3> SUFFICES ASSUME NEW i \in 1..Len(t), t[i].kind = "confirmed"
                 PROVE  t[i].nth + Len(t) > Confirmed[t[i].owner]
      BY DEF Deep
    <3>1. i - m \in 1..Len(s) /\ t[i] = s[i - m]
      BY <2>3
    <3>2. s[i - m].nth \in Nat /\ s[i - m].owner = o /\ s[i - m].nth + Len(s) > C
      BY <1>2, <1>6, <1>8, <3>1 DEF HistRows
    <3>3. Len(t) = m + Len(s)
      BY <2>2
    <3>4. s[i - m].nth + Len(t) > C
      BY <1>1, <1>6, <2>m, <3>2, <3>3
    <3> QED
      BY <3>1, <3>2, <3>4 DEF C
  <2> QED
    BY <1>6, <1>7, <2>2, <2>4, <2>5, <2>m DEF page, t
<1>10. CASE shape # "envelope"
  <2>1. t = s
    BY <1>2, <1>5, <1>10, ConcatEmptySeq
  <2>2. Deep(s, Len(s))
    BY <1>2, <1>8 DEF Deep, C
  <2> QED
    BY <1>2, <1>7, <2>1, <2>2 DEF page, t
<1> QED
  BY <1>9, <1>10

\* A further page is the node's page; more is offered only behind a full one.
LEMMA FurtherPage ==
  ASSUME HistTyped, NEW o \in HistOwners, NEW shape \in HistShapes, NEW offset \in Nat, offset > 0
  PROVE  LET page == NormalizeHistoryPage(o, shape, PageSize, offset)
         IN  /\ page.transactions = Slice(o, PageSize, offset)
             /\ page.hasMore \in BOOLEAN
             /\ page.hasMore => Len(Slice(o, PageSize, offset)) = PageSize
<1> DEFINE s == Slice(o, PageSize, offset)
           page == NormalizeHistoryPage(o, shape, PageSize, offset)
           L == ledgerRows[o]
<1>0. shape \in {"envelope", "no metadata", "bare"}
  BY HistoryAssumption
<1>1. PageSize \in Nat /\ L \in Nat
  BY HistoryAssumption DEF HistTyped
<1>2. s \in Seq(HistRows) /\ Len(s) <= PageSize /\ (Len(s) < PageSize => L <= offset + Len(s))
  BY SlicePage
<1>3. page.transactions = s
  <2>1. offset # 0
    OBVIOUS
  <2> QED
    BY <2>1 DEF NormalizeHistoryPage
<1>4. /\ shape = "bare" => page.hasMore = (Len(s) >= PageSize)
      /\ shape = "no metadata" => page.hasMore = FALSE
      /\ shape = "envelope" => page.hasMore = (offset + Len(s) < L)
  BY DEF NormalizeHistoryPage
<1> HIDE DEF s, page, L
<1>5. Len(s) \in Nat
  BY <1>2, LenProperties
<1>6. (Len(s) >= PageSize) \in BOOLEAN /\ (offset + Len(s) < L) \in BOOLEAN
  OBVIOUS
<1>7. page.hasMore \in BOOLEAN
  BY <1>0, <1>4, <1>6, Zenon
<1>8. ((Len(s) >= PageSize) => Len(s) = PageSize) /\ ((offset + Len(s) < L) => Len(s) = PageSize)
  BY <1>1, <1>2, <1>5
<1>9. page.hasMore => Len(s) = PageSize
  BY <1>0, <1>4, <1>8, Zenon
<1> QED
  BY <1>3, <1>7, <1>9 DEF s, page

\* What a full page adds to a list that reaches no further than its length: it reaches no
\* further than its new length, and unless a whole page arrived meanwhile there is more.
LEMMA FreshRows ==
  ASSUME HistInv, NEW l \in loads, l.kind = "more", l.same, ~mixed,
         \A r \in EntryKeys(entries) : r.owner = l.owner
  PROVE  LET t == Slice(l.owner, PageSize, l.offset)
         IN  /\ Deep(Appended(t), Len(Appended(t)))
             /\ Len(t) = PageSize /\ MaxArrivals < PageSize => Len(Appended(t)) > Len(entries)
<1> DEFINE o == l.owner
           t == Slice(o, PageSize, l.offset)
           I == {i \in DOMAIN t : t[i] \notin EntryKeys(entries)}
           L == ledgerRows[o]
           C == Confirmed[o]
           A == L - C
           E == Len(entries)
           n == Cardinality(I)
           a == Appended(t)
<1>1. o \in HistOwners /\ l.offset \in Nat /\ HistTyped
  BY DEF HistInv, HistTyped, HistLoads
<1>2. /\ PageSize \in Nat /\ MaxArrivals \in Nat /\ L \in Nat /\ C \in Nat /\ E \in Nat
      /\ A \in 0..MaxArrivals /\ l.offset = E
  <2>1. L \in C..(C + MaxArrivals) /\ C \in Nat /\ MaxArrivals \in Nat /\ PageSize \in Nat
    BY <1>1, HistoryAssumption DEF HistInv
  <2>2. E \in Nat
    BY <1>1, LenProperties DEF HistTyped
  <2>3. l.offset = E
    BY DEF HistInv, AskedFromTheEnd
  <2> QED
    BY <2>1, <2>2, <2>3
<1>3. Deep(entries, E)
  BY DEF HistInv
<1>4. /\ t \in Seq(HistRows) /\ NoTwins(t)
      /\ \A i \in 1..Len(t) : t[i].owner = o /\ t[i].kind = "confirmed" /\ t[i].nth + l.offset + i = L + 1
  BY <1>1, SlicePage
<1>5. /\ I \subseteq 1..Len(t) /\ IsFiniteSet(I) /\ n \in Nat
      /\ Len(a) = E + n
      /\ \A i \in 1..Len(a) : \/ i \in 1..E /\ a[i] = entries[i]
                              \/ \E k \in I : a[i] = t[k]
  BY <1>1, <1>4, AppendedIs DEF HistInv
<1>6. DOMAIN t = 1..Len(t) /\ Len(t) \in Nat /\ \A i \in 1..Len(t) : t[i].nth \in Nat
  <2>1. DOMAIN t = 1..Len(t) /\ Len(t) \in Nat
    BY <1>4, LenProperties
  <2>2. \A i \in 1..Len(t) : t[i] \in HistRows
    BY <1>4, ElementOfSeq
  <2> QED
    BY <2>1, <2>2 DEF HistRows
<1>7. \A i \in 1..E : entries[i].owner = o /\ entries[i].nth \in Nat
  <2>1. \A i \in 1..E : entries[i] \in HistRows
    BY <1>1, LenProperties DEF HistTyped
  <2> QED
    BY <2>1 DEF EntryKeys, HistRows
<1> HIDE DEF t, L, C, E, n, a
<1>8. ASSUME NEW k \in 1..Len(t), k > A PROVE k \in I
  <2> SUFFICES ASSUME t[k] \in EntryKeys(entries) PROVE FALSE
    BY <1>6
  <2>1. PICK i \in 1..E : entries[i] = t[k]
    BY DEF EntryKeys, E
  <2>2. t[k].nth + E > C
    BY <1>3, <1>4, <2>1 DEF Deep, E, C
  <2>3. t[k].nth + E + k = L + 1
    BY <1>2, <1>4
  <2> QED
    BY <1>2, <1>6, <1>8, <2>2, <2>3
<1> HIDE DEF I
<1>9. ASSUME NEW k \in 1..Len(t), k > A PROVE n >= k - A
  <2> DEFINE T == (A + 1)..k
  <2>1. T \subseteq I
    BY <1>2, <1>6, <1>8
  <2>2. Cardinality(T) <= n
    BY <1>5, <2>1, FS_Subset DEF n
  <2>3. Cardinality(T) = k - A
    <3>1. A + 1 \in Int /\ k \in Int /\ ~(A + 1 > k)
      BY <1>2, <1>6, <1>9
    <3>2. Cardinality(T) = k - (A + 1) + 1
      BY <3>1, FS_Interval
    <3> QED
      BY <1>2, <1>6, <3>2
  <2> QED
    BY <2>2, <2>3
<1>10. ASSUME NEW k \in I PROVE t[k].nth + (E + n) > C
  <2>1. k \in 1..Len(t) /\ t[k].nth + E + k = L + 1 /\ t[k].nth \in Nat /\ k \in Nat
    BY <1>2, <1>4, <1>5, <1>6
  <2>2. n >= k - A
    BY <1>2, <1>5, <1>9, <2>1
  <2> QED
    BY <1>2, <1>5, <2>1, <2>2
<1>11. Deep(a, E + n)
  <2> SUFFICES ASSUME NEW i \in 1..Len(a), a[i].kind = "confirmed"
               PROVE  a[i].nth + (E + n) > Confirmed[a[i].owner]
    BY DEF Deep
  <2>1. CASE i \in 1..E /\ a[i] = entries[i]
    <3>1. a[i].owner = o /\ a[i].nth \in Nat /\ a[i].nth + E > C
      BY <1>3, <1>7, <2>1 DEF Deep, E, C
    <3> QED
      BY <1>2, <1>5, <3>1 DEF C
  <2>2. ASSUME NEW k \in I, a[i] = t[k] PROVE a[i].nth + (E + n) > Confirmed[a[i].owner]
    BY <1>4, <1>5, <1>10, <2>2 DEF C
  <2> QED
    BY <1>5, <2>1, <2>2
<1>12. Len(t) = PageSize /\ MaxArrivals < PageSize => Len(a) > E
  <2> SUFFICES ASSUME Len(t) = PageSize, MaxArrivals < PageSize PROVE Len(a) > E
    OBVIOUS
  <2>1. PageSize \in 1..Len(t) /\ PageSize > A
    BY <1>2
  <2>2. n >= PageSize - A
    BY <1>9, <2>1
  <2> QED
    BY <1>2, <1>5, <2>1, <2>2
<1> QED
  BY <1>5, <1>11, <1>12 DEF t, a, E

\* What a page that lands must be for the invariant.
FirstFine(page) ==
  /\ page.transactions \in Seq(HistRows) /\ NoTwins(page.transactions) /\ page.hasMore \in BOOLEAN
  /\ page.hasMore => /\ Len(page.transactions) > 0
                     /\ Deep(page.transactions, Len(page.transactions))

\* What a further page must be to land on the list.
MoreFine(l, page) ==
  /\ page.transactions \in Seq(HistRows) /\ NoTwins(page.transactions) /\ page.hasMore \in BOOLEAN
  /\ page.hasMore => /\ page.transactions = Slice(l.owner, PageSize, l.offset)
                     /\ Len(page.transactions) = PageSize

\* The requests that are left when a first page lands are for another list.
LEMMA FirstLands ==
  ASSUME HistInv, NEW l \in loads, l.kind = "refresh", NEW page, FirstFine(page), Lands(l, page)
  PROVE  HistInv'
<1>1. /\ entries' = page.transactions /\ hasMore' = page.hasMore /\ mixed' = FALSE
      /\ loads' = {[m EXCEPT !.same = FALSE] : m \in loads \ {l}}
      /\ UNCHANGED <<ledgerRows, txCache, viewer, loadCount>>
  BY DEF Lands
<1>2. \A m \in loads' : /\ m \in HistLoads /\ m.same = FALSE
                        /\ \E k \in loads : k.kind = m.kind /\ k.offset = m.offset /\ m = [k EXCEPT !.same = FALSE]
  <2> SUFFICES ASSUME NEW m \in loads'
               PROVE  /\ m \in HistLoads /\ m.same = FALSE
                      /\ \E k \in loads : k.kind = m.kind /\ k.offset = m.offset /\ m = [k EXCEPT !.same = FALSE]
    OBVIOUS
  <2>1. PICK f \in BOOLEAN : f = FALSE
    OBVIOUS
  <2>2. PICK k \in loads : m = [k EXCEPT !.same = f]
    BY <1>1, <2>1
  <2>3. k \in HistLoads
    BY DEF HistInv, HistTyped
  <2>4. m \in HistLoads /\ m.same = f /\ m.kind = k.kind /\ m.offset = k.offset
    BY <2>2, <2>3 DEF HistLoads
  <2> QED
    BY <2>1, <2>2, <2>4
<1>3. HistTyped'
  BY <1>1, <1>2 DEF HistInv, HistTyped, FirstFine
<1>4. NoTwins(entries') /\ NoTwins(txCache')
  BY <1>1 DEF HistInv, FirstFine
<1>5. CacheIsNew'
  BY <1>1 DEF HistInv, CacheIsNew
<1>6. AskedFromTheEnd'
  <2>1. ASSUME NEW k \in loads', NEW m \in loads', k.kind = "more", m.kind = "more" PROVE k = m
    <3>1. PICK j \in loads : j.kind = "more" /\ k = [j EXCEPT !.same = FALSE]
      BY <1>2, <2>1
    <3>2. PICK i \in loads : i.kind = "more" /\ m = [i EXCEPT !.same = FALSE]
      BY <1>2, <2>1
    <3>3. j = i
      BY <3>1, <3>2 DEF HistInv, AskedFromTheEnd
    <3> QED
      BY <3>1, <3>2, <3>3
  <2>2. \A m \in loads' : m.kind = "more" => m.offset > 0 /\ m.same = FALSE
    BY <1>2 DEF HistInv, AskedFromTheEnd
  <2>3. hasMore' => Len(entries') > 0
    BY <1>1 DEF FirstFine
  <2>4. \A m \in loads' : m.kind = "refresh" => m.offset = 0
    BY <1>2 DEF HistInv, AskedFromTheEnd
  <2> QED
    BY <2>1, <2>2, <2>3, <2>4 DEF AskedFromTheEnd
<1>7. \A o \in HistOwners : ledgerRows'[o] \in Confirmed[o]..(Confirmed[o] + MaxArrivals)
  BY <1>1 DEF HistInv
<1>8. (hasMore' \/ \E m \in loads' : m.kind = "more" /\ m.same) => Deep(entries', Len(entries'))
  BY <1>1, <1>2 DEF FirstFine
<1> QED
  BY <1>3, <1>4, <1>5, <1>6, <1>7, <1>8 DEF HistInv, NoTwins, Deep

\* A further page lands on the list it was asked for.
LEMMA MoreLands ==
  ASSUME HistInv, NEW l \in loads, l.kind = "more", NEW page, MoreFine(l, page), Lands(l, page)
  PROVE  HistInv'
<1> DEFINE t == page.transactions
           a == Appended(t)
<1>1. /\ entries' = a /\ hasMore' = page.hasMore
      /\ mixed' = (mixed \/ ~l.same \/ \E r \in EntryKeys(entries) : r.owner # l.owner)
      /\ loads' = loads \ {l}
      /\ UNCHANGED <<ledgerRows, txCache, viewer, loadCount>>
  BY DEF Lands
<1>2. \A m \in loads' : m \in loads /\ m.kind # "more"
  BY <1>1 DEF HistInv, AskedFromTheEnd
<1>3. a \in Seq(HistRows) /\ NoTwins(a)
  BY AppendedIs DEF HistInv, MoreFine
<1>4. HistTyped'
  BY <1>1, <1>3 DEF HistInv, HistTyped, MoreFine
<1>5. CacheIsNew'
  BY <1>1 DEF HistInv, CacheIsNew
<1>6. hasMore' => Len(entries') > 0
  <2> SUFFICES ASSUME hasMore' PROVE Len(a) > 0
    BY <1>1
  <2> DEFINE I == {i \in DOMAIN t : t[i] \notin EntryKeys(entries)}
  <2>1. t \in Seq(HistRows) /\ NoTwins(t) /\ Len(t) = PageSize
    BY <1>1 DEF MoreFine
  <2>2. Cardinality(I) \in Nat /\ Len(a) = Len(entries) + Cardinality(I) /\ IsFiniteSet(I)
    BY <2>1, AppendedIs DEF HistInv
  <2>3. Len(entries) \in Nat /\ PageSize \in Nat \ {0} /\ DOMAIN t = 1..Len(t)
    BY <2>1, LenProperties, HistoryAssumption DEF HistInv, HistTyped
  <2>4. CASE Len(entries) = 0
    <3>1. EntryKeys(entries) = {}
      BY <2>4 DEF EntryKeys
    <3>2. 1 \in I
      BY <2>1, <2>3, <3>1
    <3>3. Cardinality(I) # 0
      BY <2>2, <3>2, FS_EmptySet
    <3> QED
      BY <2>2, <2>4, <3>3
  <2> QED
    BY <2>2, <2>3, <2>4
<1>7. AskedFromTheEnd'
  BY <1>2, <1>6 DEF HistInv, AskedFromTheEnd
<1>8. \A o \in HistOwners : ledgerRows'[o] \in Confirmed[o]..(Confirmed[o] + MaxArrivals)
  BY <1>1 DEF HistInv
<1>9. ASSUME ~mixed', hasMore' PROVE Deep(a, Len(a))
  <2>1. l.same /\ ~mixed /\ \A r \in EntryKeys(entries) : r.owner = l.owner
    BY <1>1, <1>9
  <2>2. t = Slice(l.owner, PageSize, l.offset)
    BY <1>1, <1>9 DEF MoreFine
  <2> QED
    BY <2>1, <2>2, FreshRows
<1>10. NoTwins(entries') /\ NoTwins(txCache')
  BY <1>1, <1>3 DEF HistInv
<1>11. ~mixed' /\ (hasMore' \/ \E m \in loads' : m.kind = "more" /\ m.same) => Deep(entries', Len(entries'))
  BY <1>1, <1>2, <1>9
<1> QED
  BY <1>4, <1>5, <1>7, <1>8, <1>10, <1>11 DEF HistInv, NoTwins, Deep

\* Requests only change their stage while they are in flight, or end without a page.
LEMMA AskedInv ==
  ASSUME HistInv, NEW l \in loads, NEW stage \in {"legacy", "cache"}, Asked(l, stage)
  PROVE  HistInv'
<1>1. /\ loads' = (loads \ {l}) \cup {[l EXCEPT !.stage = stage]}
      /\ UNCHANGED <<ledgerRows, txCache, viewer, entries, hasMore, mixed, loadCount>>
  BY DEF Asked
<1> DEFINE k == [l EXCEPT !.stage = stage]
<1>2. l \in HistLoads
  BY DEF HistInv, HistTyped
<1>3. k \in HistLoads /\ k.kind = l.kind /\ k.offset = l.offset /\ k.same = l.same
  BY <1>2 DEF HistLoads
<1> HIDE DEF k
<1>4. HistTyped'
  BY <1>1, <1>3 DEF HistInv, HistTyped, k
<1>5. AskedFromTheEnd'
  <2>1. \A m \in loads' : m = k \/ m \in loads \ {l}
    BY <1>1 DEF k
  <2>2. \A j, m \in loads' : j.kind = "more" /\ m.kind = "more" => j = m
    BY <1>3, <2>1 DEF HistInv, AskedFromTheEnd
  <2>3. \A m \in loads' : m.kind = "more" => m.offset > 0 /\ (m.same => m.offset = Len(entries))
    BY <1>3, <2>1 DEF HistInv, AskedFromTheEnd
  <2>4. \A m \in loads' : m.kind = "refresh" => m.offset = 0
    BY <1>3, <2>1 DEF HistInv, AskedFromTheEnd
  <2> QED
    BY <1>1, <2>2, <2>3, <2>4 DEF HistInv, AskedFromTheEnd
<1>6. (\E m \in loads' : m.kind = "more" /\ m.same) => \E m \in loads : m.kind = "more" /\ m.same
  BY <1>1, <1>3 DEF k
<1> QED
  BY <1>1, <1>4, <1>5, <1>6 DEF HistInv, CacheIsNew, NoTwins, Deep

\* What PrimaryAnswers lets land, or that it asks the old method.
LEMMA PrimaryLands ==
  ASSUME HistInv, NEW l \in loads, PrimaryAnswers(l)
  PROVE  \/ Asked(l, "legacy")
         \/ \E page : /\ l.kind = "refresh" => FirstFine(page)
                      /\ l.kind = "more" => MoreFine(l, page)
                      /\ Lands(l, page)
<1>1. PICK reply \in HttpReplies, shape \in HistShapes :
        IF RpcCall(reply).ok
        THEN Lands(l, IF RpcCall(reply).result
                      THEN NormalizeHistoryPage(l.owner, shape, PageSize, l.offset)
                      ELSE [transactions |-> <<>>, hasMore |-> FALSE])
        ELSE Asked(l, "legacy")
  BY DEF PrimaryAnswers
<1>2. /\ l \in HistLoads /\ l.owner \in HistOwners /\ l.offset \in Nat /\ HistTyped
      /\ ledgerRows[l.owner] >= Confirmed[l.owner]
      /\ l.kind = "more" => l.offset > 0
      /\ l.kind = "refresh" => l.offset = 0
  <2>1. l \in HistLoads /\ l.owner \in HistOwners /\ l.offset \in Nat /\ HistTyped
    BY DEF HistInv, HistTyped, HistLoads
  <2>2. ledgerRows[l.owner] \in Confirmed[l.owner]..(Confirmed[l.owner] + MaxArrivals)
        /\ Confirmed[l.owner] \in Nat /\ MaxArrivals \in Nat
    BY <2>1, HistoryAssumption DEF HistInv
  <2>3. ledgerRows[l.owner] >= Confirmed[l.owner]
    BY <2>2
  <2> QED
    BY <2>1, <2>3 DEF HistInv, AskedFromTheEnd
<1> DEFINE none == [transactions |-> <<>>, hasMore |-> FALSE]
           page == NormalizeHistoryPage(l.owner, shape, PageSize, l.offset)
<1>3. FirstFine(none) /\ MoreFine(l, none)
  BY DEF FirstFine, MoreFine, NoTwins
<1>4. l.kind = "refresh" => FirstFine(page)
  BY <1>2, FirstPage DEF FirstFine
<1>5. l.kind = "more" => MoreFine(l, page)
  BY <1>2, FurtherPage, SlicePage DEF MoreFine
<1> QED
  BY <1>1, <1>3, <1>4, <1>5

\* A page of the legacy method lands.
LEMMA LegacyLands ==
  ASSUME HistInv, NEW l \in loads, LegacyAnswers(l)
  PROVE  \/ Asked(l, "cache")
         \/ \E page : FirstFine(page) /\ MoreFine(l, page) /\ Lands(l, page)
<1>1. l.owner \in HistOwners /\ HistTyped /\ 0 \in Nat
  BY DEF HistInv, HistTyped, HistLoads
<1>2. FirstFine(LegacyPage(l.owner)) /\ MoreFine(l, LegacyPage(l.owner))
  BY <1>1, SlicePage DEF FirstFine, MoreFine, LegacyPage
<1> QED
  BY <1>2 DEF LegacyAnswers

\* Every answer of the node keeps the invariant.
LEMMA AnswersInv ==
  ASSUME HistInv, NEW l \in loads, PrimaryAnswers(l) \/ LegacyAnswers(l)
  PROVE  HistInv'
<1>1. l.kind \in {"refresh", "more"}
  BY DEF HistInv, HistTyped, HistLoads
<1>2. CASE Asked(l, "legacy") \/ Asked(l, "cache")
  BY <1>2, AskedInv
<1>3. CASE \E page : /\ l.kind = "refresh" => FirstFine(page)
                     /\ l.kind = "more" => MoreFine(l, page)
                     /\ Lands(l, page)
  BY <1>1, <1>3, FirstLands, MoreLands
<1> QED
  BY <1>2, <1>3, PrimaryLands, LegacyLands

\* So does what is shown of the cache when the node gave nothing.
LEMMA FallsBackInv ==
  ASSUME HistInv, NEW l \in loads, FallsBack(l)
  PROVE  HistInv'
<1>1. CASE l.kind = "refresh"
  <2> DEFINE I == {i \in DOMAIN txCache : txCache[i].owner = l.owner}
             c == Filtered(txCache, I)
  <2>1. txCache \in Seq(HistRows) /\ NoTwins(txCache) /\ DOMAIN txCache = 1..Len(txCache)
    BY LenProperties DEF HistInv, HistTyped
  <2>2. I \in SUBSET (1..Len(txCache))
    BY <2>1
  <2> HIDE DEF I
  <2>3. /\ Cardinality(I) \in Nat
        /\ c \in Seq(HistRows) /\ Len(c) = Cardinality(I)
        /\ \A k \in 1..Cardinality(I) : Nth(I, k) \in I /\ c[k] = txCache[Nth(I, k)]
        /\ \A j, k \in 1..Cardinality(I) : Nth(I, j) = Nth(I, k) => j = k
    BY <2>1, <2>2, FilteredIs
  <2> HIDE DEF c
  <2>4. NoTwins(c)
    BY <2>1, <2>2, <2>3 DEF NoTwins
  <2>5. CachedPage(l.owner) = [transactions |-> c, hasMore |-> FALSE]
    BY DEF CachedPage, c, I
  <2>6. FirstFine(CachedPage(l.owner))
    BY <2>3, <2>4, <2>5 DEF FirstFine
  <2> QED
    BY <1>1, <2>6, FirstLands DEF FallsBack
<1>2. CASE l.kind # "refresh"
  <2>1. /\ loads' = loads \ {l}
        /\ UNCHANGED <<ledgerRows, txCache, viewer, entries, hasMore, mixed, loadCount>>
    BY <1>2 DEF FallsBack
  <2> QED
    BY <2>1 DEF HistInv, HistTyped, CacheIsNew, AskedFromTheEnd, NoTwins, Deep
<1> QED
  BY <1>1, <1>2

\* A refresh joins the requests in flight.
LEMMA RefreshJoins ==
  ASSUME HistInv, NEW o \in HistOwners, loads' = loads \cup {Load("refresh", o, 0)}, viewer' \in HistOwners,
         UNCHANGED <<ledgerRows, txCache, entries, hasMore, mixed>>
  PROVE  HistInv'
<1> DEFINE k == Load("refresh", o, 0)
<1>1. k \in HistLoads /\ k.kind = "refresh" /\ k.offset = 0
  BY DEF Load, HistLoads
<1> HIDE DEF k
<1>2. loads' = loads \cup {k}
  BY DEF k
<1>3. HistTyped'
  BY <1>1, <1>2 DEF HistInv, HistTyped
<1>4. AskedFromTheEnd'
  BY <1>1, <1>2 DEF HistInv, AskedFromTheEnd
<1>5. (\E m \in loads' : m.kind = "more" /\ m.same) => \E m \in loads : m.kind = "more" /\ m.same
  BY <1>1, <1>2
<1> QED
  BY <1>3, <1>4, <1>5 DEF HistInv, CacheIsNew, NoTwins, Deep

\* A further page is asked for from the end of the list.
LEMMA LoadMoreInv ==
  ASSUME HistInv, LoadMore
  PROVE  HistInv'
<1> DEFINE k == Load("more", viewer, Len(entries))
<1>1. Len(entries) \in Nat /\ viewer \in HistOwners /\ Len(entries) > 0
  BY LenProperties DEF HistInv, HistTyped, AskedFromTheEnd, LoadMore
<1>2. k \in HistLoads /\ k.kind = "more" /\ k.offset = Len(entries) /\ k.same = TRUE
  BY <1>1 DEF Load, HistLoads
<1> HIDE DEF k
<1>3. /\ loads' = loads \cup {k} /\ hasMore /\ \A m \in loads : m.kind # "more"
      /\ UNCHANGED <<ledgerRows, txCache, viewer, entries, hasMore, mixed, loadCount>>
  BY DEF LoadMore, LoadingMore, k
<1>4. HistTyped'
  BY <1>2, <1>3 DEF HistInv, HistTyped
<1>5. AskedFromTheEnd'
  BY <1>1, <1>2, <1>3 DEF HistInv, AskedFromTheEnd
<1>6. ~mixed => Deep(entries, Len(entries))
  BY <1>3 DEF HistInv
<1> QED
  BY <1>3, <1>4, <1>5, <1>6 DEF HistInv, CacheIsNew, NoTwins, Deep

\* Another owner starts with an empty list.
LEMMA RemountInv ==
  ASSUME HistInv, Remount
  PROVE  HistInv'
<1> DEFINE k == Load("refresh", viewer, 0)
<1>1. k \in HistLoads /\ k.kind = "refresh" /\ k.offset = 0
  BY DEF Load, HistLoads, HistInv, HistTyped
<1> HIDE DEF k
<1>2. /\ loads' = {k} /\ entries' = <<>> /\ hasMore' = FALSE /\ mixed' = FALSE
      /\ UNCHANGED <<ledgerRows, txCache, viewer>>
  BY DEF Remount, k
<1>3. HistTyped'
  <2>1. entries' \in Seq(HistRows) /\ loads' \subseteq HistLoads
    BY <1>1, <1>2, EmptySeq
  <2> QED
    BY <1>2, <2>1 DEF HistInv, HistTyped
<1>4. AskedFromTheEnd'
  BY <1>1, <1>2 DEF AskedFromTheEnd
<1>5. NoTwins(entries')
  BY <1>2 DEF NoTwins
<1>6. ~(hasMore' \/ \E m \in loads' : m.kind = "more" /\ m.same)
  BY <1>1, <1>2
<1> QED
  BY <1>2, <1>3, <1>4, <1>5, <1>6 DEF HistInv, CacheIsNew, NoTwins

\* A row that arrives is newer than every row in the cache.
LEMMA ArrivesInv ==
  ASSUME HistInv, NEW o \in HistOwners, Arrives(o)
  PROVE  HistInv'
<1> DEFINE n == ledgerRows[o] + 1
           r == Row(o, "confirmed", n)
           c == <<r>> \o txCache
<1>1. /\ ledgerRows[o] \in Nat /\ Confirmed[o] \in Nat /\ MaxArrivals \in Nat
      /\ ledgerRows[o] >= Confirmed[o] /\ ledgerRows[o] < Confirmed[o] + MaxArrivals
  <2>1. ledgerRows[o] \in Confirmed[o]..(Confirmed[o] + MaxArrivals) /\ Confirmed[o] \in Nat /\ MaxArrivals \in Nat
    BY HistoryAssumption DEF HistInv
  <2> QED
    BY <2>1 DEF Arrives
<1>2. /\ ledgerRows' = [ledgerRows EXCEPT ![o] = n]
      /\ txCache' \in {txCache, c}
      /\ UNCHANGED <<viewer, entries, hasMore, loads, mixed, loadCount>>
  BY DEF Arrives
<1>3. n \in Nat /\ n > ledgerRows[o] /\ n \in Confirmed[o]..(Confirmed[o] + MaxArrivals)
      /\ n \in (Confirmed[o] + 1)..n
  BY <1>1
<1> HIDE DEF n
<1>4. ledgerRows' \in [HistOwners -> Nat] /\ ledgerRows'[o] = n
      /\ \A p \in HistOwners \ {o} : ledgerRows'[p] = ledgerRows[p]
  BY <1>2, <1>3 DEF HistInv, HistTyped
<1>5. r \in HistRows /\ r.kind = "confirmed" /\ r.owner = o /\ r.nth = n
  BY <1>3 DEF Row, HistRows
<1> HIDE DEF r
<1>6. txCache \in Seq(HistRows) /\ <<r>> \in Seq(HistRows) /\ Len(<<r>>) = 1 /\ <<r>>[1] = r /\ Len(txCache) \in Nat
      /\ \A i \in 1..Len(txCache) : txCache[i] \in HistRows
  BY <1>5, LenProperties, ElementOfSeq DEF HistInv, HistTyped
<1>7. /\ c \in Seq(HistRows) /\ Len(c) = 1 + Len(txCache)
      /\ \A i \in 1..(1 + Len(txCache)) : c[i] = IF i <= 1 THEN <<r>>[i] ELSE txCache[i - 1]
  BY <1>6, ConcatProperties
<1> HIDE DEF c
<1>8. ASSUME NEW i \in 1..Len(c)
      PROVE  \/ i = 1 /\ c[i] = r
             \/ i - 1 \in 1..Len(txCache) /\ c[i] = txCache[i - 1]
  BY <1>6, <1>7
<1>9. ASSUME NEW i \in 1..Len(txCache)
      PROVE  /\ txCache[i] # r /\ txCache[i].kind = "confirmed"
             /\ txCache[i].nth \in (Confirmed[txCache[i].owner] + 1)..ledgerRows'[txCache[i].owner]
  <2>1. /\ txCache[i] \in HistRows /\ txCache[i].kind = "confirmed"
        /\ txCache[i].nth \in (Confirmed[txCache[i].owner] + 1)..ledgerRows[txCache[i].owner]
    BY <1>6 DEF HistInv, CacheIsNew
  <2>2. txCache[i].owner \in HistOwners /\ txCache[i].nth \in Nat
    BY <2>1 DEF HistRows
  <2>3. CASE txCache[i].owner = o
    BY <1>1, <1>3, <1>4, <1>5, <2>1, <2>2, <2>3
  <2>4. CASE txCache[i].owner # o
    BY <1>4, <1>5, <2>1, <2>2, <2>4
  <2> QED
    BY <2>3, <2>4
<1>10. NoTwins(c)
  <2> SUFFICES ASSUME NEW i \in 1..Len(c), NEW k \in 1..Len(c), c[i] = c[k] PROVE i = k
    BY DEF NoTwins
  <2>1. CASE i - 1 \in 1..Len(txCache) /\ c[i] = txCache[i - 1] /\ k - 1 \in 1..Len(txCache) /\ c[k] = txCache[k - 1]
    <3>1. i - 1 = k - 1
      BY <2>1 DEF HistInv, NoTwins
    <3> QED
      BY <3>1, <1>6, <1>7
  <2> QED
    BY <1>8, <1>9, <2>1
<1>11. \A i \in 1..Len(c) : /\ c[i].kind = "confirmed"
                            /\ c[i].nth \in (Confirmed[c[i].owner] + 1)..ledgerRows'[c[i].owner]
  BY <1>3, <1>4, <1>5, <1>8, <1>9
<1>12. CacheIsNew' /\ NoTwins(txCache') /\ txCache' \in Seq(HistRows)
  <2>1. CASE txCache' = txCache
    BY <1>9, <2>1 DEF HistInv, HistTyped, CacheIsNew
  <2>2. CASE txCache' = c
    BY <1>7, <1>10, <1>11, <2>2 DEF CacheIsNew
  <2> QED
    BY <1>2, <2>1, <2>2
<1>13. HistTyped'
  BY <1>2, <1>4, <1>12 DEF HistInv, HistTyped
<1>14. \A p \in HistOwners : ledgerRows'[p] \in Confirmed[p]..(Confirmed[p] + MaxArrivals)
  BY <1>3, <1>4 DEF HistInv
<1> QED
  BY <1>2, <1>12, <1>13, <1>14 DEF HistInv, AskedFromTheEnd, NoTwins, Deep

\* The list has no row twice and reaches no further down than its length, and what is
\* asked for next begins where it ends, whichever pages land in whichever order.
THEOREM ListsInOrder == HistSpec => []HistInv
<1>1. HistInit => HistInv
  <2> SUFFICES ASSUME HistInit PROVE HistInv
    OBVIOUS
  <2> DEFINE k == Load("refresh", viewer, 0)
  <2>1. k \in HistLoads /\ k.kind = "refresh" /\ k.offset = 0
    BY DEF Load, HistLoads, HistInit
  <2> HIDE DEF k
  <2>2. /\ ledgerRows = Confirmed /\ txCache = <<>> /\ viewer \in HistOwners
        /\ entries = <<>> /\ hasMore = FALSE /\ mixed = FALSE /\ loads = {k}
    BY DEF HistInit, k
  <2>3. HistTyped
    <3>1. entries \in Seq(HistRows) /\ txCache \in Seq(HistRows) /\ loads \subseteq HistLoads
      BY <2>1, <2>2, EmptySeq
    <3>2. ledgerRows \in [HistOwners -> Nat]
      BY <2>2, HistoryAssumption
    <3> QED
      BY <2>2, <3>1, <3>2 DEF HistTyped
  <2>4. AskedFromTheEnd
    BY <2>1, <2>2 DEF AskedFromTheEnd
  <2>5. NoTwins(entries) /\ NoTwins(txCache) /\ CacheIsNew
    BY <2>2 DEF NoTwins, CacheIsNew
  <2>6. \A o \in HistOwners : ledgerRows[o] \in Confirmed[o]..(Confirmed[o] + MaxArrivals)
    <3> SUFFICES ASSUME NEW o \in HistOwners PROVE Confirmed[o] \in Confirmed[o]..(Confirmed[o] + MaxArrivals)
      BY <2>2
    <3>1. Confirmed[o] \in Nat /\ MaxArrivals \in Nat
      BY HistoryAssumption
    <3> QED
      BY <3>1
  <2>7. ~(hasMore \/ \E m \in loads : m.kind = "more" /\ m.same)
    BY <2>1, <2>2
  <2> QED
    BY <2>3, <2>4, <2>5, <2>6, <2>7 DEF HistInv
<1>2. HistInv /\ [HistNext]_hist_vars => HistInv'
  <2> SUFFICES ASSUME HistInv, [HistNext]_hist_vars PROVE HistInv'
    OBVIOUS
  <2>1. CASE Refresh
    BY <2>1, RefreshJoins DEF Refresh, HistInv, HistTyped
  <2>2. CASE LoadMore
    BY <2>2, LoadMoreInv
  <2>3. CASE Remount
    BY <2>3, RemountInv
  <2>4. ASSUME NEW o \in HistOwners, SwitchViewer(o) PROVE HistInv'
    BY <2>4, RefreshJoins DEF SwitchViewer
  <2>5. ASSUME NEW o \in HistOwners, Arrives(o) PROVE HistInv'
    BY <2>5, ArrivesInv
  <2>6. ASSUME NEW l \in loads, PrimaryAnswers(l) \/ LegacyAnswers(l) \/ FallsBack(l) PROVE HistInv'
    BY <2>6, AnswersInv, FallsBackInv
  <2>7. CASE UNCHANGED hist_vars
    BY <2>7 DEF hist_vars, HistInv, HistTyped, CacheIsNew, AskedFromTheEnd, NoTwins, Deep
  <2> QED
    BY <2>1, <2>2, <2>3, <2>4, <2>5, <2>6, <2>7 DEF HistNext
<1> QED
  BY <1>1, <1>2, PTL DEF HistSpec

\* HistoryView.tsx "De-dupe by hash": for any accounts, pages, arrivals and switches, no
\* transaction is in the list twice.
THEOREM RowsOnce == HistSpec => []NoRowTwice
<1>1. HistInv => NoRowTwice
  <2> SUFFICES ASSUME HistInv PROVE NoRowTwice
    OBVIOUS
  <2> DEFINE n == Len(entries)
             K == EntryKeys(entries)
  <2>1. n \in Nat /\ entries \in [1..n -> HistRows] /\ DOMAIN entries = 1..n
    BY LenProperties DEF HistInv, HistTyped
  <2>2. K = {entries[i] : i \in 1..n}
    BY DEF EntryKeys
  <2>3. \A i, k \in 1..n : entries[i] = entries[k] => i = k
    BY DEF HistInv, NoTwins
  <2> HIDE DEF n, K
  <2>4. entries \in Bijection(1..n, K)
    BY <2>1, <2>2, <2>3 DEF Bijection, Injection, Surjection, IsInjective
  <2>5. IsFiniteSet(1..n) /\ Cardinality(1..n) = n
    BY <2>1, FS_Interval
  <2>6. Cardinality(K) = n
    BY <2>4, <2>5, FS_Bijection DEF ExistsBijection
  <2> QED
    BY <2>6 DEF NoRowTwice, n, K
<1> QED
  BY <1>1, ListsInOrder, PTL

\* Asking again does not end a request.
LEMMA NotAskedYet ==
  ASSUME HistInv, NEW l \in loads, l.kind = "more", loads' = loads \ {l}, NEW stage, Asked(l, stage)
  PROVE  FALSE
<1>1. [l EXCEPT !.stage = stage] \in loads \ {l}
  BY DEF Asked
<1>2. l \in HistLoads
  BY DEF HistInv, HistTyped
<1>3. [l EXCEPT !.stage = stage].kind = "more"
  BY <1>2 DEF HistLoads
<1> QED
  BY <1>1, <1>3 DEF HistInv, AskedFromTheEnd

\* Which steps end a request for more: its page's, and leaving the panel.
LEMMA MoreEnds ==
  ASSUME HistInv, HistNext, NEW l \in loads, l.kind = "more", l.stage # "cache", loads' = loads \ {l}
  PROVE  PrimaryAnswers(l) \/ LegacyAnswers(l) \/ Remount
<1>1. ~(Refresh \/ LoadMore)
  BY DEF Refresh, LoadMore
<1>2. \A o \in HistOwners : ~(SwitchViewer(o) \/ Arrives(o))
  BY DEF SwitchViewer, Arrives
<1>3. \A m \in loads' : m.kind # "more"
  BY DEF HistInv, AskedFromTheEnd
<1>4. ASSUME NEW m \in loads, m # l, NEW stage, Asked(m, stage) PROVE FALSE
  BY <1>4 DEF Asked
<1>5. ASSUME NEW m \in loads, m # l, NEW page, Lands(m, page) PROVE FALSE
  <2>1. CASE m.kind # "refresh"
    BY <1>5, <2>1 DEF Lands
  <2>2. CASE m.kind = "refresh"
    <3>1. [l EXCEPT !.same = FALSE] \in loads'
      BY <1>5, <2>2 DEF Lands
    <3>2. l \in HistLoads
      BY DEF HistInv, HistTyped
    <3>3. [l EXCEPT !.same = FALSE].kind = "more"
      BY <3>2 DEF HistLoads
    <3> QED
      BY <1>3, <3>1, <3>3
  <2> QED
    BY <2>1, <2>2
<1>6. ASSUME NEW m \in loads, PrimaryAnswers(m) \/ LegacyAnswers(m) \/ FallsBack(m) PROVE m = l
  <2> SUFFICES ASSUME m # l PROVE FALSE
    OBVIOUS
  <2>1. ~(PrimaryAnswers(m) \/ LegacyAnswers(m))
    BY <1>4, <1>5 DEF PrimaryAnswers, LegacyAnswers
  <2>2. ~FallsBack(m)
    BY <1>5 DEF FallsBack
  <2> QED
    BY <1>6, <2>1, <2>2
<1>7. ~FallsBack(l)
  BY DEF FallsBack
<1> QED
  BY <1>1, <1>2, <1>6, <1>7 DEF HistNext

\* client.ts "would just re-fetch page 0 in a loop": unless a whole page arrives while the
\* panel is open, loading more adds rows or ends the offer.
THEOREM MoreIsMore ==
  ASSUME MaxArrivals < PageSize
  PROVE  HistSpec => LoadMoreProgresses
<1> DEFINE Adds(l) == Len(entries') > Len(entries) \/ ~hasMore'
<1>1. ASSUME HistInv, NEW l \in loads, l.kind = "more", ~mixed', NEW page,
             MoreFine(l, page), Lands(l, page)
      PROVE  Adds(l)
  <2>1. /\ entries' = Appended(page.transactions) /\ hasMore' = page.hasMore
        /\ mixed' = (mixed \/ ~l.same \/ \E r \in EntryKeys(entries) : r.owner # l.owner)
    BY <1>1 DEF Lands
  <2>2. l.same /\ ~mixed /\ \A r \in EntryKeys(entries) : r.owner = l.owner
    BY <1>1, <2>1
  <2> SUFFICES ASSUME hasMore' PROVE Len(entries') > Len(entries)
    OBVIOUS
  <2>3. page.transactions = Slice(l.owner, PageSize, l.offset) /\ Len(page.transactions) = PageSize
    BY <1>1, <2>1 DEF MoreFine
  <2> QED
    BY <1>1, <2>1, <2>2, <2>3, FreshRows
<1>2. ASSUME HistInv, [HistNext]_hist_vars, NEW l \in loads, l.kind = "more", l.stage # "cache",
             loads' = loads \ {l}, ~mixed'
      PROVE  Adds(l)
  <2>1. HistNext
    BY <1>2 DEF hist_vars
  <2>2. CASE Remount
    BY <2>2 DEF Remount
  <2>3. CASE PrimaryAnswers(l)
    <3>1. PICK page : MoreFine(l, page) /\ Lands(l, page)
      BY <1>2, <2>3, PrimaryLands, NotAskedYet
    <3> QED
      BY <1>1, <1>2, <3>1
  <2>4. CASE LegacyAnswers(l)
    <3>1. PICK page : MoreFine(l, page) /\ Lands(l, page)
      BY <1>2, <2>4, LegacyLands, NotAskedYet
    <3> QED
      BY <1>1, <1>2, <3>1
  <2> QED
    BY <1>2, <2>1, <2>2, <2>3, <2>4, MoreEnds
<1>3. HistInv /\ [HistNext]_hist_vars =>
        [\A l \in loads : l.kind = "more" /\ l.stage # "cache" /\ loads' = loads \ {l} /\ ~mixed'
                      => Len(entries') > Len(entries) \/ ~hasMore']_hist_vars
  BY <1>2
<1> QED
  BY <1>3, ListsInOrder, PTL DEF HistSpec, LoadMoreProgresses

\* How often the history is loaded.
LoadsCount == loadCount \in 0..MaxLoads

LEMMA LoadsCountInit == HistInit => LoadsCount
<1> SUFFICES ASSUME HistInit PROVE LoadsCount
  OBVIOUS
<1>1. loadCount = 1
  BY Zenon DEF HistInit
<1>2. MaxLoads \in Nat \ {0}
  BY Zenon, HistoryAssumption
<1> QED
  BY <1>1, <1>2 DEF LoadsCount

LEMMA LoadsCountStep == LoadsCount /\ [HistNext]_hist_vars => LoadsCount'
<1> SUFFICES ASSUME LoadsCount, [HistNext]_hist_vars PROVE LoadsCount'
  OBVIOUS
<1>1. MaxLoads \in Nat
  BY HistoryAssumption
<1>2. loadCount' = loadCount \/ (loadCount < MaxLoads /\ loadCount' = loadCount + 1)
  BY DEF HistNext, hist_vars, Refresh, LoadMore, Remount, SwitchViewer, Arrives, PrimaryAnswers, LegacyAnswers,
         FallsBack, Lands, Asked
<1> QED
  BY <1>1, <1>2 DEF LoadsCount

LEMMA HistTypes == HistInv /\ LoadsCount => HistTypeOK
<1> SUFFICES ASSUME HistInv, LoadsCount PROVE HistTypeOK
  OBVIOUS
<1>1. HistTyped
  BY DEF HistInv
<1>2. \A i \in 1..Len(entries) : entries[i] \in HistRows
  BY <1>1, LenProperties DEF HistTyped
<1>3. \A i \in 1..Len(entries) : entries[i].owner \in HistOwners
  BY <1>2 DEF HistRows
<1>4. ASSUME NEW l \in loads, l.kind = "refresh" PROVE l \in Refreshes
  <2>1. l \in HistLoads
    BY <1>1 DEF HistTyped
  <2>2. l.offset = 0
    BY <1>4 DEF HistInv, AskedFromTheEnd
  <2> QED
    BY <1>4, <2>1, <2>2 DEF HistLoads, Refreshes
<1> QED
  BY <1>1, <1>3, <1>4 DEF HistTyped, LoadsCount, HistTypeOK

-----------------------------------------------------------------------------
(***************************************************************************)
(* Tokens. For any contracts, jobs, retries and chunks.                    *)
(***************************************************************************)

\* The types: rows, calls and their results, jobs.
Holdings == [raw : 0..MaxBalance, symbol : BOOLEAN, deployed : BOOLEAN]
RowRecs == Holdings \cup {NoHolding}
Calls == [contract : Listed, key : {"symbol", "balance"}]
Results == {Failed} \cup [ok : {TRUE}, value : Nat]
Stages == {"registry", "deployed", "probe", "hits", "refresh", "add"}
JobRecs ==
  [op : {"sweep", "refresh", "add"}, stage : Stages, calls : Seq(Calls), out : Seq(Results),
   attempt : Nat, failures : Nat, aborted : BOOLEAN, prior : [Listed -> RowRecs], list : Seq(Listed),
   probed : UNION {[S -> 0..MaxBalance] : S \in SUBSET Listed}, unreadable : BOOLEAN,
   read : SUBSET Listed, held : SUBSET Listed, removed : SUBSET Listed]

\* The type of the token part.
TokTyped ==
  /\ chain \in [Listed -> 0..MaxBalance] /\ had \in [Listed -> SUBSET (0..MaxBalance)] /\ rows \in [Listed -> RowRecs]
  /\ unread \in SUBSET Listed /\ registry \in Seq(Listed)
  /\ jobs \in [TokenJobs -> JobRecs \cup {NoJob}]

\* The i-th result of job k is a balance that was read.
Read(k, i) == k.calls[i].key = "balance" /\ k.out[i].ok

\* Every balance a job has is one its contract had, or comes from a row with an unread one.
Honest(k, hd, ur) ==
  /\ Len(k.out) <= Len(k.calls)
  /\ \A i \in 1..Len(k.out) : Read(k, i) => k.out[i].value \in hd[k.calls[i].contract]
  /\ \A c \in Listed : k.prior[c] # NoHolding => k.prior[c].raw \in hd[c] \/ (c \in ur /\ k.prior[c].raw = 0)
  /\ \A c \in DOMAIN k.probed : k.probed[c] \in hd[c]

\* What the calls of a stage are: metadata and balance of a contract in turn, or balances.
CallsShaped(k) ==
  /\ k.stage = "registry" => k.calls = <<>>
  /\ k.stage \in {"deployed", "hits", "add"} =>
       \A i \in 1..Len(k.calls) : 2 * i <= Len(k.calls) => k.calls[2 * i].key = "balance"
  /\ k.stage = "add" => Len(k.calls) = 2
  /\ k.stage \in {"probe", "refresh"} => \A i \in 1..Len(k.calls) : k.calls[i].key = "balance"
  /\ k.stage = "refresh" => \A i \in 1..Len(k.calls) : k.prior[k.calls[i].contract] # NoHolding

\* What sweep k knew to be held has a row, or was removed meanwhile; it still probes c; it
\* reads c again.
Accounted(k, rw, c) == c \in k.held => rw[c] # NoHolding \/ c \in k.removed

Probing(k, c) == \E i \in 1..Len(k.calls) : k.calls[i].contract = c
ReadsAgain(k, c) == \E i \in 1..Len(k.calls) : 2 * i <= Len(k.calls) /\ k.calls[2 * i].contract = c

\* What a sweep knows of the contracts of its list: each is still to be probed, was not
\* readable, or was read; one that was held has a row, or a probe and a read that give it one.
Probed(k, rw, c) == Probing(k, c) \/ k.unreadable \/ (c \in k.read /\ Accounted(k, rw, c))
\* The same once the probes are sorted into hits and others.
Sorted(k, rw, c) ==
  k.unreadable \/ (c \in k.read /\ (Accounted(k, rw, c) \/ (c \in DOMAIN k.probed /\ ReadsAgain(k, c))))

\* Together: what a job has read, and what that leaves to do.
Swept(k, ch, rw) ==
  /\ \A c \in k.held : ch[c] > 0
  /\ \A i \in 1..Len(k.out) : Read(k, i) =>
       k.calls[i].contract \in k.read /\ (k.calls[i].contract \in k.held => k.out[i].value > 0)
  /\ k.stage = "probe" => \A n \in 1..Len(k.list) : Probed(k, rw, k.list[n])
  /\ k.stage = "hits" => \A n \in 1..Len(k.list) : Sorted(k, rw, k.list[n])

\* What holds of one job in a state of the chain, its history, the rows and the unread rows.
JobFine(k, ch, hd, rw, ur) == Honest(k, hd, ur) /\ CallsShaped(k) /\ Swept(k, ch, rw)

\* The inductive invariant of the token part.
TokInv ==
  /\ TokTyped /\ StoredWasHeld /\ \A c \in Listed : chain[c] \in had[c]
  /\ \A j \in TokenJobs : jobs[j] # NoJob => JobFine(jobs[j], chain, had, rows, unread)

\* The calls that read tokens, and those that only probe balances.
LEMMA TokenCallsIs ==
  ASSUME NEW cs \in Seq(Listed)
  PROVE  LET t == TokenCalls(cs)
         IN  /\ t \in Seq(Calls) /\ Len(t) = 2 * Len(cs)
             /\ \A i \in 1..Len(cs) : t[2 * i] = [contract |-> cs[i], key |-> "balance"]
             /\ \A i \in 1..Len(t) : 2 * i <= Len(t) => t[2 * i].key = "balance"
<1> DEFINE n == Len(cs)
           t == TokenCalls(cs)
<1>1. n \in Nat /\ \A i \in 1..n : cs[i] \in Listed
  BY LenProperties
<1>2. t = [k \in 1..(2 * n) |->
             [contract |-> cs[(k + 1) \div 2], key |-> IF k % 2 = 1 THEN "symbol" ELSE "balance"]]
  BY DEF TokenCalls
<1> HIDE DEF n, t
<1>3. ASSUME NEW k \in 1..(2 * n) PROVE t[k] \in Calls
  <2>1. (k + 1) \div 2 \in 1..n
    BY <1>1
  <2>2. cs[(k + 1) \div 2] \in Listed
    BY <1>1, <2>1
  <2> QED
    BY <1>2, <2>2 DEF Calls
<1>4. t \in [1..(2 * n) -> Calls]
  BY <1>2, <1>3
<1>5. t \in Seq(Calls) /\ Len(t) = 2 * n
  <2>1. 2 * n \in Nat
    BY <1>1
  <2>2. t \in Seq(Calls)
    BY <1>4, <2>1, SeqDef
  <2> QED
    BY <1>4, <2>1, <2>2, LenProperties
<1>6. ASSUME NEW i \in 1..n PROVE t[2 * i] = [contract |-> cs[i], key |-> "balance"]
  <2>1. 2 * i \in 1..(2 * n) /\ (2 * i + 1) \div 2 = i /\ (2 * i) % 2 # 1
    BY <1>1
  <2> QED
    BY <1>2, <2>1
<1>7. ASSUME NEW i \in 1..Len(t), 2 * i <= Len(t) PROVE t[2 * i].key = "balance"
  <2>1. i \in 1..n
    BY <1>1, <1>5, <1>7
  <2>2. t[2 * i] = [contract |-> cs[i], key |-> "balance"]
    BY <1>6, <2>1
  <2> QED
    BY <2>2
<1> QED
  BY <1>5, <1>6, <1>7 DEF t, n

\* One balance call per contract.
LEMMA BalancesIs ==
  ASSUME NEW cs \in Seq(Listed)
  PROVE  LET b == Balances(cs)
         IN  /\ b \in Seq(Calls) /\ Len(b) = Len(cs)
             /\ \A i \in 1..Len(cs) : b[i].contract = cs[i] /\ b[i].key = "balance"
<1> DEFINE n == Len(cs)
           b == Balances(cs)
<1>1. n \in Nat /\ DOMAIN cs = 1..n /\ \A i \in 1..n : cs[i] \in Listed
  BY LenProperties
<1>2. b = [i \in 1..n |-> [contract |-> cs[i], key |-> "balance"]]
  BY <1>1 DEF Balances
<1> HIDE DEF n, b
<1>3. b \in [1..n -> Calls]
  BY <1>1, <1>2 DEF Calls
<1>4. b \in Seq(Calls)
  BY <1>1, <1>3, SeqDef
<1>5. Len(b) = n
  BY <1>1, <1>3, <1>4, LenProperties
<1> QED
  BY <1>2, <1>4, <1>5 DEF n, b

\* Among drops the entries outside S and no other.
LEMMA AmongIs ==
  ASSUME NEW list \in Seq(Listed), NEW S
  PROVE  /\ Among(list, S) \in Seq(Listed)
         /\ \A k \in 1..Len(Among(list, S)) : Among(list, S)[k] \in S
         /\ \A n \in 1..Len(list) : list[n] \in S => \E k \in 1..Len(Among(list, S)) : Among(list, S)[k] = list[n]
<1> DEFINE I == {i \in DOMAIN list : list[i] \in S}
<1>1. I \in SUBSET (1..Len(list)) /\ \A n \in 1..Len(list) : n \in I <=> list[n] \in S
  BY LenProperties
<1> HIDE DEF I
<1>2. /\ Filtered(list, I) \in Seq(Listed) /\ Len(Filtered(list, I)) = Cardinality(I)
      /\ \A k \in 1..Cardinality(I) : Nth(I, k) \in I /\ Filtered(list, I)[k] = list[Nth(I, k)]
      /\ \A i \in I : \E k \in 1..Cardinality(I) : Nth(I, k) = i
  BY <1>1, FilteredIs
<1>3. Among(list, S) = Filtered(list, I)
  BY DEF Among, I
<1> QED
  BY <1>1, <1>2, <1>3

\* The next chunk is the calls behind the results there are.
LEMMA NextChunkIs ==
  ASSUME NEW k \in JobRecs, Len(k.out) <= Len(k.calls), ~BatchDone(k)
  PROVE  LET c == NextChunk(k)
         IN  /\ c \in Seq(Calls) /\ Len(k.out) + Len(c) <= Len(k.calls)
             /\ \A i \in 1..Len(c) : Len(k.out) + i \in 1..Len(k.calls) /\ c[i] = k.calls[Len(k.out) + i]
<1> DEFINE n == Len(k.out)
           m == Len(k.calls)
           e == Min({n + ProbeChunk, m})
           c == NextChunk(k)
<1>1. k.calls \in Seq(Calls) /\ k.out \in Seq(Results)
  BY DEF JobRecs
<1>2. n \in Nat /\ m \in Nat /\ n < m /\ ProbeChunk \in Nat \ {0}
  <2>1. n \in Nat /\ m \in Nat
    BY <1>1, LenProperties
  <2>2. n # m
    BY DEF BatchDone
  <2> QED
    BY <2>1, <2>2, TokensAssumption
<1>3. c = SubSeq(k.calls, n + 1, e)
  BY DEF NextChunk
<1> HIDE DEF n, m, c
<1>4. e \in {n + ProbeChunk, m} /\ \A y \in {n + ProbeChunk, m} : e <= y
  <2>1. \E x \in {n + ProbeChunk, m} : \A y \in {n + ProbeChunk, m} : x <= y
    BY <1>2
  <2> QED
    BY <2>1 DEF Min
<1> HIDE DEF e
<1>5. e \in (n + 1)..m
  BY <1>2, <1>4
<1>6. n + 1 \in 1..(m + 1) /\ e \in n..m
  BY <1>2, <1>5
<1>7. /\ c \in Seq(Calls) /\ Len(c) = e - n
      /\ \A i \in 1..(e - n) : c[i] = k.calls[n + i]
  <2>1. /\ SubSeq(k.calls, n + 1, e) \in Seq(Calls)
        /\ Len(SubSeq(k.calls, n + 1, e)) = IF n + 1 <= e THEN e - (n + 1) + 1 ELSE 0
        /\ \A i \in 1..(e - (n + 1) + 1) : SubSeq(k.calls, n + 1, e)[i] = k.calls[(n + 1) + i - 1]
    BY <1>1, <1>6, SubSeqProperties DEF m
  <2>2. e - (n + 1) + 1 = e - n /\ n + 1 <= e /\ \A i \in 1..(e - n) : (n + 1) + i - 1 = n + i
    BY <1>2, <1>5
  <2> QED
    BY <1>3, <2>1, <2>2
<1>8. n + Len(c) <= m /\ \A i \in 1..Len(c) : n + i \in 1..m /\ c[i] = k.calls[n + i]
  BY <1>2, <1>5, <1>7
<1> QED
  BY <1>7, <1>8 DEF n, m, c

\* The balances that a job has in hand, what it is about, and how far it is.
SameButOut(p, k) ==
  /\ p \in JobRecs
  /\ p.op = k.op /\ p.stage = k.stage /\ p.calls = k.calls /\ p.aborted = k.aborted
  /\ p.prior = k.prior /\ p.list = k.list /\ p.probed = k.probed /\ p.unreadable = k.unreadable
  /\ p.held = k.held /\ p.removed = k.removed

\* Padding adds failures and nothing else.
LEMMA PadIs ==
  ASSUME NEW k \in JobRecs, Len(k.out) <= Len(k.calls)
  PROVE  LET p == Padded(k)
         IN  /\ SameButOut(p, k) /\ p.read = k.read
             /\ Len(p.out) <= Len(k.calls)
             /\ \A i \in 1..Len(p.out) : \/ i \in 1..Len(k.out) /\ p.out[i] = k.out[i]
                                         \/ p.out[i] = Failed
<1> DEFINE n == Len(k.out)
           d == Len(k.calls) - n
           pad == [i \in 1..d |-> Failed]
           o == k.out \o pad
<1>1. k.out \in Seq(Results) /\ n \in Nat /\ d \in Nat
  <2>1. k.out \in Seq(Results) /\ k.calls \in Seq(Calls)
    BY DEF JobRecs
  <2>2. n \in Nat /\ Len(k.calls) \in Nat
    BY <2>1, LenProperties
  <2> QED
    BY <2>1, <2>2
<1> HIDE DEF d
<1>2. pad \in Seq(Results) /\ Len(pad) = d /\ \A i \in 1..d : pad[i] = Failed
  <2>1. Failed \in Results
    BY DEF Failed, Result, Results
  <2>2. pad \in [1..d -> Results]
    BY <2>1
  <2>3. pad \in Seq(Results)
    BY <1>1, <2>2, SeqDef
  <2> QED
    BY <1>1, <2>2, <2>3, LenProperties
<1> HIDE DEF pad
<1>3. /\ o \in Seq(Results) /\ Len(o) = n + d
      /\ \A i \in 1..(n + d) : o[i] = IF i <= n THEN k.out[i] ELSE pad[i - n]
  BY <1>1, <1>2, ConcatProperties
<1>4. n + d = Len(k.calls)
  <2>1. Len(k.calls) \in Nat
    BY LenProperties DEF JobRecs
  <2> QED
    BY <1>1, <2>1 DEF d
<1> HIDE DEF o
<1>5. \A i \in 1..(n + d) : \/ i \in 1..n /\ o[i] = k.out[i]
                            \/ o[i] = Failed
  BY <1>1, <1>2, <1>3
<1>6. CASE k.failures < MaxChunkFailures
  <2>1. Padded(k) = k
    BY <1>6 DEF Padded
  <2> QED
    BY <2>1 DEF SameButOut
<1>7. CASE ~(k.failures < MaxChunkFailures)
  <2> DEFINE p == [k EXCEPT !.out = o]
  <2>1. Padded(k) = p
    BY <1>7 DEF Padded, o, pad, d
  <2>2. SameButOut(p, k) /\ p.read = k.read /\ p.out = o
    BY <1>3 DEF SameButOut, JobRecs
  <2>3. Len(o) = Len(k.calls) /\ Len(k.calls) \in Nat
    BY <1>1, <1>3, <1>4
  <2> QED
    BY <1>3, <1>5, <2>1, <2>2, <2>3
<1> QED
  BY <1>6, <1>7

\* An answer adds the results of its chunk, or failures, behind those there are.
LEMMA PacedIs ==
  ASSUME NEW k \in JobRecs, NEW reply, NEW r \in Seq(Results), Len(k.out) + Len(r) <= Len(k.calls)
  PROVE  LET p == Paced(k, reply, r)
         IN  /\ SameButOut(p, k) /\ p.read = k.read
             /\ Len(p.out) <= Len(k.calls)
             /\ \A i \in 1..Len(p.out) : \/ i \in 1..Len(k.out) /\ p.out[i] = k.out[i]
                                         \/ i - Len(k.out) \in 1..Len(r) /\ p.out[i] = r[i - Len(k.out)]
                                         \/ p.out[i] = Failed
<1> DEFINE n == Len(k.out)
           m == Len(r)
           o == k.out \o r
           f == IF AllFailed(r) THEN k.failures + 1 ELSE 0
           q == [k EXCEPT !.out = o, !.attempt = 0, !.failures = f]
           p == Paced(k, reply, r)
<1>1. k.out \in Seq(Results) /\ k.calls \in Seq(Calls) /\ k.failures \in Nat /\ k.attempt \in Nat
  BY DEF JobRecs
<1>2. n \in Nat /\ m \in Nat /\ Len(k.calls) \in Nat
  BY <1>1, LenProperties
<1>3. /\ o \in Seq(Results) /\ Len(o) = n + m
      /\ \A i \in 1..(n + m) : o[i] = IF i <= n THEN k.out[i] ELSE r[i - n]
  BY <1>1, ConcatProperties
<1>4. f \in Nat
  BY <1>1
<1> HIDE DEF o, f
<1>5. q \in JobRecs /\ SameButOut(q, k) /\ q.read = k.read /\ q.out = o
  BY <1>3, <1>4 DEF JobRecs, SameButOut
<1> HIDE DEF q
<1>6. \A i \in 1..(n + m) : \/ i \in 1..n /\ o[i] = k.out[i]
                            \/ i - n \in 1..m /\ o[i] = r[i - n]
  BY <1>2, <1>3
<1>7. CASE p = [k EXCEPT !.attempt = k.attempt + 1]
  <2> DEFINE a == k.attempt + 1
  <2>0. a \in Nat /\ p = [k EXCEPT !.attempt = a]
    BY <1>1, <1>7
  <2> HIDE DEF a, p
  <2>1. SameButOut(p, k) /\ p.read = k.read /\ p.out = k.out
    BY <2>0 DEF JobRecs, SameButOut
  <2>2. n <= Len(k.calls)
    BY <1>2
  <2> QED
    BY <2>1, <2>2 DEF p
<1>8. CASE p = Padded(q)
  <2>1. Len(q.out) <= Len(q.calls)
    BY <1>2, <1>3, <1>5 DEF SameButOut
  <2>2. /\ SameButOut(p, q) /\ p.read = q.read /\ Len(p.out) <= Len(q.calls)
        /\ \A i \in 1..Len(p.out) : \/ i \in 1..Len(q.out) /\ p.out[i] = q.out[i]
                                    \/ p.out[i] = Failed
    BY <1>5, <1>8, <2>1, PadIs
  <2>3. SameButOut(p, k) /\ p.read = k.read /\ q.calls = k.calls
    BY <1>5, <2>2 DEF SameButOut
  <2> QED
    BY <1>3, <1>5, <1>6, <2>2, <2>3
<1>9. p = [k EXCEPT !.attempt = k.attempt + 1] \/ p = Padded(q)
  BY DEF Paced, q, o, f
<1> QED
  BY <1>7, <1>8, <1>9

\* A batch changes the stage and the calls, and starts without results.
LEMMA BatchIs ==
  ASSUME NEW k \in JobRecs, NEW s \in Stages, NEW cs \in Seq(Calls)
  PROVE  LET b == Batch(k, s, cs)
         IN  /\ b \in JobRecs /\ b.stage = s /\ b.calls = cs /\ b.out = <<>>
             /\ b.op = k.op /\ b.aborted = k.aborted /\ b.prior = k.prior /\ b.list = k.list
             /\ b.probed = k.probed /\ b.unreadable = k.unreadable /\ b.read = k.read
             /\ b.held = k.held /\ b.removed = k.removed
<1>1. <<>> \in Seq(Results) /\ 0 \in Nat
  BY EmptySeq
<1> QED
  BY <1>1 DEF Batch, JobRecs

\* A row is not the absence of one, a job not the absence of one.
LEMMA RowIsNot ==
  ASSUME NEW h \in Holdings
  PROVE  h # NoHolding
<1>1. DOMAIN h = {"raw", "symbol", "deployed"} /\ DOMAIN NoHolding = {"none"}
  BY DEF Holdings, NoHolding
<1> QED
  BY <1>1

LEMMA JobIsNot ==
  ASSUME NEW k \in JobRecs
  PROVE  k # NoJob
BY DEF JobRecs, NoJob

\* The state around a job moves on: nothing held, had, stored or marked is lost.
Onward(ch, hd, rw, ur, ch2, hd2, rw2, ur2) ==
  \A c \in Listed :
    /\ ch[c] > 0 => ch2[c] > 0
    /\ hd[c] \subseteq hd2[c]
    /\ rw[c] # NoHolding => rw2[c] # NoHolding
    /\ c \in ur => c \in ur2

\* A job does not mind the state around it moving on.
LEMMA StaysFine ==
  ASSUME NEW k \in JobRecs, NEW ch, NEW hd, NEW rw, NEW ur, NEW ch2, NEW hd2, NEW rw2, NEW ur2,
         JobFine(k, ch, hd, rw, ur), Onward(ch, hd, rw, ur, ch2, hd2, rw2, ur2)
  PROVE  JobFine(k, ch2, hd2, rw2, ur2)
<1>1. /\ k.calls \in Seq(Calls) /\ k.list \in Seq(Listed) /\ k.held \subseteq Listed
      /\ k.out \in Seq(Results) /\ DOMAIN k.probed \subseteq Listed
  BY DEF JobRecs
<1>2. /\ \A i \in 1..Len(k.calls) : k.calls[i].contract \in Listed
      /\ \A n \in 1..Len(k.list) : k.list[n] \in Listed
      /\ Len(k.out) \in Nat /\ Len(k.calls) \in Nat
  <2>1. Len(k.out) \in Nat /\ Len(k.calls) \in Nat
    BY <1>1, LenProperties
  <2>2. \A i \in 1..Len(k.calls) : k.calls[i] \in Calls
    BY <1>1, LenProperties
  <2>3. \A n \in 1..Len(k.list) : k.list[n] \in Listed
    BY <1>1, LenProperties
  <2> QED
    BY <2>1, <2>2, <2>3 DEF Calls
<1>3. Honest(k, hd2, ur2)
  <2>1. Len(k.out) <= Len(k.calls)
    BY DEF JobFine, Honest
  <2>2. ASSUME NEW i \in 1..Len(k.out), Read(k, i) PROVE k.out[i].value \in hd2[k.calls[i].contract]
    <3>1. k.calls[i].contract \in Listed
      BY <1>2, <2>1
    <3> QED
      BY <2>2, <3>1 DEF JobFine, Honest, Onward
  <2>3. ASSUME NEW c \in Listed, k.prior[c] # NoHolding PROVE k.prior[c].raw \in hd2[c] \/ (c \in ur2 /\ k.prior[c].raw = 0)
    BY <2>3 DEF JobFine, Honest, Onward
  <2>4. ASSUME NEW c \in DOMAIN k.probed PROVE k.probed[c] \in hd2[c]
    BY <1>1, <2>4 DEF JobFine, Honest, Onward
  <2> QED
    BY <2>1, <2>2, <2>3, <2>4 DEF Honest
<1>4. CallsShaped(k)
  BY DEF JobFine
<1>5. ASSUME NEW c \in Listed, Accounted(k, rw, c) PROVE Accounted(k, rw2, c)
  BY <1>5 DEF Accounted, Onward
<1>6. Swept(k, ch2, rw2)
  <2>1. \A c \in k.held : ch2[c] > 0
    BY <1>1 DEF JobFine, Swept, Onward
  <2>2. ASSUME k.stage = "probe", NEW n \in 1..Len(k.list) PROVE Probed(k, rw2, k.list[n])
    BY <1>2, <1>5, <2>2 DEF JobFine, Swept, Probed
  <2>3. ASSUME k.stage = "hits", NEW n \in 1..Len(k.list) PROVE Sorted(k, rw2, k.list[n])
    BY <1>2, <1>5, <2>3 DEF JobFine, Swept, Sorted
  <2>4. \A i \in 1..Len(k.out) : Read(k, i) =>
          k.calls[i].contract \in k.read /\ (k.calls[i].contract \in k.held => k.out[i].value > 0)
    BY DEF JobFine, Swept
  <2> QED
    BY <2>1, <2>2, <2>3, <2>4 DEF Swept
<1> QED
  BY <1>3, <1>4, <1>6 DEF JobFine

\* What failed read nothing.
LEMMA ResultIs ==
  ASSUME NEW r \in Results
  PROVE  r.ok \in BOOLEAN /\ r.value \in Nat /\ (~r.ok => r.value = 0)
<1>1. CASE r = Failed
  BY <1>1 DEF Failed, Result
<1>2. CASE r \in [ok : {TRUE}, value : Nat]
  BY <1>2
<1> QED
  BY <1>1, <1>2 DEF Results

\* The fields of a job.
LEMMA JobFields ==
  ASSUME NEW k \in JobRecs
  PROVE  /\ k.calls \in Seq(Calls) /\ k.out \in Seq(Results) /\ k.list \in Seq(Listed)
         /\ Len(k.calls) \in Nat /\ Len(k.out) \in Nat /\ Len(k.list) \in Nat
         /\ \A i \in 1..Len(k.calls) : k.calls[i].contract \in Listed
         /\ \A i \in 1..Len(k.out) : k.out[i].ok \in BOOLEAN /\ k.out[i].value \in Nat
         /\ \A n \in 1..Len(k.list) : k.list[n] \in Listed
         /\ DOMAIN k.calls = 1..Len(k.calls) /\ DOMAIN k.out = 1..Len(k.out)
         /\ DOMAIN k.list = 1..Len(k.list)
         /\ k.prior \in [Listed -> RowRecs] /\ k.held \subseteq Listed
         /\ k.read \subseteq Listed /\ k.removed \subseteq Listed
<1>1. k.calls \in Seq(Calls) /\ k.out \in Seq(Results) /\ k.list \in Seq(Listed)
  BY DEF JobRecs
<1>2. /\ Len(k.calls) \in Nat /\ DOMAIN k.calls = 1..Len(k.calls)
      /\ \A i \in 1..Len(k.calls) : k.calls[i] \in Calls
  BY <1>1, LenProperties
<1>3. /\ Len(k.out) \in Nat /\ DOMAIN k.out = 1..Len(k.out)
      /\ \A i \in 1..Len(k.out) : k.out[i] \in Results
  BY <1>1, LenProperties
<1>4. /\ Len(k.list) \in Nat /\ DOMAIN k.list = 1..Len(k.list)
      /\ \A i \in 1..Len(k.list) : k.list[i] \in Listed
  BY <1>1, LenProperties
<1>5. /\ k.prior \in [Listed -> RowRecs] /\ k.held \subseteq Listed
      /\ k.read \subseteq Listed /\ k.removed \subseteq Listed
  BY DEF JobRecs
<1>6. \A i \in 1..Len(k.calls) : k.calls[i].contract \in Listed
  BY <1>2 DEF Calls
<1>7. \A i \in 1..Len(k.out) : k.out[i].ok \in BOOLEAN /\ k.out[i].value \in Nat
  BY <1>3, ResultIs
<1> QED
  BY <1>1, <1>2, <1>3, <1>4, <1>5, <1>6, <1>7

\* One job moves on, and the rest of the state only onward.
LEMMA JobMoves ==
  ASSUME TokInv, NEW j \in TokenJobs, NEW k \in JobRecs \cup {NoJob}, jobs' = [jobs EXCEPT ![j] = k],
         chain' \in [Listed -> 0..MaxBalance], had' \in [Listed -> SUBSET (0..MaxBalance)], rows' \in [Listed -> RowRecs],
         unread' \in SUBSET Listed, registry' \in Seq(Listed),
         StoredWasHeld', \A c \in Listed : chain'[c] \in had'[c],
         Onward(chain, had, rows, unread, chain', had', rows', unread'),
         k # NoJob => JobFine(k, chain', had', rows', unread')
  PROVE  TokInv'
<1>1. TokTyped'
  BY DEF TokInv, TokTyped
<1>2. ASSUME NEW i \in TokenJobs, jobs'[i] # NoJob PROVE JobFine(jobs'[i], chain', had', rows', unread')
  <2>1. CASE i = j
    BY <1>2, <2>1 DEF TokInv, TokTyped
  <2>2. CASE i # j
    <3>1. jobs'[i] = jobs[i] /\ jobs[i] \in JobRecs
      BY <1>2, <2>2 DEF TokInv, TokTyped
    <3>2. JobFine(jobs[i], chain, had, rows, unread)
      BY <1>2, <3>1 DEF TokInv
    <3> QED
      BY <3>1, <3>2, StaysFine
  <2> QED
    BY <2>1, <2>2
<1> QED
  BY <1>1, <1>2 DEF TokInv

\* One job moves on, and the rest of the state stays.
LEMMA OnlyJob ==
  ASSUME TokInv, NEW j \in TokenJobs, NEW k \in JobRecs \cup {NoJob}, jobs' = [jobs EXCEPT ![j] = k],
         UNCHANGED <<chain, had, rows, unread>>, registry' \in Seq(Listed),
         k # NoJob => JobFine(k, chain, had, rows, unread)
  PROVE  TokInv'
<1>1. Onward(chain, had, rows, unread, chain', had', rows', unread')
  BY DEF Onward
<1>2. /\ chain' \in [Listed -> 0..MaxBalance] /\ had' \in [Listed -> SUBSET (0..MaxBalance)] /\ rows' \in [Listed -> RowRecs]
      /\ unread' \in SUBSET Listed
      /\ StoredWasHeld' /\ \A c \in Listed : chain'[c] \in had'[c]
  BY DEF TokInv, TokTyped, StoredWasHeld
<1>3. k # NoJob => JobFine(k, chain', had', rows', unread')
  BY DEF JobFine, Honest, Swept
<1> QED
  BY <1>1, <1>2, <1>3, JobMoves

\* A job that begins.
LEMMA JobIs ==
  ASSUME TokTyped, NEW op \in {"sweep", "refresh", "add"}, NEW s \in Stages
  PROVE  LET k == Job(op, s)
         IN  /\ k \in JobRecs /\ k.stage = s /\ k.calls = <<>> /\ k.out = <<>> /\ k.prior = rows
             /\ DOMAIN k.probed = {} /\ k.list = <<>> /\ k.held = {c \in Listed : chain[c] > 0}
<1>1. <<>> \in Seq(Calls) /\ <<>> \in Seq(Results) /\ <<>> \in Seq(Listed)
  BY EmptySeq
<1>2. [c \in {} |-> 0] \in UNION {[S -> 0..MaxBalance] : S \in SUBSET Listed}
  <2>1. [c \in {} |-> 0] \in [{} -> 0..MaxBalance]
    OBVIOUS
  <2>2. {} \in SUBSET Listed
    OBVIOUS
  <2> QED
    BY <2>1, <2>2
<1>3. rows \in [Listed -> RowRecs] /\ {c \in Listed : chain[c] > 0} \in SUBSET Listed
  BY DEF TokTyped
<1> DEFINE none == [c \in {} |-> 0]
           hs == {c \in Listed : chain[c] > 0}
<1>4. DOMAIN none = {}
  OBVIOUS
<1>5. Job(op, s) = [op |-> op, stage |-> s, calls |-> <<>>, out |-> <<>>, attempt |-> 0, failures |-> 0,
        aborted |-> FALSE, prior |-> rows, list |-> <<>>, probed |-> none,
        unreadable |-> FALSE, read |-> {}, held |-> hs, removed |-> {}]
  BY DEF Job
<1> HIDE DEF none, hs
<1>6. none \in UNION {[S -> 0..MaxBalance] : S \in SUBSET Listed} /\ hs \in SUBSET Listed
  BY <1>2, <1>3 DEF none, hs
<1>7. Job(op, s) \in JobRecs
  BY <1>1, <1>3, <1>5, <1>6 DEF JobRecs
<1> QED
  BY <1>4, <1>5, <1>7 DEF hs

\* A job is fine at the start of a batch when the calls are those its stage needs.
LEMMA BatchFine ==
  ASSUME NEW k \in JobRecs, NEW s \in Stages, NEW cs \in Seq(Calls), NEW ch, NEW hd, NEW rw, NEW ur,
         \A c \in Listed : k.prior[c] # NoHolding => k.prior[c].raw \in hd[c] \/ (c \in ur /\ k.prior[c].raw = 0),
         \A c \in DOMAIN k.probed : k.probed[c] \in hd[c],
         \A c \in k.held : ch[c] > 0,
         CallsShaped(Batch(k, s, cs)),
         s = "probe" => \A n \in 1..Len(k.list) : Probed(Batch(k, s, cs), rw, k.list[n]),
         s = "hits" => \A n \in 1..Len(k.list) : Sorted(Batch(k, s, cs), rw, k.list[n])
  PROVE  Batch(k, s, cs) \in JobRecs /\ JobFine(Batch(k, s, cs), ch, hd, rw, ur)
<1> DEFINE b == Batch(k, s, cs)
<1>1. /\ b \in JobRecs /\ b.stage = s /\ b.calls = cs /\ b.out = <<>>
      /\ b.prior = k.prior /\ b.list = k.list /\ b.probed = k.probed /\ b.held = k.held
  BY BatchIs
<1>2. Len(b.out) = 0 /\ Len(b.calls) \in Nat
  BY <1>1, EmptySeq, LenProperties
<1> HIDE DEF b
<1>3. 1..Len(b.out) = {} /\ Len(b.out) <= Len(b.calls)
  BY <1>2
<1>4. Honest(b, hd, ur)
  BY <1>1, <1>3 DEF Honest
<1>5. Swept(b, ch, rw)
  BY <1>1, <1>3 DEF Swept, b
<1> QED
  BY <1>1, <1>4, <1>5 DEF JobFine, b

\* The invariant when a job begins.
LEMMA StartSweepKeeps ==
  ASSUME TokInv, NEW j \in TokenJobs, NEW k \in JobRecs, JobFine(k, chain, had, rows, unread), Start(j, k)
  PROVE  TokInv'
<1>1. jobs' = [jobs EXCEPT ![j] = k] /\ UNCHANGED <<chain, had, rows, registry, unread>>
  BY DEF Start
<1>2. registry' \in Seq(Listed)
  BY <1>1 DEF TokInv, TokTyped
<1> QED
  BY <1>1, <1>2, OnlyJob

\* The calls of a stage, one stage at a time.
LEMMA ShapedIs ==
  ASSUME NEW k, k.calls \in Seq(Calls),
         \/ k.stage = "registry" /\ k.calls = <<>>
         \/ /\ k.stage \in {"deployed", "hits"} \/ (k.stage = "add" /\ Len(k.calls) = 2)
            /\ \A i \in 1..Len(k.calls) : 2 * i <= Len(k.calls) => k.calls[2 * i].key = "balance"
         \/ k.stage = "probe" /\ \A i \in 1..Len(k.calls) : k.calls[i].key = "balance"
         \/ /\ k.stage = "refresh"
            /\ \A i \in 1..Len(k.calls) : k.calls[i].key = "balance" /\ k.prior[k.calls[i].contract] # NoHolding
  PROVE  CallsShaped(k)
<1> DEFINE Paired == \A i \in 1..Len(k.calls) : 2 * i <= Len(k.calls) => k.calls[2 * i].key = "balance"
           Two == Len(k.calls) = 2
<1>1. CallsShaped(k) <=>
        /\ k.stage = "registry" => k.calls = <<>>
        /\ k.stage \in {"deployed", "hits", "add"} => Paired
        /\ k.stage = "add" => Two
        /\ k.stage \in {"probe", "refresh"} => \A i \in 1..Len(k.calls) : k.calls[i].key = "balance"
        /\ k.stage = "refresh" => \A i \in 1..Len(k.calls) : k.prior[k.calls[i].contract] # NoHolding
  BY Zenon DEF CallsShaped
<1>2. \/ k.stage = "registry" /\ k.calls = <<>>
      \/ (k.stage \in {"deployed", "hits"} \/ (k.stage = "add" /\ Two)) /\ Paired
      \/ k.stage = "probe" /\ \A i \in 1..Len(k.calls) : k.calls[i].key = "balance"
      \/ /\ k.stage = "refresh"
         /\ \A i \in 1..Len(k.calls) : k.calls[i].key = "balance" /\ k.prior[k.calls[i].contract] # NoHolding
  BY Zenon
<1> HIDE DEF Paired, Two
<1> QED
  BY <1>1, <1>2

\* A refresh or an add begins well.
LEMMA BeginsFine ==
  ASSUME TokInv, NEW op \in {"sweep", "refresh", "add"}, NEW s \in {"refresh", "add"}, NEW cs \in Seq(Calls),
         CallsShaped(Batch(Job(op, s), s, cs))
  PROVE  /\ Batch(Job(op, s), s, cs) \in JobRecs
         /\ JobFine(Batch(Job(op, s), s, cs), chain, had, rows, unread)
<1> DEFINE k == Job(op, s)
<1>1. s \in Stages
  BY DEF Stages
<1>2. /\ k \in JobRecs /\ k.prior = rows /\ DOMAIN k.probed = {}
      /\ k.held = {c \in Listed : chain[c] > 0}
  BY <1>1, JobIs DEF TokInv
<1> HIDE DEF k
<1>3. \A c \in Listed : rows[c] # NoHolding => rows[c].raw \in had[c] \/ (c \in unread /\ rows[c].raw = 0)
  BY DEF TokInv, StoredWasHeld
<1>4. s # "probe" /\ s # "hits"
  OBVIOUS
<1> QED
  BY <1>1, <1>2, <1>3, <1>4, BatchFine DEF k

\* One lemma per action: it keeps the invariant.
LEMMA DiscoverKeeps ==
  ASSUME TokInv, NEW j \in TokenJobs, Discover(j)
  PROVE  TokInv'
<1> DEFINE k == Job("sweep", "registry")
<1>1. /\ k \in JobRecs /\ k.stage = "registry" /\ k.calls = <<>> /\ k.out = <<>> /\ k.prior = rows
      /\ DOMAIN k.probed = {} /\ k.held = {c \in Listed : chain[c] > 0}
  BY JobIs DEF TokInv, Stages
<1>2. Start(j, k)
  BY DEF Discover
<1> HIDE DEF k
<1>3. 1..Len(k.out) = {} /\ Len(k.out) <= Len(k.calls)
  BY <1>1, EmptySeq
<1>4. Honest(k, had, unread)
  BY <1>1, <1>3 DEF Honest, TokInv, StoredWasHeld
<1>5. CallsShaped(k)
  BY <1>1, ShapedIs, EmptySeq
<1>6. Swept(k, chain, rows)
  BY <1>1, <1>3 DEF Swept
<1> QED
  BY <1>1, <1>2, <1>4, <1>5, <1>6, StartSweepKeeps DEF JobFine

LEMMA RefreshHoldingsKeeps ==
  ASSUME TokInv, NEW j \in TokenJobs, RefreshHoldings(j)
  PROVE  TokInv'
<1> DEFINE H == {c \in Listed : rows[c] # NoHolding}
           cs == Among(Contracts, H)
           b == Balances(cs)
           k == Batch(Job("refresh", "refresh"), "refresh", b)
<1>1. Start(j, k)
  BY DEF RefreshHoldings, KnownRows
<1>2. cs \in Seq(Listed) /\ \A i \in 1..Len(cs) : cs[i] \in H
  <2>1. Contracts \in Seq(Listed)
    BY TokensAssumption
  <2> QED
    BY <2>1, AmongIs
<1> HIDE DEF cs
<1>3. b \in Seq(Calls) /\ Len(b) = Len(cs) /\ \A i \in 1..Len(cs) : b[i].contract = cs[i] /\ b[i].key = "balance"
  BY <1>2, BalancesIs
<1> HIDE DEF b
<1>4. "refresh" \in Stages
  BY DEF Stages
<1>5. Job("refresh", "refresh") \in JobRecs /\ Job("refresh", "refresh").prior = rows
  BY <1>4, JobIs DEF TokInv
<1>6. k.stage = "refresh" /\ k.calls = b /\ k.prior = rows
  BY <1>3, <1>4, <1>5, BatchIs
<1>7. \A i \in 1..Len(b) : b[i].key = "balance" /\ rows[b[i].contract] # NoHolding
  <2>1. ASSUME NEW i \in 1..Len(b) PROVE b[i].key = "balance" /\ rows[b[i].contract] # NoHolding
    <3>1. b[i].contract = cs[i] /\ b[i].key = "balance" /\ cs[i] \in H
      BY <1>2, <1>3
    <3> QED
      BY <3>1
  <2> QED
    BY <2>1
<1> HIDE DEF k
<1>8. CallsShaped(k)
  BY <1>3, <1>6, <1>7, ShapedIs
<1>9. k \in JobRecs /\ JobFine(k, chain, had, rows, unread)
  BY <1>3, <1>8, BeginsFine DEF k
<1> QED
  BY <1>1, <1>9, StartSweepKeeps

LEMMA AddTokenKeeps ==
  ASSUME TokInv, NEW j \in TokenJobs, AddTokenByAddress(j)
  PROVE  TokInv'
<1>1. PICK c \in Listed : Start(j, Batch(Job("add", "add"), "add", TokenCalls(<<c>>)))
  BY DEF AddTokenByAddress
<1> DEFINE b == TokenCalls(<<c>>)
           k == Batch(Job("add", "add"), "add", b)
<1>2. <<c>> \in Seq(Listed) /\ Len(<<c>>) = 1
  OBVIOUS
<1>3. b \in Seq(Calls) /\ Len(b) = 2 /\ \A i \in 1..Len(b) : 2 * i <= Len(b) => b[2 * i].key = "balance"
  <2>1. /\ b \in Seq(Calls) /\ Len(b) = 2 * Len(<<c>>)
        /\ \A i \in 1..Len(b) : 2 * i <= Len(b) => b[2 * i].key = "balance"
    BY <1>2, TokenCallsIs
  <2>2. 2 * Len(<<c>>) = 2
    BY <1>2
  <2> QED
    BY <2>1, <2>2
<1> HIDE DEF b
<1>4. "add" \in Stages
  BY DEF Stages
<1>5. Job("add", "add") \in JobRecs
  BY <1>4, JobIs DEF TokInv
<1>6. k.stage = "add" /\ k.calls = b
  BY <1>3, <1>4, <1>5, BatchIs
<1> HIDE DEF k
<1>8. CallsShaped(k)
  BY <1>3, <1>6, ShapedIs
<1>9. k \in JobRecs /\ JobFine(k, chain, had, rows, unread)
  BY <1>3, <1>8, BeginsFine DEF k
<1> QED
  BY <1>1, <1>9, StartSweepKeeps DEF k, b

\* An aborted job goes on until its next chunk.
LEMMA AbortKeeps ==
  ASSUME TokInv, NEW j \in TokenJobs, Abort(j)
  PROVE  TokInv' /\ jobs'[j] # NoJob
<1> DEFINE k == jobs[j]
           p == [k EXCEPT !.aborted = TRUE]
<1>1. k \in JobRecs /\ JobFine(k, chain, had, rows, unread)
  BY DEF Abort, TokInv, TokTyped
<1>2. jobs' = [jobs EXCEPT ![j] = p] /\ UNCHANGED <<chain, had, rows, registry, unread>>
  BY DEF Abort, Replace
<1> HIDE DEF k
<1>3. /\ p \in JobRecs /\ p.stage = k.stage /\ p.calls = k.calls /\ p.out = k.out
      /\ p.prior = k.prior /\ p.list = k.list /\ p.probed = k.probed /\ p.unreadable = k.unreadable
      /\ p.read = k.read /\ p.held = k.held /\ p.removed = k.removed
  BY <1>1 DEF JobRecs
<1> HIDE DEF p
<1>4. Honest(p, had, unread)
  BY <1>1, <1>3 DEF JobFine, Honest, Read
<1>5. CallsShaped(p)
  BY <1>1, <1>3, Zenon DEF JobFine, CallsShaped
<1>6. Swept(p, chain, rows)
  BY <1>1, <1>3, Zenon DEF JobFine, Swept, Read, Probed, Sorted, Probing, ReadsAgain, Accounted
<1>7. registry' \in Seq(Listed)
  BY <1>2 DEF TokInv, TokTyped
<1>8. TokInv'
  BY <1>2, <1>3, <1>4, <1>5, <1>6, <1>7, OnlyJob DEF JobFine
<1>9. jobs'[j] = p
  BY <1>2 DEF TokInv, TokTyped
<1> QED
  BY <1>3, <1>8, <1>9, JobIsNot

\* A job that ends without writing.
LEMMA EndKeeps ==
  ASSUME TokInv, NEW j \in TokenJobs, jobs' = [jobs EXCEPT ![j] = NoJob],
         UNCHANGED <<chain, had, rows, unread, registry>>
  PROVE  TokInv'
<1>1. registry' \in Seq(Listed)
  BY DEF TokInv, TokTyped
<1> QED
  BY <1>1, OnlyJob

\* A transfer to the address only adds to what was held.
LEMMA ReceiveKeeps ==
  ASSUME TokInv, NEW c \in Listed, Receive(c)
  PROVE  TokInv'
<1>1. /\ chain' = [chain EXCEPT ![c] = MaxBalance] /\ had' = [had EXCEPT ![c] = @ \cup {MaxBalance}]
      /\ chain[c] < MaxBalance /\ UNCHANGED <<rows, registry, unread, jobs>>
  BY DEF Receive
<1>2. MaxBalance \in Nat /\ chain \in [Listed -> 0..MaxBalance] /\ had \in [Listed -> SUBSET (0..MaxBalance)]
  BY TokensAssumption DEF TokInv, TokTyped
<1>3. chain' \in [Listed -> 0..MaxBalance] /\ had' \in [Listed -> SUBSET (0..MaxBalance)]
  BY <1>1, <1>2
<1>4. Onward(chain, had, rows, unread, chain', had', rows', unread')
  <2>1. ASSUME NEW d \in Listed
        PROVE  (chain[d] > 0 => chain'[d] > 0) /\ had[d] \subseteq had'[d]
    <3>1. CASE d = c
      <4>1. chain[c] \in 0..MaxBalance /\ chain'[d] = MaxBalance
        BY <1>1, <1>2, <3>1
      <4> QED
        BY <1>1, <1>2, <3>1, <4>1
    <3>2. CASE d # c
      BY <1>1, <1>2, <3>2
    <3> QED
      BY <3>1, <3>2
  <2> QED
    BY <1>1, <2>1 DEF Onward
<1>5. \A d \in Listed : chain'[d] \in had'[d]
  BY <1>1, <1>2 DEF TokInv
<1>6. StoredWasHeld'
  BY <1>1, <1>4 DEF TokInv, StoredWasHeld, Onward
<1>7. TokTyped'
  BY <1>1, <1>3 DEF TokInv, TokTyped
<1>8. ASSUME NEW i \in TokenJobs, jobs'[i] # NoJob PROVE JobFine(jobs'[i], chain', had', rows', unread')
  <2>1. jobs'[i] \in JobRecs /\ JobFine(jobs'[i], chain, had, rows, unread)
    BY <1>1, <1>8 DEF TokInv, TokTyped
  <2> QED
    BY <1>4, <2>1, StaysFine
<1> QED
  BY <1>5, <1>6, <1>7, <1>8 DEF TokInv

\* A job's balances known to have been held, and its holdings known to be there still.
Sound(k, ch, hd, ur) ==
  /\ \A c \in Listed : k.prior[c] # NoHolding => k.prior[c].raw \in hd[c] \/ (c \in ur /\ k.prior[c].raw = 0)
  /\ \A c \in DOMAIN k.probed : k.probed[c] \in hd[c]
  /\ \A c \in k.held : ch[c] > 0

\* Probes asks about every contract of the list but those already read.
LEMMA ProbesFine ==
  ASSUME NEW k \in JobRecs, NEW D, NEW ch, NEW hd, NEW rw, NEW ur, Sound(k, ch, hd, ur),
         \A n \in 1..Len(k.list) : k.list[n] \in D =>
           k.unreadable \/ (k.list[n] \in k.read /\ Accounted(k, rw, k.list[n]))
  PROVE  Probes(k, D) \in JobRecs /\ JobFine(Probes(k, D), ch, hd, rw, ur)
<1> DEFINE cs == Among(k.list, Listed \ D)
           bs == Balances(cs)
           b == Batch(k, "probe", bs)
<1>1. /\ cs \in Seq(Listed)
      /\ \A n \in 1..Len(k.list) : k.list[n] \in Listed \ D => \E i \in 1..Len(cs) : cs[i] = k.list[n]
  <2>1. k.list \in Seq(Listed)
    BY JobFields
  <2> DEFINE S == Listed \ D
  <2> HIDE DEF S
  <2>2. /\ Among(k.list, S) \in Seq(Listed)
        /\ \A n \in 1..Len(k.list) : k.list[n] \in S =>
             \E i \in 1..Len(Among(k.list, S)) : Among(k.list, S)[i] = k.list[n]
    BY <2>1, AmongIs
  <2> QED
    BY <2>2 DEF S
<1>2. /\ Probes(k, D) = b
      /\ \A n \in 1..Len(k.list) : k.list[n] \in Listed
  BY JobFields DEF Probes
<1> HIDE DEF cs
<1>3. bs \in Seq(Calls) /\ Len(bs) = Len(cs) /\ \A i \in 1..Len(cs) : bs[i].contract = cs[i] /\ bs[i].key = "balance"
  BY <1>1, BalancesIs
<1> HIDE DEF bs
<1>4. "probe" \in Stages
  BY DEF Stages
<1>5. /\ b \in JobRecs /\ b.stage = "probe" /\ b.calls = bs /\ b.list = k.list /\ b.unreadable = k.unreadable
      /\ b.read = k.read /\ b.held = k.held /\ b.removed = k.removed
  BY <1>3, <1>4, BatchIs
<1> HIDE DEF b
<1>6. CallsShaped(b)
  <2>1. \A i \in 1..Len(bs) : bs[i].key = "balance"
    BY <1>3
  <2> QED
    BY <1>3, <1>5, <2>1, ShapedIs
<1>7. ASSUME NEW n \in 1..Len(k.list) PROVE Probed(b, rw, k.list[n])
  <2>1. CASE k.list[n] \in D
    BY <1>5, <2>1 DEF Probed, Accounted
  <2>2. CASE k.list[n] \notin D
    <3>1. PICK i \in 1..Len(cs) : cs[i] = k.list[n]
      BY <1>1, <1>2, <2>2
    <3>2. i \in 1..Len(b.calls) /\ b.calls[i].contract = k.list[n]
      BY <1>3, <1>5, <3>1
    <3> QED
      BY <3>2 DEF Probed, Probing
  <2> QED
    BY <2>1, <2>2
<1>8. b \in JobRecs /\ JobFine(b, ch, hd, rw, ur)
  <2>1. "probe" # "hits"
    OBVIOUS
  <2> QED
    BY <1>3, <1>4, <1>5, <1>6, <1>7, <2>1, BatchFine DEF Sound, b
<1> QED
  BY <1>2, <1>8

\* Either phase starts with nothing known of the contracts it asks about.
LEMMA Phase1Fine ==
  ASSUME NEW k \in JobRecs, NEW D, NEW ch, NEW hd, NEW rw, NEW ur, Sound(k, ch, hd, ur)
  PROVE  Phase1(k, D) \in JobRecs /\ JobFine(Phase1(k, D), ch, hd, rw, ur)
<1>1. CASE D = {}
  <2>1. Probes(k, {}) \in JobRecs /\ JobFine(Probes(k, {}), ch, hd, rw, ur)
    BY ProbesFine
  <2> QED
    BY <1>1, <2>1 DEF Phase1
<1>2. CASE D # {}
  <2> DEFINE cs == Among(k.list, D)
             t == TokenCalls(cs)
             b == Batch(k, "deployed", t)
  <2>1. cs \in Seq(Listed)
    BY JobFields, AmongIs
  <2>2. Phase1(k, D) = b
    BY <1>2 DEF Phase1
  <2> HIDE DEF cs
  <2>3. t \in Seq(Calls) /\ \A i \in 1..Len(t) : 2 * i <= Len(t) => t[2 * i].key = "balance"
    BY <2>1, TokenCallsIs
  <2> HIDE DEF t
  <2>4. "deployed" \in Stages
    BY DEF Stages
  <2>5. b \in JobRecs /\ b.stage = "deployed" /\ b.calls = t
    BY <2>3, <2>4, BatchIs
  <2> HIDE DEF b
  <2>6. CallsShaped(b)
    BY <2>3, <2>5, ShapedIs
  <2>7. b \in JobRecs /\ JobFine(b, ch, hd, rw, ur)
    <3>1. "deployed" # "hits" /\ "deployed" # "probe"
      OBVIOUS
    <3> QED
      BY <2>3, <2>4, <2>6, <3>1, BatchFine DEF Sound, b
  <2> QED
    BY <2>2, <2>7
<1> QED
  BY <1>1, <1>2

\* Whichever list the sweep gets, it may start with it.
LEMMA GetContractRegistryKeeps ==
  ASSUME TokInv, NEW j \in TokenJobs, GetContractRegistry(j)
  PROVE  TokInv'
<1> DEFINE k == jobs[j]
<1>1. k \in JobRecs /\ JobFine(k, chain, had, rows, unread)
  BY DEF GetContractRegistry, TokInv, TokTyped
<1>2. UNCHANGED <<chain, had, rows, unread>>
  BY DEF GetContractRegistry
<1>3. ASSUME NEW list \in Seq(Listed), NEW D,
             Replace(j, Phase1([jobs[j] EXCEPT !.list = list, !.prior = rows], D)), registry' \in Seq(Listed)
      PROVE  TokInv'
  <2> DEFINE p == [k EXCEPT !.list = list, !.prior = rows]
             q == Phase1(p, D)
  <2>1. rows \in [Listed -> RowRecs]
    BY DEF TokInv, TokTyped
  <2>2. jobs' = [jobs EXCEPT ![j] = q]
    BY <1>3 DEF Replace
  <2> HIDE DEF k
  <2>3. p \in JobRecs /\ p.prior = rows /\ p.probed = k.probed /\ p.held = k.held
    BY <1>1, <2>1 DEF JobRecs
  <2> HIDE DEF p
  <2>4. Sound(p, chain, had, unread)
    BY <1>1, <2>3 DEF Sound, JobFine, Honest, Swept, TokInv, StoredWasHeld
  <2>5. q \in JobRecs /\ JobFine(q, chain, had, rows, unread)
    BY <2>3, <2>4, Phase1Fine
  <2> HIDE DEF q
  <2> QED
    BY <1>2, <1>3, <2>2, <2>5, OnlyJob
<1>4. CASE registry # <<>> /\ UNCHANGED registry
           /\ \E deployed \in {{}, Deployed \cap ToSet(registry)} :
                Replace(j, Phase1([jobs[j] EXCEPT !.list = registry, !.prior = rows], deployed))
  <2>1. registry \in Seq(Listed) /\ registry' \in Seq(Listed)
    BY <1>4 DEF TokInv, TokTyped
  <2> QED
    BY <1>3, <1>4, <2>1
<1>5. CASE registry' = Contracts /\ Replace(j, Phase1([jobs[j] EXCEPT !.list = Contracts, !.prior = rows], Deployed))
  BY <1>3, <1>5, TokensAssumption
<1>6. CASE Replace(j, NoJob) /\ UNCHANGED registry
  BY <1>2, <1>6, EndKeeps DEF Replace
<1> QED
  BY <1>4, <1>5, <1>6 DEF GetContractRegistry

\* One batch: a result that came back is the value of its own call.
LEMMA BatchChunkIs ==
  ASSUME TokTyped, NEW calls \in Seq(Calls), NEW reply \in Replies(Len(calls))
  PROVE  LET r == BatchChunk(calls, reply)
         IN  /\ r \in Seq(Results) /\ Len(r) = Len(calls)
             /\ Answered(reply) \subseteq 1..Len(calls)
             /\ \A i \in 1..Len(calls) : r[i].ok => i \in Answered(reply) /\ r[i].value = Value(calls[i])
<1> DEFINE n == Len(calls)
           r == BatchChunk(calls, reply)
<1>1. n \in Nat /\ DOMAIN calls = 1..n /\ \A i \in 1..n : calls[i] \in Calls
  BY LenProperties
<1>2. ASSUME NEW i \in 1..n PROVE Value(calls[i]) \in Nat
  <2>1. calls[i].contract \in Listed /\ chain \in [Listed -> 0..MaxBalance]
    BY <1>1 DEF Calls, TokTyped
  <2> QED
    BY <2>1 DEF Value
<1>3. ASSUME NEW e \in Entries(n), NEW i \in DOMAIN e PROVE e[i].id \in 1..n
  <2>1. PICK m \in 0..n : e \in [1..m -> [id : 1..n, ok : BOOLEAN]]
    BY <1>3 DEF Entries
  <2> QED
    BY <2>1
<1>4. \A i \in DOMAIN reply.entries : reply.entries[i].id \in 1..n
  <2>1. \/ reply.entries \in Entries(n)
        \/ reply.entries = <<>>
    BY DEF Replies
  <2>2. DOMAIN <<>> = {}
    OBVIOUS
  <2> QED
    BY <1>3, <2>1, <2>2
<1>5. Answered(reply) \subseteq 1..n
  BY <1>4 DEF Answered
<1>6. r = [i \in 1..n |-> IF i \in Answered(reply) THEN Result(TRUE, Value(calls[i])) ELSE Failed]
  BY <1>1 DEF BatchChunk
<1> HIDE DEF r, n
<1>7. ASSUME NEW i \in 1..n
      PROVE  r[i] \in Results /\ (r[i].ok => i \in Answered(reply) /\ r[i].value = Value(calls[i]))
  <2>1. CASE i \in Answered(reply)
    BY <1>2, <1>6, <2>1 DEF Result, Results
  <2>2. CASE i \notin Answered(reply)
    BY <1>6, <2>2 DEF Failed, Result, Results
  <2> QED
    BY <2>1, <2>2
<1>8. r \in [1..n -> Results]
  BY <1>6, <1>7
<1>9. r \in Seq(Results)
  BY <1>1, <1>8, SeqDef
<1>10. Len(r) = n
  BY <1>1, <1>8, <1>9, LenProperties
<1> QED
  BY <1>5, <1>7, <1>9, <1>10 DEF r, n

\* The results of one more chunk are honest and accounted for.
LEMMA AnswerFine ==
  ASSUME TokInv, NEW k \in JobRecs, JobFine(k, chain, had, rows, unread), ~BatchDone(k),
         NEW reply \in Replies(Len(NextChunk(k)))
  PROVE  LET chunk == NextChunk(k)
             asked == {chunk[i].contract : i \in {x \in Answered(reply) : chunk[x].key = "balance"}}
             p == [Paced(k, reply, BatchChunk(chunk, reply)) EXCEPT !.read = @ \cup asked]
         IN  p \in JobRecs /\ JobFine(p, chain, had, rows, unread)
<1> DEFINE chunk == NextChunk(k)
           asked == {chunk[i].contract : i \in {x \in Answered(reply) : chunk[x].key = "balance"}}
           r == BatchChunk(chunk, reply)
           q == Paced(k, reply, r)
           p == [q EXCEPT !.read = @ \cup asked]
           n == Len(k.out)
<1>1. Len(k.out) <= Len(k.calls)
  BY DEF JobFine, Honest
<1>2. /\ chunk \in Seq(Calls) /\ Len(k.out) + Len(chunk) <= Len(k.calls)
      /\ \A i \in 1..Len(chunk) : n + i \in 1..Len(k.calls) /\ chunk[i] = k.calls[n + i]
  BY <1>1, NextChunkIs
<1>3. reply \in Replies(Len(chunk))
  OBVIOUS
<1> HIDE DEF chunk
<1>4. /\ r \in Seq(Results) /\ Len(r) = Len(chunk) /\ Answered(reply) \subseteq 1..Len(chunk)
      /\ \A i \in 1..Len(chunk) : r[i].ok => i \in Answered(reply) /\ r[i].value = Value(chunk[i])
  BY <1>2, <1>3, BatchChunkIs DEF TokInv
<1> HIDE DEF r
<1>5. /\ SameButOut(q, k) /\ q.read = k.read /\ Len(q.out) <= Len(k.calls)
      /\ \A i \in 1..Len(q.out) : \/ i \in 1..Len(k.out) /\ q.out[i] = k.out[i]
                                  \/ i - Len(k.out) \in 1..Len(r) /\ q.out[i] = r[i - Len(k.out)]
                                  \/ q.out[i] = Failed
  BY <1>2, <1>4, PacedIs
<1>6. q \in JobRecs
  BY <1>5 DEF SameButOut
<1> HIDE DEF q
<1>7. \A i \in 1..Len(chunk) : chunk[i].contract \in Listed
  <2>1. \A i \in 1..Len(chunk) : chunk[i] \in Calls
    BY <1>2, LenProperties
  <2> QED
    BY <2>1 DEF Calls
<1>8. asked \in SUBSET Listed
  BY <1>4, <1>7
<1>9. \A i \in Answered(reply) : chunk[i].key = "balance" => chunk[i].contract \in asked
  OBVIOUS
<1> HIDE DEF asked
<1>10. /\ p \in JobRecs /\ p.read = k.read \cup asked /\ p.out = q.out
       /\ p.stage = k.stage /\ p.calls = k.calls /\ p.prior = k.prior /\ p.list = k.list /\ p.probed = k.probed
       /\ p.unreadable = k.unreadable /\ p.held = k.held /\ p.removed = k.removed
  BY <1>5, <1>6, <1>8 DEF JobRecs, SameButOut
<1> HIDE DEF p
<1>11. ASSUME NEW i \in 1..Len(p.out), Read(p, i)
       PROVE  /\ p.out[i].value \in had[p.calls[i].contract]
              /\ p.calls[i].contract \in p.read
              /\ p.calls[i].contract \in p.held => p.out[i].value > 0
  <2>1. CASE i \in 1..n /\ q.out[i] = k.out[i]
    <3>1. Read(k, i)
      BY <1>10, <1>11, <2>1 DEF Read
    <3> QED
      BY <1>10, <2>1, <3>1 DEF JobFine, Honest, Swept
  <2>2. CASE i - n \in 1..Len(r) /\ q.out[i] = r[i - n]
    <3> DEFINE m == i - n
    <3>1. n \in Nat /\ i \in Nat
      <4>1. Len(p.out) \in Nat /\ n \in Nat
        BY <1>10, JobFields
      <4> QED
        BY <4>1
    <3>2. m \in 1..Len(chunk) /\ n + m = i
      BY <1>4, <2>2, <3>1
    <3>3. q.out[i] = r[m] /\ k.calls[i] = chunk[m]
      BY <1>2, <2>2, <3>2
    <3> HIDE DEF m
    <3>4. chunk[m].key = "balance" /\ r[m].ok
      BY <1>10, <1>11, <3>3 DEF Read
    <3>5. m \in Answered(reply) /\ r[m].value = Value(chunk[m])
      BY <1>4, <3>2, <3>4
    <3>6. chunk[m].contract \in asked
      BY <1>9, <3>4, <3>5
    <3>7. r[m].value = chain[chunk[m].contract] /\ chunk[m].contract \in Listed
      BY <1>7, <3>2, <3>4, <3>5 DEF Value
    <3>8. r[m].value \in had[chunk[m].contract]
      BY <3>7 DEF TokInv
    <3>9. chunk[m].contract \in k.held => r[m].value > 0
      BY <3>7 DEF JobFine, Swept
    <3> QED
      BY <1>10, <3>3, <3>6, <3>8, <3>9
  <2>3. CASE q.out[i] = Failed
    BY <1>10, <1>11, <2>3 DEF Read, Failed, Result
  <2> QED
    BY <1>5, <1>10, <1>11, <2>1, <2>2, <2>3
<1>12. Honest(p, had, unread)
  BY <1>5, <1>10, <1>11 DEF JobFine, Honest
<1>13. CallsShaped(p)
  BY <1>10, Zenon DEF JobFine, CallsShaped
<1>14. Swept(p, chain, rows)
  <2>1. \A c : Accounted(k, rows, c) => Accounted(p, rows, c)
    BY <1>10 DEF Accounted
  <2>2. \A c : Probing(k, c) => Probing(p, c)
    BY <1>10 DEF Probing
  <2>3. \A c : ReadsAgain(k, c) => ReadsAgain(p, c)
    BY <1>10, Zenon DEF ReadsAgain
  <2>4. \A c : Probed(k, rows, c) => Probed(p, rows, c)
    BY <1>10, <2>1, <2>2 DEF Probed
  <2>5. \A c : Sorted(k, rows, c) => Sorted(p, rows, c)
    BY <1>10, <2>1, <2>3 DEF Sorted
  <2>6. \A c \in p.held : chain[c] > 0
    BY <1>10 DEF JobFine, Swept
  <2>7. /\ p.stage = "probe" => \A m \in 1..Len(p.list) : Probed(p, rows, p.list[m])
        /\ p.stage = "hits" => \A m \in 1..Len(p.list) : Sorted(p, rows, p.list[m])
    BY <1>10, <2>4, <2>5 DEF JobFine, Swept
  <2> QED
    BY <1>11, <2>6, <2>7 DEF Swept
<1> QED
  BY <1>10, <1>12, <1>13, <1>14 DEF JobFine, p, q, r, chunk, asked

\* Any answer to a chunk keeps the invariant, and the job goes on.
LEMMA AnswerKeeps ==
  ASSUME TokInv, NEW j \in TokenJobs, Answer(j)
  PROVE  TokInv' /\ jobs'[j] # NoJob
<1> DEFINE k == jobs[j]
           chunk == NextChunk(k)
<1>1. k \in JobRecs /\ JobFine(k, chain, had, rows, unread) /\ ~BatchDone(k)
  BY DEF Answer, TokInv, TokTyped
<1>2. UNCHANGED <<chain, had, rows, unread, registry>>
  BY DEF Answer
<1>3. PICK reply \in Replies(Len(chunk)) :
        jobs' = [jobs EXCEPT ![j] =
          [Paced(k, reply, BatchChunk(chunk, reply)) EXCEPT
             !.read = @ \cup {chunk[i].contract : i \in {x \in Answered(reply) : chunk[x].key = "balance"}}]]
  BY DEF Answer
<1> DEFINE p == [Paced(k, reply, BatchChunk(chunk, reply)) EXCEPT
                   !.read = @ \cup {chunk[i].contract : i \in {x \in Answered(reply) : chunk[x].key = "balance"}}]
<1>4. p \in JobRecs /\ JobFine(p, chain, had, rows, unread)
  BY <1>1, AnswerFine
<1> HIDE DEF p
<1>5. jobs' = [jobs EXCEPT ![j] = p]
  BY <1>3 DEF p
<1>6. registry' \in Seq(Listed)
  BY <1>2 DEF TokInv, TokTyped
<1>7. TokInv'
  BY <1>2, <1>4, <1>5, <1>6, OnlyJob
<1>8. jobs'[j] = p
  BY <1>5 DEF TokInv, TokTyped
<1> QED
  BY <1>4, <1>7, <1>8, JobIsNot

\* A read of one token out of a finished batch.
LEMMA TokenReadIs ==
  ASSUME NEW k \in JobRecs, NEW ch, NEW hd, NEW rw, NEW ur, JobFine(k, ch, hd, rw, ur), BatchDone(k),
         k.stage \in {"deployed", "hits", "add"}, NEW i \in 1..(Len(k.calls) \div 2)
  PROVE  LET x == TokenRead(k, i)
         IN  /\ 2 * i \in 1..Len(k.calls) /\ x.contract = k.calls[2 * i].contract /\ x.contract \in Listed
             /\ x.symbol \in BOOLEAN /\ x.balanceOk \in BOOLEAN /\ x.raw \in Nat
             /\ x.balanceOk => /\ x.raw \in hd[x.contract] /\ x.contract \in k.read
                               /\ x.contract \in k.held => x.raw > 0
             /\ ~x.balanceOk => x.raw = 0 /\ \E m \in 1..Len(k.out) : ~k.out[m].ok
<1> DEFINE m == 2 * i
           l == 2 * i - 1
           x == TokenRead(k, i)
           sy == k.out[l].ok /\ k.out[l].value > 0
<1>1. Len(k.calls) \in Nat /\ Len(k.out) = Len(k.calls)
  BY JobFields DEF BatchDone
<1>2. m \in 1..Len(k.calls) /\ l \in 1..Len(k.calls) /\ i \in 1..Len(k.calls) /\ m <= Len(k.calls)
  <2> DEFINE n == Len(k.calls)
  <2>1. n \in Nat /\ i \in 1..(n \div 2)
    BY <1>1
  <2> HIDE DEF n
  <2>2. i \in Nat /\ 1 <= i /\ 2 * i <= n
    BY <2>1
  <2>3. 2 * i \in 1..n /\ 2 * i - 1 \in 1..n /\ i \in 1..n
    BY <2>1, <2>2
  <2> QED
    BY <2>2, <2>3 DEF n
<1>3. x = [contract |-> k.calls[m].contract, symbol |-> sy, balanceOk |-> k.out[m].ok, raw |-> k.out[m].value]
  BY DEF TokenRead
<1>4. k.calls[m].key = "balance"
  <2>1. \A n \in 1..Len(k.calls) : 2 * n <= Len(k.calls) => k.calls[2 * n].key = "balance"
    BY Zenon DEF JobFine, CallsShaped
  <2> QED
    BY <1>2, <2>1
<1>5. sy \in BOOLEAN
  OBVIOUS
<1>6. m \in 1..Len(k.calls)
  BY <1>2
<1> HIDE DEF m, x, sy, l
<1>7. m \in 1..Len(k.out)
  BY <1>1, <1>6
<1>8. /\ k.out[m].ok \in BOOLEAN /\ k.out[m].value \in Nat /\ k.calls[m].contract \in Listed
      /\ ~k.out[m].ok => k.out[m].value = 0
  <2>1. k.out[m] \in Results
    BY <1>7, ElementOfSeq DEF JobRecs
  <2>2. k.out[m].ok \in BOOLEAN /\ k.out[m].value \in Nat /\ (~k.out[m].ok => k.out[m].value = 0)
    BY <2>1, ResultIs
  <2> QED
    BY <1>6, <1>7, <2>2, JobFields
<1>9. k.out[m].ok => /\ k.out[m].value \in hd[k.calls[m].contract] /\ k.calls[m].contract \in k.read
                     /\ k.calls[m].contract \in k.held => k.out[m].value > 0
  BY <1>4, <1>7 DEF JobFine, Honest, Swept, Read
<1>10. /\ x.contract = k.calls[m].contract /\ x.symbol = sy /\ x.balanceOk = k.out[m].ok
       /\ x.raw = k.out[m].value
  BY <1>3
<1> QED
  BY <1>5, <1>6, <1>7, <1>8, <1>9, <1>10 DEF m, x

\* The reads of a batch, as a set.
LEMMA TokenReadsAre ==
  ASSUME NEW k
  PROVE  ToSet(TokenReads(k)) = {TokenRead(k, i) : i \in 1..(Len(k.calls) \div 2)}
BY DEF ToSet, TokenReads

\* What a sweep writes: rows with balances that were held; a row for every contract that it
\* found a token, and none taken away.
LEMMA PersistedIs ==
  ASSUME TokInv, NEW k \in JobRecs, JobFine(k, chain, had, rows, unread), BatchDone(k),
         k.stage \in {"deployed", "hits"}, NEW dep \in BOOLEAN
  PROVE  LET P == Persisted(k, dep)
         IN  /\ P \in [Listed -> RowRecs]
             /\ \A c \in Listed : P[c] # NoHolding => P[c].raw \in had[c] \/ (c \in unread /\ P[c].raw = 0)
             /\ \A c \in Listed : rows[c] # NoHolding => P[c] # NoHolding
             /\ \A i \in 1..(Len(k.calls) \div 2) :
                  LET x == TokenRead(k, i)
                  IN (dep => LooksLikeToken(x)) /\ PersistRaw(k, x) # {} => P[x.contract] # NoHolding
<1> DEFINE P == Persisted(k, dep)
           Fits(c) == {x \in ToSet(TokenReads(k)) : x.contract = c /\ (dep => LooksLikeToken(x))}
           Was(c) == k.prior[c] # NoHolding /\ k.prior[c].deployed
           Dep(c) == dep \/ Was(c)
<1>1. P = [c \in Listed |-> IF NewRows(k, dep, c) = {} THEN rows[c]
                            ELSE CHOOSE h \in NewRows(k, dep, c) : TRUE]
  BY DEF Persisted
<1>2. \A c : NewRows(k, dep, c) =
        UNION {{[raw |-> raw, symbol |-> x.symbol, deployed |-> Dep(c)] : raw \in PersistRaw(k, x)} : x \in Fits(c)}
  BY Zenon DEF NewRows
<1>3. \A c : Dep(c) \in BOOLEAN
  OBVIOUS
<1> HIDE DEF P, Dep
<1>4. ASSUME NEW i \in 1..(Len(k.calls) \div 2), NEW raw \in PersistRaw(k, TokenRead(k, i))
      PROVE  raw \in 0..MaxBalance /\ (raw \in had[TokenRead(k, i).contract] \/ (TokenRead(k, i).contract \in unread /\ raw = 0))
  <2> DEFINE x == TokenRead(k, i)
  <2>1. /\ x.contract \in Listed /\ x.balanceOk \in BOOLEAN /\ x.raw \in Nat
        /\ x.balanceOk => x.raw \in had[x.contract]
    BY TokenReadIs
  <2>2. had[x.contract] \in SUBSET (0..MaxBalance)
    BY <2>1 DEF TokInv, TokTyped
  <2>3. raw \in PersistRaw(k, x)
    OBVIOUS
  <2> HIDE DEF x
  <2>4. CASE x.balanceOk
    <3>1. raw = x.raw
      BY <2>3, <2>4 DEF PersistRaw
    <3> QED
      BY <2>1, <2>2, <2>4, <3>1 DEF x
  <2>5. CASE ~x.balanceOk /\ x.contract \in DOMAIN k.probed
    <3>1. raw = k.probed[x.contract]
      BY <2>3, <2>5 DEF PersistRaw
    <3>2. k.probed[x.contract] \in had[x.contract]
      BY <2>5 DEF JobFine, Honest
    <3> QED
      BY <2>2, <3>1, <3>2 DEF x
  <2>6. CASE ~x.balanceOk /\ x.contract \notin DOMAIN k.probed
    <3>1. raw = k.prior[x.contract].raw /\ k.prior[x.contract] # NoHolding
      BY <2>3, <2>6 DEF PersistRaw
    <3>2. k.prior[x.contract] \in Holdings
      BY <2>1, <3>1, JobFields DEF RowRecs
    <3>3. raw \in 0..MaxBalance
      BY <3>1, <3>2 DEF Holdings
    <3>4. raw \in had[x.contract] \/ (x.contract \in unread /\ raw = 0)
      BY <2>1, <3>1 DEF JobFine, Honest
    <3> QED
      BY <3>3, <3>4 DEF x
  <2> QED
    BY <2>1, <2>4, <2>5, <2>6
<1>5. ASSUME NEW c \in Listed, NEW h \in NewRows(k, dep, c)
      PROVE  h \in Holdings /\ (h.raw \in had[c] \/ (c \in unread /\ h.raw = 0))
  <2>0. PICK x \in Fits(c) : \E raw \in PersistRaw(k, x) : h = [raw |-> raw, symbol |-> x.symbol, deployed |-> Dep(c)]
    <3>1. h \in UNION {{[raw |-> raw, symbol |-> x.symbol, deployed |-> Dep(c)] : raw \in PersistRaw(k, x)} : x \in Fits(c)}
      BY <1>2, <1>5
    <3> HIDE DEF Fits
    <3> QED
      BY <3>1, Zenon
  <2>1. PICK raw \in PersistRaw(k, x) : h = [raw |-> raw, symbol |-> x.symbol, deployed |-> Dep(c)]
    BY <2>0
  <2>2. PICK i \in 1..(Len(k.calls) \div 2) : x = TokenRead(k, i)
    BY <2>1, TokenReadsAre
  <2>3. x.contract = c
    BY <2>1
  <2>4. raw \in 0..MaxBalance /\ (raw \in had[c] \/ (c \in unread /\ raw = 0))
    BY <1>4, <2>1, <2>2, <2>3
  <2>5. x.symbol \in BOOLEAN
    BY <2>2, TokenReadIs
  <2> QED
    BY <1>3, <2>1, <2>4, <2>5 DEF Holdings
<1>6. ASSUME NEW c \in Listed
      PROVE  \/ P[c] = rows[c] /\ NewRows(k, dep, c) = {}
             \/ P[c] \in NewRows(k, dep, c)
  BY <1>1
<1>7. rows \in [Listed -> RowRecs]
  BY DEF TokInv, TokTyped
<1>8. ASSUME NEW c \in Listed
      PROVE  /\ P[c] \in RowRecs
             /\ P[c] # NoHolding => P[c].raw \in had[c] \/ (c \in unread /\ P[c].raw = 0)
             /\ rows[c] # NoHolding => P[c] # NoHolding
  <2>1. CASE P[c] = rows[c]
    BY <1>7, <2>1 DEF TokInv, StoredWasHeld
  <2>2. CASE P[c] \in NewRows(k, dep, c)
    BY <1>5, <2>2, RowIsNot DEF RowRecs
  <2> QED
    BY <1>6, <2>1, <2>2
<1>9. P \in [Listed -> RowRecs]
  BY <1>1, <1>8
<1>10. ASSUME NEW i \in 1..(Len(k.calls) \div 2), dep => LooksLikeToken(TokenRead(k, i)),
              PersistRaw(k, TokenRead(k, i)) # {}
       PROVE  P[TokenRead(k, i).contract] # NoHolding
  <2> DEFINE x == TokenRead(k, i)
             c == x.contract
  <2>1. c \in Listed
    BY TokenReadIs
  <2>2. x \in Fits(c)
    BY <1>10, TokenReadsAre
  <2>3. PICK raw \in PersistRaw(k, x) : TRUE
    BY <1>10
  <2> HIDE DEF Fits, x
  <2>4. [raw |-> raw, symbol |-> x.symbol, deployed |-> Dep(c)] \in NewRows(k, dep, c)
    BY <1>2, <2>2, <2>3
  <2>5. P[c] \in NewRows(k, dep, c)
    BY <1>6, <2>1, <2>4
  <2> QED
    BY <1>5, <2>1, <2>5, RowIsNot DEF x
<1> QED
  BY <1>8, <1>9, <1>10 DEF P

\* The invariant after a step that writes rows and moves one job on.
LEMMA WriteKeeps ==
  ASSUME TokInv, NEW j \in TokenJobs, NEW k \in JobRecs \cup {NoJob}, jobs' = [jobs EXCEPT ![j] = k],
         UNCHANGED <<chain, had, registry>>, rows' \in [Listed -> RowRecs],
         unread' \in SUBSET Listed, unread \subseteq unread',
         \A c \in Listed : rows[c] # NoHolding => rows'[c] # NoHolding,
         \A c \in Listed : rows'[c] # NoHolding => rows'[c].raw \in had[c] \/ (c \in unread' /\ rows'[c].raw = 0),
         k # NoJob => JobFine(k, chain, had, rows', unread')
  PROVE  TokInv'
<1>1. Onward(chain, had, rows, unread, chain', had', rows', unread')
  BY DEF Onward
<1>2. /\ chain' \in [Listed -> 0..MaxBalance] /\ had' \in [Listed -> SUBSET (0..MaxBalance)] /\ registry' \in Seq(Listed)
      /\ \A c \in Listed : chain'[c] \in had'[c]
  BY DEF TokInv, TokTyped
<1>3. StoredWasHeld'
  BY DEF StoredWasHeld
<1>4. k # NoJob => JobFine(k, chain', had', rows', unread')
  OBVIOUS
<1> QED
  BY <1>1, <1>2, <1>3, <1>4, JobMoves

\* What was deployed by the address is either read or marks the sweep as unreadable.
LEMMA PersistDeployedKeeps ==
  ASSUME TokInv, NEW j \in TokenJobs, PersistDeployed(j)
  PROVE  TokInv'
<1> DEFINE k == jobs[j]
           lost == \E x \in ToSet(TokenReads(k)) : ~x.balanceOk
           D == {x.contract : x \in ToSet(TokenReads(k))}
           p == [k EXCEPT !.unreadable = lost]
           q == Probes(p, D)
           P == Persisted(k, TRUE)
<1>1. /\ k \in JobRecs /\ JobFine(k, chain, had, rows, unread) /\ BatchDone(k) /\ k.stage = "deployed"
  BY DEF PersistDeployed, TokInv, TokTyped
<1>2. /\ rows' = P /\ jobs' = [jobs EXCEPT ![j] = q]
      /\ UNCHANGED <<chain, had, registry, unread>>
  BY DEF PersistDeployed, Replace
<1>3. /\ P \in [Listed -> RowRecs]
      /\ \A c \in Listed : P[c] # NoHolding => P[c].raw \in had[c] \/ (c \in unread /\ P[c].raw = 0)
      /\ \A c \in Listed : rows[c] # NoHolding => P[c] # NoHolding
      /\ \A i \in 1..(Len(k.calls) \div 2) :
           LooksLikeToken(TokenRead(k, i)) /\ PersistRaw(k, TokenRead(k, i)) # {} => P[TokenRead(k, i).contract] # NoHolding
  BY <1>1, PersistedIs
<1> HIDE DEF P
<1>4. PICK f \in BOOLEAN : f = lost
  OBVIOUS
<1>5. p = [k EXCEPT !.unreadable = f]
  BY <1>4
<1> HIDE DEF k, p
<1>6. /\ p \in JobRecs /\ p.unreadable = f /\ p.list = k.list /\ p.read = k.read /\ p.held = k.held
      /\ p.removed = k.removed /\ p.prior = k.prior /\ p.probed = k.probed
  BY <1>1, <1>5 DEF JobRecs
<1>7. Sound(p, chain, had, unread)
  BY <1>1, <1>6 DEF Sound, JobFine, Honest, Swept
<1>8. ASSUME NEW n \in 1..Len(p.list), p.list[n] \in D
      PROVE  p.unreadable \/ (p.list[n] \in p.read /\ Accounted(p, P, p.list[n]))
  <2>1. PICK i \in 1..(Len(k.calls) \div 2) : p.list[n] = TokenRead(k, i).contract
    BY <1>8, TokenReadsAre
  <2> DEFINE x == TokenRead(k, i)
  <2>2. x \in ToSet(TokenReads(k))
    BY TokenReadsAre
  <2>3. /\ x.balanceOk \in BOOLEAN /\ x.raw \in Nat
        /\ x.balanceOk => x.contract \in k.read /\ (x.contract \in k.held => x.raw > 0)
    BY <1>1, TokenReadIs
  <2>4. p.list[n] = x.contract
    BY <2>1
  <2>5. LooksLikeToken(x) /\ PersistRaw(k, x) # {} => P[x.contract] # NoHolding
    BY <1>3
  <2> HIDE DEF x
  <2>6. CASE ~x.balanceOk
    BY <1>4, <1>6, <2>2, <2>6
  <2>7. CASE x.balanceOk
    <3>1. PersistRaw(k, x) # {}
      BY <2>7 DEF PersistRaw
    <3>2. x.contract \in k.held => LooksLikeToken(x)
      BY <2>3, <2>7 DEF LooksLikeToken
    <3> QED
      BY <1>6, <2>3, <2>4, <2>5, <2>7, <3>1, <3>2 DEF Accounted
  <2> QED
    BY <2>3, <2>6, <2>7
<1>9. q \in JobRecs /\ JobFine(q, chain, had, P, unread)
  BY <1>6, <1>7, <1>8, ProbesFine
<1> HIDE DEF q
<1>10. unread' \in SUBSET Listed
  BY <1>2 DEF TokInv, TokTyped
<1> QED
  BY <1>2, <1>3, <1>9, <1>10, WriteKeeps

\* Every probe is a hit, an empty balance that was read, or marks the sweep as unreadable.
LEMMA ReadHitsKeeps ==
  ASSUME TokInv, NEW j \in TokenJobs, ReadHits(j)
  PROVE  TokInv'
<1> DEFINE k == jobs[j]
           hits == {i \in DOMAIN k.calls : k.out[i].ok /\ k.out[i].value > 0}
           asked == [i \in DOMAIN k.calls |-> k.calls[i].contract]
           lost == k.unreadable \/ \E i \in DOMAIN k.out : ~k.out[i].ok
           found == [c \in {asked[i] : i \in hits} |-> k.out[CHOOSE i \in hits : asked[i] = c].value]
           p == [k EXCEPT !.unreadable = lost, !.probed = found]
           cs == Filtered(asked, hits)
           t == TokenCalls(cs)
           q == Batch(p, "hits", t)
<1>1. /\ k \in JobRecs /\ JobFine(k, chain, had, rows, unread) /\ BatchDone(k) /\ k.stage = "probe"
  BY DEF ReadHits, TokInv, TokTyped
<1>2. /\ jobs' = [jobs EXCEPT ![j] = q]
      /\ UNCHANGED <<chain, had, registry, unread, rows>>
  BY DEF ReadHits, Replace
<1> HIDE DEF k
<1>3. /\ Len(k.calls) \in Nat /\ DOMAIN k.calls = 1..Len(k.calls) /\ DOMAIN k.out = 1..Len(k.calls)
      /\ Len(k.out) = Len(k.calls) /\ k.list \in Seq(Listed)
      /\ \A i \in 1..Len(k.calls) : k.calls[i].contract \in Listed /\ k.out[i].ok \in BOOLEAN /\ k.out[i].value \in Nat
  BY <1>1, JobFields DEF BatchDone
<1>4. \A i \in 1..Len(k.calls) : k.calls[i].key = "balance"
  BY <1>1 DEF JobFine, CallsShaped
<1>5. \A i \in 1..Len(k.calls) : k.out[i].ok =>
        /\ k.out[i].value \in had[k.calls[i].contract] /\ k.calls[i].contract \in k.read
        /\ k.calls[i].contract \in k.held => k.out[i].value > 0
  BY <1>1, <1>3, <1>4 DEF JobFine, Honest, Swept, Read
<1>6. /\ asked \in Seq(Listed) /\ Len(asked) = Len(k.calls)
      /\ \A i \in 1..Len(k.calls) : asked[i] = k.calls[i].contract
  <2>1. asked \in [1..Len(k.calls) -> Listed]
    BY <1>3
  <2>2. asked \in Seq(Listed)
    BY <1>3, <2>1, SeqDef
  <2> QED
    BY <1>3, <2>1, <2>2, LenProperties
<1>7. /\ hits \in SUBSET (1..Len(asked))
      /\ \A i \in hits : k.out[i].ok /\ k.out[i].value > 0
      /\ \A i \in 1..Len(k.calls) : k.out[i].ok /\ k.out[i].value > 0 => i \in hits
  BY <1>3, <1>6
<1> HIDE DEF asked, hits
<1>8. /\ cs \in Seq(Listed) /\ Len(cs) = Cardinality(hits) /\ Cardinality(hits) \in Nat
      /\ \A m \in 1..Cardinality(hits) : Nth(hits, m) \in hits /\ cs[m] = asked[Nth(hits, m)]
      /\ \A i \in hits : \E m \in 1..Cardinality(hits) : Nth(hits, m) = i
  BY <1>6, <1>7, FilteredIs
<1> HIDE DEF cs
<1>9. /\ t \in Seq(Calls) /\ Len(t) = 2 * Len(cs)
      /\ \A i \in 1..Len(cs) : t[2 * i] = [contract |-> cs[i], key |-> "balance"]
      /\ \A i \in 1..Len(t) : 2 * i <= Len(t) => t[2 * i].key = "balance"
  BY <1>8, TokenCallsIs
<1> HIDE DEF t
<1>10. /\ DOMAIN found = {asked[i] : i \in hits} /\ DOMAIN found \subseteq Listed
       /\ \A c \in DOMAIN found : found[c] \in had[c] /\ found[c] \in 0..MaxBalance
  <2>1. DOMAIN found = {asked[i] : i \in hits}
    OBVIOUS
  <2>2. DOMAIN found \subseteq Listed
    BY <1>3, <1>6, <1>7, <2>1
  <2>3. ASSUME NEW c \in DOMAIN found PROVE found[c] \in had[c] /\ found[c] \in 0..MaxBalance
    <3> DEFINE i == CHOOSE x \in hits : asked[x] = c
    <3>1. i \in hits /\ asked[i] = c
      BY <2>1
    <3>2. found[c] = k.out[i].value
      BY <2>1
    <3> HIDE DEF i
    <3>3. had[c] \subseteq 0..MaxBalance
      BY <2>2 DEF TokInv, TokTyped
    <3>4. i \in 1..Len(k.calls) /\ k.out[i].ok /\ k.calls[i].contract = c
      BY <1>3, <1>6, <1>7, <3>1
    <3>5. k.out[i].value \in had[c]
      BY <1>5, <3>4
    <3> QED
      BY <3>2, <3>3, <3>5
  <2> QED
    BY <2>1, <2>2, <2>3
<1>11. found \in UNION {[S -> 0..MaxBalance] : S \in SUBSET Listed}
  <2> DEFINE S == {asked[i] : i \in hits}
  <2>1. found = [c \in S |-> found[c]]
    OBVIOUS
  <2> HIDE DEF found
  <2>2. found \in [S -> 0..MaxBalance] /\ S \in SUBSET Listed
    BY <1>10, <2>1
  <2> QED
    BY <2>2
<1> HIDE DEF found
<1>12. PICK f \in BOOLEAN : f = lost
  OBVIOUS
<1>13. p = [k EXCEPT !.unreadable = f, !.probed = found]
  BY <1>12
<1> HIDE DEF p
<1>14. /\ p \in JobRecs /\ p.unreadable = f /\ p.list = k.list /\ p.read = k.read /\ p.held = k.held
       /\ p.removed = k.removed /\ p.prior = k.prior /\ p.probed = found
  BY <1>1, <1>11, <1>13 DEF JobRecs
<1>15. "hits" \in Stages
  BY DEF Stages
<1>16. /\ q \in JobRecs /\ q.stage = "hits" /\ q.calls = t /\ q.list = k.list /\ q.unreadable = f
       /\ q.read = k.read /\ q.held = k.held /\ q.removed = k.removed /\ q.probed = found
  BY <1>9, <1>14, <1>15, BatchIs
<1> HIDE DEF q
<1>17. CallsShaped(q)
  BY <1>9, <1>16, ShapedIs
<1>18. ASSUME NEW i \in hits PROVE asked[i] \in DOMAIN q.probed /\ ReadsAgain(q, asked[i])
  <2>1. PICK m \in 1..Cardinality(hits) : Nth(hits, m) = i
    BY <1>8
  <2>2. m \in 1..Len(cs) /\ cs[m] = asked[i]
    BY <1>8, <2>1
  <2>3. t[2 * m] = [contract |-> cs[m], key |-> "balance"]
    BY <1>9, <2>2
  <2>4. t[2 * m].contract = cs[m]
    BY <2>3
  <2>5. m \in 1..Len(t) /\ 2 * m <= Len(t)
    <3>1. Len(cs) \in Nat
      BY <1>8
    <3> QED
      BY <1>9, <2>2, <3>1
  <2> QED
    BY <1>10, <1>16, <2>2, <2>4, <2>5 DEF ReadsAgain
<1>19. ASSUME NEW n \in 1..Len(k.list) PROVE Sorted(q, rows, k.list[n])
  <2> DEFINE c == k.list[n]
  <2>1. Probed(k, rows, c)
    BY <1>1 DEF JobFine, Swept
  <2> SUFFICES Sorted(q, rows, c)
    OBVIOUS
  <2> HIDE DEF c
  <2>2. CASE k.unreadable
    BY <1>12, <1>16, <2>2 DEF Sorted
  <2>3. CASE c \in k.read /\ Accounted(k, rows, c)
    BY <1>16, <2>3 DEF Sorted, Accounted
  <2>4. CASE Probing(k, c)
    <3>1. PICK i \in 1..Len(k.calls) : k.calls[i].contract = c
      BY <2>4 DEF Probing
    <3>2. CASE ~k.out[i].ok
      BY <1>3, <1>12, <1>16, <3>2 DEF Sorted
    <3>3. CASE k.out[i].ok
      <4>1. c \in k.read
        BY <1>5, <3>1, <3>3
      <4>2. CASE c \in k.held
        <5>1. i \in hits /\ asked[i] = c
          BY <1>5, <1>6, <1>7, <3>1, <3>3, <4>2
        <5> QED
          BY <1>16, <1>18, <4>1, <5>1 DEF Sorted
      <4>3. CASE c \notin k.held
        BY <1>16, <4>1, <4>3 DEF Sorted, Accounted
      <4> QED
        BY <4>2, <4>3
    <3> QED
      BY <3>2, <3>3
  <2> QED
    BY <2>1, <2>2, <2>3, <2>4 DEF Probed
<1>20. Sound(p, chain, had, unread)
  BY <1>1, <1>10, <1>14 DEF Sound, JobFine, Honest, Swept
<1>21. q \in JobRecs /\ JobFine(q, chain, had, rows, unread)
  <2>1. "hits" # "probe"
    OBVIOUS
  <2> QED
    BY <1>9, <1>14, <1>15, <1>17, <1>19, <1>20, <2>1, BatchFine DEF Sound, q
<1>22. registry' \in Seq(Listed)
  BY <1>2 DEF TokInv, TokTyped
<1> QED
  BY <1>2, <1>21, <1>22, OnlyJob

\* A sweep that read everything knows of its whole list, and what was held has a row.
LEMMA PersistHitsKeeps ==
  ASSUME TokInv, NEW j \in TokenJobs, PersistHits(j)
  PROVE  /\ TokInv'
         /\ ~jobs[j].unreadable =>
              /\ ToSet(jobs[j].list) \subseteq jobs[j].read
              /\ \A c \in jobs[j].held \cap ToSet(jobs[j].list) : rows'[c] # NoHolding \/ c \in jobs[j].removed
<1> DEFINE k == jobs[j]
           P == Persisted(k, FALSE)
<1>1. /\ k \in JobRecs /\ JobFine(k, chain, had, rows, unread) /\ BatchDone(k) /\ k.stage = "hits"
  BY DEF PersistHits, TokInv, TokTyped
<1>2. rows' = P /\ jobs' = [jobs EXCEPT ![j] = NoJob] /\ UNCHANGED <<chain, had, registry, unread>>
  BY DEF PersistHits, Replace
<1> HIDE DEF k
<1>3. /\ P \in [Listed -> RowRecs]
      /\ \A c \in Listed : P[c] # NoHolding => P[c].raw \in had[c] \/ (c \in unread /\ P[c].raw = 0)
      /\ \A c \in Listed : rows[c] # NoHolding => P[c] # NoHolding
      /\ \A i \in 1..(Len(k.calls) \div 2) :
           PersistRaw(k, TokenRead(k, i)) # {} => P[TokenRead(k, i).contract] # NoHolding
  BY <1>1, PersistedIs
<1> HIDE DEF P
<1>4. TokInv'
  <2>1. unread' \in SUBSET Listed
    BY <1>2 DEF TokInv, TokTyped
  <2> QED
    BY <1>2, <1>3, <2>1, WriteKeeps
<1>5. ASSUME NEW c \in k.held, c \in DOMAIN k.probed, ReadsAgain(k, c) PROVE P[c] # NoHolding
  <2>1. PICK i \in 1..Len(k.calls) : 2 * i <= Len(k.calls) /\ k.calls[2 * i].contract = c
    BY <1>5 DEF ReadsAgain
  <2>2. i \in 1..(Len(k.calls) \div 2)
    <3> DEFINE n == Len(k.calls)
    <3>1. n \in Nat /\ i \in 1..n /\ 2 * i <= n
      BY <1>1, <2>1, JobFields
    <3> HIDE DEF n
    <3>2. i \in 1..(n \div 2)
      BY <3>1
    <3> QED
      BY <3>2 DEF n
  <2>3. TokenRead(k, i).contract = c
    BY <1>1, <2>1, <2>2, TokenReadIs
  <2>4. PersistRaw(k, TokenRead(k, i)) # {}
    BY <1>5, <2>3 DEF PersistRaw
  <2> QED
    BY <1>3, <2>2, <2>3, <2>4
<1>6. ASSUME ~k.unreadable, NEW c \in ToSet(k.list)
      PROVE  c \in k.read /\ (c \in k.held => P[c] # NoHolding \/ c \in k.removed)
  <2>1. PICK n \in 1..Len(k.list) : k.list[n] = c
    BY <1>1, JobFields DEF ToSet
  <2>2. Sorted(k, rows, c) /\ c \in Listed
    BY <1>1, <2>1, JobFields DEF JobFine, Swept
  <2>3. c \in k.read /\ (Accounted(k, rows, c) \/ (c \in DOMAIN k.probed /\ ReadsAgain(k, c)))
    BY <1>6, <2>2 DEF Sorted
  <2>4. Accounted(k, rows, c) /\ c \in k.held => P[c] # NoHolding \/ c \in k.removed
    BY <1>3, <2>2 DEF Accounted
  <2> QED
    BY <1>5, <2>3, <2>4
<1> QED
  BY <1>2, <1>4, <1>6 DEF k

\* A refresh writes only what it read into the rows that there were.
LEMMA SaveRefreshedKeeps ==
  ASSUME TokInv, NEW j \in TokenJobs, SaveRefreshed(j)
  PROVE  TokInv'
<1> DEFINE k == jobs[j]
           At(c) == {i \in DOMAIN k.calls : k.calls[i].contract = c}
           Pick(c) == CHOOSE i \in At(c) : TRUE
<1>1. /\ k \in JobRecs /\ JobFine(k, chain, had, rows, unread) /\ BatchDone(k) /\ k.stage = "refresh"
  BY DEF SaveRefreshed, TokInv, TokTyped
<1>2. /\ rows' = [c \in Listed |-> IF At(c) = {} THEN rows[c] ELSE Refreshed(k, Pick(c))]
      /\ jobs' = [jobs EXCEPT ![j] = NoJob] /\ UNCHANGED <<chain, had, registry, unread>>
  BY DEF SaveRefreshed, Replace
<1> HIDE DEF k
<1>3. \A c \in Listed : At(c) # {} => Pick(c) \in At(c)
  OBVIOUS
<1>4. \A c \in Listed : \A i \in At(c) : i \in 1..Len(k.calls) /\ k.calls[i].contract = c
  BY <1>1, JobFields
<1> HIDE DEF At, Pick
<1>5. rows \in [Listed -> RowRecs] /\ had \in [Listed -> SUBSET (0..MaxBalance)] /\ unread \in SUBSET Listed
  BY DEF TokInv, TokTyped
<1>6. ASSUME NEW c \in Listed
      PROVE  /\ rows'[c] \in RowRecs
             /\ rows'[c] # NoHolding => rows'[c].raw \in had[c] \/ (c \in unread /\ rows'[c].raw = 0)
             /\ rows[c] # NoHolding => rows'[c] # NoHolding
  <2>1. CASE rows'[c] = rows[c]
    BY <1>5, <2>1 DEF TokInv, StoredWasHeld
  <2>2. CASE rows'[c] # rows[c]
    <3> DEFINE i == Pick(c)
               v == k.out[i].value
               h == k.prior[c]
    <3>1. i \in 1..Len(k.calls) /\ k.calls[i].contract = c /\ rows'[c] = Refreshed(k, i)
      BY <1>2, <1>3, <1>4, <2>2
    <3>2. k.out[i].ok /\ rows'[c] = [h EXCEPT !.raw = v]
      BY <2>2, <3>1 DEF Refreshed
    <3> HIDE DEF i
    <3>3. i \in 1..Len(k.out) /\ v \in Nat
      BY <1>1, <3>1, JobFields DEF BatchDone
    <3>4. k.calls[i].key = "balance" /\ h # NoHolding
      BY <1>1, <3>1 DEF JobFine, CallsShaped
    <3>5. v \in had[c] /\ v \in 0..MaxBalance
      <4>1. v \in had[c]
        BY <1>1, <3>1, <3>2, <3>3, <3>4 DEF JobFine, Honest, Read
      <4> QED
        BY <1>5, <4>1
    <3>6. h \in Holdings
      BY <1>1, <3>4, JobFields DEF RowRecs
    <3> HIDE DEF v, h
    <3>7. rows'[c] \in Holdings /\ rows'[c].raw = v
      BY <3>2, <3>5, <3>6 DEF Holdings
    <3> QED
      BY <3>5, <3>7, RowIsNot DEF RowRecs
  <2> QED
    BY <2>1, <2>2
<1>7. rows' \in [Listed -> RowRecs]
  BY <1>2, <1>6
<1>8. unread' \in SUBSET Listed /\ unread \subseteq unread'
  BY <1>2, <1>5
<1> QED
  BY <1>2, <1>6, <1>7, <1>8, WriteKeeps

\* An add writes what it read, or marks the row as unread.
LEMMA SaveAddedKeeps ==
  ASSUME TokInv, NEW j \in TokenJobs, SaveAdded(j)
  PROVE  TokInv'
<1> DEFINE k == jobs[j]
           x == TokenRead(k, 1)
           c == x.contract
           row == [raw |-> x.raw, symbol |-> x.symbol, deployed |-> FALSE]
           zero == IF x.balanceOk THEN {} ELSE {c}
<1>1. /\ k \in JobRecs /\ JobFine(k, chain, had, rows, unread) /\ BatchDone(k) /\ k.stage = "add"
  BY DEF SaveAdded, TokInv, TokTyped
<1>2. jobs' = [jobs EXCEPT ![j] = NoJob] /\ UNCHANGED <<chain, had, registry>>
  BY DEF SaveAdded, Replace
<1>3. \/ rows' = [rows EXCEPT ![c] = row] /\ unread' = unread \cup zero
      \/ rows' = rows /\ unread' = unread
  BY DEF SaveAdded
<1> HIDE DEF k
<1>4. Len(k.calls) = 2
  BY <1>1 DEF JobFine, CallsShaped
<1>5. 1 \in 1..(Len(k.calls) \div 2)
  BY <1>4
<1>6. /\ c \in Listed /\ x.symbol \in BOOLEAN /\ x.balanceOk \in BOOLEAN /\ x.raw \in Nat
      /\ x.balanceOk => x.raw \in had[c]
      /\ ~x.balanceOk => x.raw = 0
  BY <1>1, <1>5, TokenReadIs
<1> HIDE DEF x
<1>7. row \in Holdings /\ row.raw = x.raw
  <2>1. had[c] \subseteq 0..MaxBalance /\ MaxBalance \in Nat
    BY <1>6, TokensAssumption DEF TokInv, TokTyped
  <2>2. x.raw \in 0..MaxBalance
    BY <1>6, <2>1
  <2> QED
    BY <1>6, <2>2 DEF Holdings
<1> HIDE DEF row
<1>8. row # NoHolding /\ row \in RowRecs
  BY <1>7, RowIsNot DEF RowRecs
<1>9. rows \in [Listed -> RowRecs] /\ unread \in SUBSET Listed
  BY DEF TokInv, TokTyped
<1>10. zero \in SUBSET Listed /\ (x.raw \in had[c] \/ (c \in zero /\ x.raw = 0))
  BY <1>6
<1> HIDE DEF zero, c
<1>11. /\ rows' \in [Listed -> RowRecs] /\ unread' \in SUBSET Listed /\ unread \subseteq unread'
  BY <1>3, <1>8, <1>9, <1>10
<1>12. ASSUME NEW d \in Listed
       PROVE  /\ rows[d] # NoHolding => rows'[d] # NoHolding
              /\ rows'[d] # NoHolding => rows'[d].raw \in had[d] \/ (d \in unread' /\ rows'[d].raw = 0)
  <2>1. CASE rows'[d] = rows[d]
    BY <1>11, <2>1 DEF TokInv, StoredWasHeld
  <2>2. CASE rows'[d] # rows[d]
    <3>1. d = c /\ rows'[d] = row /\ unread' = unread \cup zero
      BY <1>3, <1>9, <2>2
    <3> QED
      BY <1>7, <1>8, <1>10, <3>1
  <2> QED
    BY <2>1, <2>2
<1> QED
  BY <1>2, <1>11, <1>12, WriteKeeps

\* A row taken away is on record as removed with every job that may miss it.
LEMMA RemoveTokenKeeps ==
  ASSUME TokInv, NEW c \in Listed, RemoveToken(c)
  PROVE  TokInv' /\ \A j \in TokenJobs : jobs[j] # NoJob => jobs'[j] # NoJob
<1>1. /\ rows' = [rows EXCEPT ![c] = NoHolding]
      /\ unread' = IF \E j \in TokenJobs : jobs[j] # NoJob /\ jobs[j].prior[c] # NoHolding
                   THEN unread ELSE unread \ {c}
      /\ jobs' = [j \in TokenJobs |-> IF jobs[j] = NoJob THEN NoJob ELSE [jobs[j] EXCEPT !.removed = @ \cup {c}]]
      /\ UNCHANGED <<chain, had, registry>>
  BY DEF RemoveToken
<1>2. rows \in [Listed -> RowRecs] /\ unread \in SUBSET Listed /\ registry \in Seq(Listed)
  BY DEF TokInv, TokTyped
<1>3. rows' \in [Listed -> RowRecs]
  BY <1>1, <1>2 DEF RowRecs
<1>4. unread' \in SUBSET Listed /\ \A d \in Listed : d # c => (d \in unread => d \in unread')
  BY <1>1, <1>2
<1>5. StoredWasHeld'
  BY <1>1, <1>2, <1>4 DEF TokInv, StoredWasHeld
<1>6. ASSUME NEW j \in TokenJobs, jobs[j] # NoJob
      PROVE  jobs'[j] \in JobRecs /\ JobFine(jobs'[j], chain, had, rows', unread')
  <2> DEFINE k == jobs[j]
             p == [k EXCEPT !.removed = @ \cup {c}]
  <2>1. k \in JobRecs /\ JobFine(k, chain, had, rows, unread)
    BY <1>6 DEF TokInv, TokTyped
  <2>2. jobs'[j] = p
    BY <1>1, <1>6
  <2>3. k.prior[c] # NoHolding => unread' = unread
    BY <1>1, <1>6
  <2> HIDE DEF k
  <2>4. /\ p \in JobRecs /\ p.removed = k.removed \cup {c} /\ p.stage = k.stage /\ p.calls = k.calls
        /\ p.out = k.out /\ p.prior = k.prior /\ p.list = k.list /\ p.probed = k.probed
        /\ p.unreadable = k.unreadable /\ p.read = k.read /\ p.held = k.held
    BY <2>1 DEF JobRecs
  <2> HIDE DEF p
  <2>5. Honest(p, had, unread')
    <3>1. ASSUME NEW d \in Listed, k.prior[d] # NoHolding PROVE k.prior[d].raw \in had[d] \/ (d \in unread' /\ k.prior[d].raw = 0)
      <4>1. k.prior[d].raw \in had[d] \/ (d \in unread /\ k.prior[d].raw = 0)
        BY <2>1, <3>1 DEF JobFine, Honest
      <4>2. d \in unread => d \in unread'
        BY <1>4, <2>3, <3>1
      <4> QED
        BY <4>1, <4>2
    <3>2. /\ Len(p.out) <= Len(p.calls)
          /\ \A i \in 1..Len(p.out) : Read(p, i) => p.out[i].value \in had[p.calls[i].contract]
          /\ \A d \in DOMAIN p.probed : p.probed[d] \in had[d]
      BY <2>1, <2>4 DEF JobFine, Honest, Read
    <3> QED
      BY <2>4, <3>1, <3>2 DEF Honest
  <2>6. CallsShaped(p)
    BY <2>1, <2>4, Zenon DEF JobFine, CallsShaped
  <2>7. Swept(p, chain, rows')
    <3>1. \A d \in Listed : Accounted(k, rows, d) => Accounted(p, rows', d)
      BY <1>1, <1>2, <2>4 DEF Accounted
    <3>2. \A d : Probing(k, d) => Probing(p, d)
      BY <2>4 DEF Probing
    <3>3. \A d : ReadsAgain(k, d) => ReadsAgain(p, d)
      BY <2>4, Zenon DEF ReadsAgain
    <3>4. \A d \in Listed : Probed(k, rows, d) => Probed(p, rows', d)
      BY <2>4, <3>1, <3>2 DEF Probed
    <3>5. \A d \in Listed : Sorted(k, rows, d) => Sorted(p, rows', d)
      BY <2>4, <3>1, <3>3 DEF Sorted
    <3>6. \A n \in 1..Len(k.list) : k.list[n] \in Listed
      BY <2>1, JobFields
    <3>7. /\ p.stage = "probe" => \A m \in 1..Len(p.list) : Probed(p, rows', p.list[m])
          /\ p.stage = "hits" => \A m \in 1..Len(p.list) : Sorted(p, rows', p.list[m])
      BY <2>1, <2>4, <3>4, <3>5, <3>6 DEF JobFine, Swept
    <3>8. /\ \A d \in p.held : chain[d] > 0
          /\ \A i \in 1..Len(p.out) : Read(p, i) =>
               p.calls[i].contract \in p.read /\ (p.calls[i].contract \in p.held => p.out[i].value > 0)
      BY <2>1, <2>4 DEF JobFine, Swept, Read
    <3> QED
      BY <3>7, <3>8 DEF Swept
  <2> QED
    BY <2>2, <2>4, <2>5, <2>6, <2>7 DEF JobFine
<1>7. jobs' \in [TokenJobs -> JobRecs \cup {NoJob}] /\ \A j \in TokenJobs : jobs[j] = NoJob => jobs'[j] = NoJob
  BY <1>1, <1>6
<1>8. TokTyped'
  BY <1>1, <1>2, <1>3, <1>4, <1>7 DEF TokInv, TokTyped
<1>9. \A j \in TokenJobs : jobs'[j] # NoJob => JobFine(jobs'[j], chain', had', rows', unread')
  BY <1>1, <1>6, <1>7
<1>10. \A d \in Listed : chain'[d] \in had'[d]
  BY <1>1 DEF TokInv
<1>11. \A j \in TokenJobs : jobs[j] # NoJob => jobs'[j] # NoJob
  BY <1>6, JobIsNot
<1> QED
  BY <1>5, <1>8, <1>9, <1>10, <1>11 DEF TokInv

\* A contract that was emptied is no longer one that every job's sweep must find.
LEMMA SpendKeeps ==
  ASSUME TokInv, NEW c \in Listed, Spend(c)
  PROVE  TokInv' /\ \A j \in TokenJobs : jobs[j] # NoJob => jobs'[j] # NoJob
<1>1. /\ chain' = [chain EXCEPT ![c] = 0] /\ had' = [had EXCEPT ![c] = @ \cup {0}]
      /\ jobs' = [j \in TokenJobs |-> IF jobs[j] = NoJob THEN NoJob ELSE [jobs[j] EXCEPT !.held = @ \ {c}]]
      /\ UNCHANGED <<rows, registry, unread>>
  BY DEF Spend
<1>2. /\ chain \in [Listed -> 0..MaxBalance] /\ had \in [Listed -> SUBSET (0..MaxBalance)]
      /\ rows \in [Listed -> RowRecs] /\ unread \in SUBSET Listed /\ registry \in Seq(Listed)
  BY DEF TokInv, TokTyped
<1>3. chain' \in [Listed -> 0..MaxBalance] /\ had' \in [Listed -> SUBSET (0..MaxBalance)]
  BY <1>1, <1>2, TokensAssumption
<1>4. \A d \in Listed : had[d] \subseteq had'[d] /\ (d # c => chain'[d] = chain[d])
  BY <1>1, <1>2
<1>5. \A d \in Listed : chain'[d] \in had'[d]
  BY <1>1, <1>2 DEF TokInv
<1>6. StoredWasHeld'
  BY <1>1, <1>4 DEF TokInv, StoredWasHeld
<1>7. ASSUME NEW j \in TokenJobs, jobs[j] # NoJob
      PROVE  jobs'[j] \in JobRecs /\ JobFine(jobs'[j], chain', had', rows, unread)
  <2> DEFINE k == jobs[j]
             p == [k EXCEPT !.held = @ \ {c}]
  <2>1. k \in JobRecs /\ JobFine(k, chain, had, rows, unread)
    BY <1>7 DEF TokInv, TokTyped
  <2>2. jobs'[j] = p
    BY <1>1, <1>7
  <2> HIDE DEF k
  <2>3. /\ p \in JobRecs /\ p.held = k.held \ {c} /\ p.removed = k.removed /\ p.stage = k.stage
        /\ p.calls = k.calls /\ p.out = k.out /\ p.prior = k.prior /\ p.list = k.list
        /\ p.probed = k.probed /\ p.unreadable = k.unreadable /\ p.read = k.read
    BY <2>1 DEF JobRecs
  <2> HIDE DEF p
  <2>4. k.held \subseteq Listed /\ DOMAIN k.probed \subseteq Listed
    BY <2>1 DEF JobRecs
  <2>5. Honest(p, had', unread)
    <3>1. \A d \in Listed : k.prior[d] # NoHolding => k.prior[d].raw \in had'[d] \/ (d \in unread /\ k.prior[d].raw = 0)
      BY <1>4, <2>1 DEF JobFine, Honest
    <3>2. ASSUME NEW i \in 1..Len(p.out), Read(p, i) PROVE p.out[i].value \in had'[p.calls[i].contract]
      <4>1. Len(k.out) <= Len(k.calls) /\ Read(k, i) /\ i \in 1..Len(k.out)
        BY <2>1, <2>3, <3>2 DEF JobFine, Honest, Read
      <4>2. k.out[i].value \in had[k.calls[i].contract]
        BY <2>1, <4>1 DEF JobFine, Honest
      <4>3. k.calls[i].contract \in Listed
        BY <2>1, <4>1, JobFields, LenProperties DEF Calls
      <4> QED
        BY <1>4, <2>3, <4>2, <4>3
    <3>3. Len(p.out) <= Len(p.calls) /\ \A d \in DOMAIN p.probed : p.probed[d] \in had'[d]
      BY <1>4, <2>1, <2>3, <2>4 DEF JobFine, Honest
    <3> QED
      BY <2>3, <3>1, <3>2, <3>3 DEF Honest
  <2>6. CallsShaped(p)
    BY <2>1, <2>3, Zenon DEF JobFine, CallsShaped
  <2>7. Swept(p, chain', rows)
    <3>1. \A d : Accounted(k, rows, d) => Accounted(p, rows, d)
      BY <2>3 DEF Accounted
    <3>2. \A d : Probing(k, d) => Probing(p, d)
      BY <2>3 DEF Probing
    <3>3. \A d : ReadsAgain(k, d) => ReadsAgain(p, d)
      BY <2>3, Zenon DEF ReadsAgain
    <3>4. \A d : Probed(k, rows, d) => Probed(p, rows, d)
      BY <2>3, <3>1, <3>2 DEF Probed
    <3>5. \A d : Sorted(k, rows, d) => Sorted(p, rows, d)
      BY <2>3, <3>1, <3>3 DEF Sorted
    <3>6. /\ p.stage = "probe" => \A m \in 1..Len(p.list) : Probed(p, rows, p.list[m])
          /\ p.stage = "hits" => \A m \in 1..Len(p.list) : Sorted(p, rows, p.list[m])
      BY <2>1, <2>3, <3>4, <3>5 DEF JobFine, Swept
    <3>7. \A d \in k.held : chain[d] > 0
      BY <2>1 DEF JobFine, Swept
    <3>8. \A d \in p.held : chain'[d] > 0
      BY <1>4, <2>3, <2>4, <3>7
    <3>9. \A i \in 1..Len(p.out) : Read(p, i) =>
            p.calls[i].contract \in p.read /\ (p.calls[i].contract \in p.held => p.out[i].value > 0)
      BY <2>1, <2>3 DEF JobFine, Swept, Read
    <3> QED
      BY <3>6, <3>8, <3>9 DEF Swept
  <2> QED
    BY <2>2, <2>3, <2>5, <2>6, <2>7 DEF JobFine
<1>8. jobs' \in [TokenJobs -> JobRecs \cup {NoJob}] /\ \A j \in TokenJobs : jobs[j] = NoJob => jobs'[j] = NoJob
  BY <1>1, <1>7
<1>9. TokTyped'
  BY <1>1, <1>2, <1>3, <1>8 DEF TokInv, TokTyped
<1>10. \A j \in TokenJobs : jobs'[j] # NoJob => JobFine(jobs'[j], chain', had', rows', unread')
  BY <1>1, <1>7, <1>8
<1>11. \A j \in TokenJobs : jobs[j] # NoJob => jobs'[j] # NoJob
  BY <1>7, JobIsNot
<1> QED
  BY <1>5, <1>6, <1>9, <1>10, <1>11 DEF TokInv

\* The first state.
LEMMA TokInitFine ==
  ASSUME TokensInit
  PROVE  TokInv
<1>1. StartBalance \in [Listed -> 0..MaxBalance]
  BY TokensAssumption
<1>2. <<>> \in Seq(Listed)
  BY EmptySeq
<1>3. chain \in [Listed -> 0..MaxBalance] /\ \A c \in Listed : chain[c] \in had[c]
  BY <1>1 DEF TokensInit
<1>4. had \in [Listed -> SUBSET (0..MaxBalance)]
  <2>1. \A c \in Listed : {StartBalance[c]} \in SUBSET (0..MaxBalance)
    BY <1>1
  <2> QED
    BY <2>1 DEF TokensInit
<1>5. rows \in [Listed -> RowRecs] /\ unread \in SUBSET Listed /\ \A c \in Listed : rows[c] = NoHolding
  BY DEF TokensInit, RowRecs
<1>6. jobs \in [TokenJobs -> JobRecs \cup {NoJob}] /\ \A j \in TokenJobs : jobs[j] = NoJob
  BY DEF TokensInit
<1>7. registry = <<>>
  BY DEF TokensInit
<1> QED
  BY <1>2, <1>3, <1>4, <1>5, <1>6, <1>7 DEF TokInv, TokTyped, StoredWasHeld

\* A cancelled job just ends.
LEMMA CancelledKeeps ==
  ASSUME TokInv, NEW j \in TokenJobs, Cancelled(j)
  PROVE  TokInv'
BY EndKeeps DEF Cancelled

\* Every step keeps the invariant.
LEMMA TokStep ==
  ASSUME TokInv, [TokensNext]_tok_vars
  PROVE  TokInv'
<1>1. ASSUME NEW j \in TokenJobs,
             \/ Discover(j) \/ Abort(j) \/ Cancelled(j) \/ GetContractRegistry(j) \/ Answer(j)
             \/ PersistDeployed(j) \/ ReadHits(j) \/ PersistHits(j)
             \/ RefreshHoldings(j) \/ SaveRefreshed(j) \/ AddTokenByAddress(j) \/ SaveAdded(j)
      PROVE  TokInv'
  BY <1>1, DiscoverKeeps, AbortKeeps, CancelledKeeps, GetContractRegistryKeeps, AnswerKeeps,
     PersistDeployedKeeps, ReadHitsKeeps, PersistHitsKeeps, RefreshHoldingsKeeps, SaveRefreshedKeeps,
     AddTokenKeeps, SaveAddedKeeps
<1>2. ASSUME NEW c \in Listed, RemoveToken(c) \/ Receive(c) \/ Spend(c) PROVE TokInv'
  BY <1>2, RemoveTokenKeeps, ReceiveKeeps, SpendKeeps
<1>3. CASE UNCHANGED tok_vars
  BY <1>3 DEF tok_vars, TokInv, TokTyped, StoredWasHeld
<1> QED
  BY <1>1, <1>2, <1>3 DEF TokensNext

\* The step that ends a sweep that was not cancelled is the one that records it.
LEMMA SweepStep ==
  ASSUME TokInv, [TokensNext]_tok_vars, NEW j \in TokenJobs, SweepEnds(j)
  PROVE  PersistHits(j)
<1>1. jobs[j] # NoJob /\ jobs[j].stage = "hits" /\ jobs'[j] = NoJob /\ ~jobs[j].aborted
  BY DEF SweepEnds
<1>2. jobs \in [TokenJobs -> JobRecs \cup {NoJob}]
  BY DEF TokInv, TokTyped
<1>3. ASSUME NEW i \in TokenJobs, NEW k, jobs' = [jobs EXCEPT ![i] = k] PROVE i = j
  BY <1>1, <1>2, <1>3
<1>4. ASSUME NEW i \in TokenJobs, NEW k, Start(i, k) PROVE FALSE
  BY <1>1, <1>2, <1>3, <1>4 DEF Start
<1>5. ASSUME NEW i \in TokenJobs, Discover(i) \/ RefreshHoldings(i) \/ AddTokenByAddress(i) PROVE FALSE
  BY <1>4, <1>5 DEF Discover, RefreshHoldings, AddTokenByAddress
<1>6. ASSUME NEW i \in TokenJobs, Abort(i) PROVE FALSE
  <2>1. i = j
    BY <1>3, <1>6 DEF Abort, Replace
  <2> QED
    BY <1>1, <1>6, <2>1, AbortKeeps
<1>7. ASSUME NEW i \in TokenJobs, Answer(i) PROVE FALSE
  <2>1. i = j
    BY <1>3, <1>7 DEF Answer
  <2> QED
    BY <1>1, <1>7, <2>1, AnswerKeeps
<1>8. ASSUME NEW i \in TokenJobs, Cancelled(i) PROVE FALSE
  BY <1>1, <1>3, <1>8 DEF Cancelled
<1>9. ASSUME NEW i \in TokenJobs, GetContractRegistry(i) PROVE FALSE
  <2>1. jobs[i].stage = "registry"
    BY <1>9 DEF GetContractRegistry
  <2>2. i = j
    BY <1>3, <1>9 DEF GetContractRegistry, Replace
  <2> QED
    BY <1>1, <2>1, <2>2
<1>10. ASSUME NEW i \in TokenJobs, PersistDeployed(i) \/ ReadHits(i) \/ SaveRefreshed(i) \/ SaveAdded(i) PROVE FALSE
  <2>1. jobs[i].stage \in {"deployed", "probe", "refresh", "add"}
    BY <1>10 DEF PersistDeployed, ReadHits, SaveRefreshed, SaveAdded
  <2>2. i = j
    BY <1>3, <1>10 DEF PersistDeployed, ReadHits, SaveRefreshed, SaveAdded, Replace
  <2> QED
    BY <1>1, <2>1, <2>2
<1>11. ASSUME NEW c \in Listed, RemoveToken(c) \/ Spend(c) PROVE FALSE
  BY <1>1, <1>11, RemoveTokenKeeps, SpendKeeps
<1>12. ASSUME NEW c \in Listed, Receive(c) PROVE FALSE
  BY <1>1, <1>12 DEF Receive
<1>13. CASE UNCHANGED tok_vars
  BY <1>1, <1>13 DEF tok_vars
<1>14. ASSUME NEW i \in TokenJobs, PersistHits(i) PROVE PersistHits(j)
  BY <1>3, <1>14 DEF PersistHits, Replace
<1> QED
  BY <1>5, <1>6, <1>7, <1>8, <1>9, <1>10, <1>11, <1>12, <1>13, <1>14 DEF TokensNext

\* The jobs, the rows and the chain stay in step.
THEOREM TokInvHolds == TokensSpec => []TokInv
<1>1. TokensInit => TokInv
  BY TokInitFine
<1>2. TokInv /\ [TokensNext]_tok_vars => TokInv'
  BY TokStep
<1> QED
  BY <1>1, <1>2, PTL DEF TokensSpec

\* A stored balance is one the contract had.
THEOREM BalancesAreReal == TokensSpec => []StoredWasHeld
<1>1. TokInv => StoredWasHeld
  BY DEF TokInv
<1> QED
  BY <1>1, TokInvHolds, PTL

\* A sweep on record as complete has found everything.
THEOREM SweepsAreWhole == TokensSpec => CompleteSweepFoundAll
<1>1. TokInv /\ [TokensNext]_tok_vars =>
        [\A j \in TokenJobs :
           SweepEnds(j) /\ ~jobs[j].unreadable =>
             /\ ToSet(jobs[j].list) \subseteq jobs[j].read
             /\ \A c \in jobs[j].held \cap ToSet(jobs[j].list) :
                  rows'[c] # NoHolding \/ c \in jobs[j].removed]_tok_vars
  BY SweepStep, PersistHitsKeeps
<1> QED
  BY <1>1, TokInvHolds, PTL DEF TokensSpec, CompleteSweepFoundAll

\* What the lists of tokens hold: the node's list, or none.
ListsTyped == custom \in CustomTokens /\ registry \in RegistryLists /\ scanned \in TokenScans

LEMMA ListsTypedInit == TokensInit => ListsTyped
BY DEF TokensInit, ListsTyped, CustomTokens, RegistryLists, TokenScans

LEMMA ListsTypedStep == TokInv /\ ListsTyped /\ [TokensNext]_tok_vars => ListsTyped'
<1> SUFFICES ASSUME TokInv, ListsTyped, [TokensNext]_tok_vars PROVE ListsTyped'
  OBVIOUS
<1>1. CASE UNCHANGED <<custom, registry, scanned>>
  BY <1>1 DEF ListsTyped
<1>2. ASSUME NEW j \in TokenJobs, GetContractRegistry(j) PROVE ListsTyped'
  BY <1>2 DEF GetContractRegistry, ListsTyped, RegistryLists
<1>3. ASSUME NEW j \in TokenJobs, PersistHits(j) PROVE ListsTyped'
  <2>1. jobs[j] \in JobRecs
    BY <1>3 DEF PersistHits, TokInv, TokTyped
  <2>2. jobs[j].unreadable \in BOOLEAN
    BY <2>1 DEF JobRecs
  <2> QED
    BY <1>3, <2>2 DEF PersistHits, ListsTyped, TokenScans
<1>4. ASSUME NEW j \in TokenJobs, SaveAdded(j) PROVE ListsTyped'
  <2> DEFINE x == TokenRead(jobs[j], 1)
  <2>1. x.contract \in Listed
    <3>1. /\ jobs[j] \in JobRecs /\ JobFine(jobs[j], chain, had, rows, unread) /\ BatchDone(jobs[j])
          /\ jobs[j].stage = "add"
      BY <1>4 DEF SaveAdded, TokInv, TokTyped
    <3>2. Len(jobs[j].calls) = 2
      BY <3>1 DEF JobFine, CallsShaped
    <3>3. 1 \in 1..(Len(jobs[j].calls) \div 2)
      BY <3>2
    <3> QED
      BY <3>1, <3>3, TokenReadIs
  <2>2. UNCHANGED <<registry, scanned>> /\ (custom' = custom \/ custom' = custom \cup {x.contract})
    BY <1>4 DEF SaveAdded
  <2> HIDE DEF x
  <2> QED
    BY <2>1, <2>2 DEF ListsTyped, CustomTokens
<1>5. ASSUME NEW c \in Listed, RemoveToken(c) PROVE ListsTyped'
  BY <1>5 DEF RemoveToken, ListsTyped, CustomTokens
<1> QED
  BY <1>1, <1>2, <1>3, <1>4, <1>5
     DEF TokensNext, tok_vars, Discover, Start, Abort, Cancelled, Answer, PersistDeployed, ReadHits,
         RefreshHoldings, SaveRefreshed, AddTokenByAddress, Receive, Spend

LEMMA TokTypes == TokInv /\ ListsTyped => TokensTypeOK
<1> SUFFICES ASSUME TokInv, ListsTyped PROVE TokensTypeOK
  OBVIOUS
<1>1. rows \in [Listed -> Holding \cup {NoHolding}]
  BY DEF TokInv, TokTyped, RowRecs, Holdings, Holding
<1>2. \A j \in TokenJobs : jobs[j] # NoJob => Len(jobs[j].out) <= Len(jobs[j].calls)
  BY DEF TokInv, JobFine, Honest
<1> QED
  BY <1>1, <1>2 DEF TokInv, TokTyped, ListsTyped, TokensTypeOK

-----------------------------------------------------------------------------
(***************************************************************************)
(* TokensPanel. What the panel says of its sweep is true of its sweep,     *)
(* however many pieces of work overlap.                                    *)
(***************************************************************************)

EffectKinds == {"cached", "refreshing", "due", "sweep"}
WorkKinds   == EffectKinds \cup {"not started", "ended", "rescan", "refresh", "add", "remove"}
WorkRecords == [kind : WorkKinds, net : Nets, cancelled : BOOLEAN, aborted : BOOLEAN]
Lasting(t)     == work[t].kind \in EffectKinds /\ ~work[t].cancelled

\* The type of all but the work.
Shapes ==
  /\ net \in Nets /\ shown \subseteq Nets /\ phase \in Phases
  /\ abortRef \in PanelTasks \cup {NoTask} /\ busy \in BOOLEAN /\ due \subseteq Nets

\* Of the effect's work, only that of the last switch is not cancelled; so nothing but
\* the sweep of the effect itself writes the phase while that sweep runs.
PanelInv ==
  /\ PanelTypeOK
  /\ work \in [PanelTasks -> WorkRecords]
  /\ \A t, u \in PanelTasks : Lasting(t) /\ Lasting(u) => t = u
  /\ \A t \in PanelTasks : work[t].kind = "sweep" /\ work[t].cancelled => work[t].aborted
  /\ PhaseFollowsSweep

-----------------------------------------------------------------------------
LEMMA NextIsFresh == Fresh # {} => NextTask \in PanelTasks /\ work[NextTask] = NotStarted
BY DEF NextTask, Fresh

LEMMA TasksAreNot0 == NoTask \notin PanelTasks
BY DEF NoTask, PanelTasks

LEMMA EndedIsRecord ==
  ASSUME Nets # {}
  PROVE  /\ Ended \in WorkRecords /\ NotStarted \in WorkRecords
         /\ Ended.kind = "ended" /\ NotStarted.kind = "not started"
<1>1. (CHOOSE n \in Nets : TRUE) \in Nets OBVIOUS
<1>2. Ended \in WorkRecords /\ Ended.kind = "ended" BY <1>1 DEF Ended, WorkRecords, WorkKinds, EffectKinds
<1>3. QED BY <1>2 DEF NotStarted, WorkRecords, WorkKinds, EffectKinds

LEMMA PanelInitInv == PanelInit => PanelInv
<1> SUFFICES ASSUME PanelInit PROVE PanelInv
  OBVIOUS
<1>1. Ended \in WorkRecords /\ NotStarted \in WorkRecords /\ NotStarted.kind = "not started"
  BY EndedIsRecord DEF PanelInit
<1>2. \A t \in PanelTasks :
        /\ work[t] \in WorkRecords
        /\ work[t].kind = IF t = 1 THEN "cached" ELSE "not started"
  BY <1>1 DEF PanelInit, WorkRecords, WorkKinds, EffectKinds
<1>3. work \in [PanelTasks -> WorkRecords] BY <1>2 DEF PanelInit
<1>4. \A t \in PanelTasks : Lasting(t) => t = 1 BY <1>2 DEF Lasting, EffectKinds
<1>5. PhaseFollowsSweep
  <2>1. \A t \in PanelTasks : work[t].kind # "sweep" BY <1>2
  <2>2. phase = "idle" BY DEF PanelInit
  <2>3. QED BY <2>1, <2>2 DEF PhaseFollowsSweep
<1>6. PanelTypeOK BY <1>3 DEF PanelInit, PanelTypeOK, WorkRecords, WorkKinds, EffectKinds, Phases
<1>7. QED BY <1>2, <1>3, <1>4, <1>5, <1>6 DEF PanelInv

\* What a piece of work does as it goes on: itself becomes another kind or ends, the rest of
\* the work is as it was.
LEMMA OneGoesOn ==
  ASSUME PanelInv, NEW t \in PanelTasks,
         \/ work' = [work EXCEPT ![t] = Ended]
         \/ Lasting(t) /\ \E k \in WorkKinds : work' = [work EXCEPT ![t].kind = k]
  PROVE  /\ work' \in [PanelTasks -> WorkRecords]
         /\ \A u \in PanelTasks : u # t => work'[u] = work[u]
         /\ \A u, v \in PanelTasks : Lasting(u)' /\ Lasting(v)' => u = v
<1>1. Nets # {} BY DEF PanelInv, PanelTypeOK
<1>2. Ended \in WorkRecords /\ Ended.kind = "ended" BY <1>1, EndedIsRecord DEF Ended
<1>3. work' \in [PanelTasks -> WorkRecords]
  <2>1. work \in [PanelTasks -> WorkRecords] /\ work[t] \in WorkRecords BY DEF PanelInv
  <2>2. CASE work' = [work EXCEPT ![t] = Ended] BY <1>2, <2>1, <2>2
  <2>3. ASSUME NEW k \in WorkKinds, work' = [work EXCEPT ![t].kind = k] PROVE work' \in [PanelTasks -> WorkRecords]
    <3>1. [work[t] EXCEPT !.kind = k] \in WorkRecords BY <2>1 DEF WorkRecords
    <3>2. QED BY <2>1, <2>3, <3>1
  <2>4. QED BY <2>2, <2>3
<1>4. \A u \in PanelTasks : u # t => work'[u] = work[u] BY DEF PanelInv
<1>5. Lasting(t)' => Lasting(t) BY <1>2 DEF PanelInv, Lasting, EffectKinds, WorkRecords, WorkKinds
<1>6. QED BY <1>3, <1>4, <1>5 DEF PanelInv, Lasting

\* The user starts a piece of work of a kind of its own.
LEMMA OneBegins ==
  ASSUME PanelInv, Fresh # {}, NEW k \in {"rescan", "refresh", "add", "remove"},
         work' = [work EXCEPT ![NextTask] = Work(k)]
  PROVE  /\ work' \in [PanelTasks -> WorkRecords]
         /\ \A u \in PanelTasks : u # NextTask => work'[u] = work[u]
         /\ work'[NextTask].kind = k /\ work[NextTask].kind = "not started"
         /\ \A u, v \in PanelTasks : Lasting(u)' /\ Lasting(v)' => u = v
<1>1. Nets # {} /\ net \in Nets BY DEF PanelInv, PanelTypeOK
<1>2. Work(k) \in WorkRecords /\ Work(k).kind = k BY <1>1 DEF Work, WorkRecords, WorkKinds, EffectKinds
<1>3. NextTask \in PanelTasks /\ work[NextTask].kind = "not started" BY <1>1, NextIsFresh, EndedIsRecord
<1>4. work \in [PanelTasks -> WorkRecords] BY DEF PanelInv
<1> DEFINE w == Work(k)
<1> HIDE DEF w
<1>5. /\ work' \in [PanelTasks -> WorkRecords] /\ work'[NextTask] = w
      /\ \A u \in PanelTasks : u # NextTask => work'[u] = work[u]
  <2>1. work' = [work EXCEPT ![NextTask] = w] BY DEF w
  <2>2. w \in WorkRecords BY <1>2 DEF w
  <2>3. QED BY <1>3, <1>4, <2>1, <2>2
<1>6. work'[NextTask].kind = k /\ k \notin EffectKinds BY <1>2, <1>5 DEF EffectKinds, w
<1>7. \A u \in PanelTasks : Lasting(u)' => Lasting(u)
  <2>1. \A u \in PanelTasks : work'[u].kind \in EffectKinds => u # NextTask BY <1>6
  <2>2. QED BY <1>5, <2>1 DEF Lasting
<1>8. QED BY <1>3, <1>5, <1>6, <1>7 DEF PanelInv

\* A piece of work other than a sweep goes on and leaves phase and sweep alone.
LEMMA NoSweepGoesOn ==
  ASSUME PanelInv, NEW t \in PanelTasks,
         \/ work' = [work EXCEPT ![t] = Ended]
         \/ Lasting(t) /\ \E k \in WorkKinds \ {"sweep", "rescan"} : work' = [work EXCEPT ![t].kind = k],
         work[t].kind \notin {"sweep", "rescan"},
         UNCHANGED <<phase, abortRef>>, Shapes'
  PROVE  PanelInv'
<1>1. /\ work' \in [PanelTasks -> WorkRecords]
      /\ \A u \in PanelTasks : u # t => work'[u] = work[u]
      /\ \A u, v \in PanelTasks : Lasting(u)' /\ Lasting(v)' => u = v
  BY OneGoesOn
<1>2. work'[t].kind \notin {"sweep", "rescan"}
  <2>1. Nets # {} BY DEF PanelInv, PanelTypeOK
  <2>2. Ended.kind = "ended" BY <2>1, EndedIsRecord
  <2>3. QED BY <2>2 DEF PanelInv, WorkRecords
<1>3. PhaseFollowsSweep' BY <1>1, <1>2, TasksAreNot0 DEF PanelInv, PanelTypeOK, PhaseFollowsSweep
<1>4. QED BY <1>1, <1>2, <1>3 DEF PanelInv, PanelTypeOK, Shapes, WorkRecords

\* A sweep ends.
LEMMA OwnSweepEnds ==
  ASSUME PanelInv, NEW t \in PanelTasks, work[t].kind \in {"sweep", "rescan"},
         Finished(t), SweepOver(t), Shapes'
  PROVE  PanelInv'
<1>1. /\ work' \in [PanelTasks -> WorkRecords]
      /\ \A u \in PanelTasks : u # t => work'[u] = work[u]
      /\ \A u, v \in PanelTasks : Lasting(u)' /\ Lasting(v)' => u = v
  BY OneGoesOn DEF Finished
<1>2. work'[t].kind = "ended"
  BY EndedIsRecord DEF PanelInv, PanelTypeOK, Finished
<1>3. PhaseFollowsSweep'
  <2>1. \A u \in PanelTasks : work'[u].kind = "sweep" => u # t BY <1>2
  <2>2. CASE abortRef = t BY <1>1, <2>1, <2>2 DEF SweepOver, PanelInv, PhaseFollowsSweep
  <2>3. CASE abortRef # t BY <1>1, <2>1, <2>3 DEF SweepOver, PanelInv, PanelTypeOK, PhaseFollowsSweep
  <2>4. QED BY <2>2, <2>3
<1>4. \A u \in PanelTasks : work'[u].kind = "sweep" /\ work'[u].cancelled => work'[u].aborted
  BY <1>1, <1>2 DEF PanelInv
<1>5. QED BY <1>1, <1>3, <1>4 DEF PanelInv, PanelTypeOK, Shapes, WorkRecords

LEMMA PanelStepInv == PanelInv /\ [PanelNext]_panel_vars => PanelInv'
<1> SUFFICES ASSUME PanelInv, [PanelNext]_panel_vars PROVE PanelInv'
  OBVIOUS
<1> USE TasksAreNot0, PanelAssumption
<1>1. CASE SwitchNetwork
  <2>1. PICK n \in Nets \ {net} :
          /\ net' = n
          /\ work' = [t \in PanelTasks |->
               IF t = NextTask THEN [Work("cached") EXCEPT !.net = n]
               ELSE IF work[t].kind \in {"cached", "refreshing", "due", "sweep"}
               THEN [work[t] EXCEPT !.cancelled = TRUE, !.aborted = TRUE]
               ELSE work[t]]
    BY <1>1 DEF SwitchNetwork
  <2>2. NextTask \in PanelTasks /\ work[NextTask].kind = "not started"
    BY <1>1, NextIsFresh, EndedIsRecord DEF SwitchNetwork, PanelInv, PanelTypeOK
  <2>3. \A t \in PanelTasks : work[t] \in WorkRecords BY DEF PanelInv
  <2>4. work'[NextTask] = [kind |-> "cached", net |-> n, cancelled |-> FALSE, aborted |-> FALSE]
    BY <2>1, <2>2 DEF Work
  <2>5. \A t \in PanelTasks \ {NextTask} :
          /\ work'[t] \in WorkRecords /\ work'[t].kind = work[t].kind
          /\ work'[t].kind \in EffectKinds => work'[t].cancelled /\ work'[t].aborted
          /\ work'[t].kind \notin EffectKinds => work'[t] = work[t]
    BY <2>1, <2>3 DEF WorkRecords, WorkKinds, EffectKinds
  <2>6. work' \in [PanelTasks -> WorkRecords]
    <3>1. work'[NextTask] \in WorkRecords
      <4>1. [kind |-> "cached", net |-> n, cancelled |-> FALSE, aborted |-> FALSE] \in WorkRecords
        BY DEF WorkRecords, WorkKinds, EffectKinds
      <4>2. QED BY <2>4, <4>1
    <3>2. \A t \in PanelTasks : work'[t] \in WorkRecords BY <2>5, <3>1
    <3>3. DOMAIN work' = PanelTasks /\ work' = [t \in PanelTasks |-> work'[t]] BY <2>1
    <3>4. QED BY <3>2, <3>3
  <2>7. PanelTypeOK' BY <1>1, <2>1, <2>6 DEF SwitchNetwork, PanelInv, PanelTypeOK, WorkRecords, WorkKinds, EffectKinds
  <2>8. \A t \in PanelTasks : Lasting(t)' => t = NextTask BY <2>5 DEF Lasting
  <2>9. \A t \in PanelTasks : work'[t].kind = "sweep" => work'[t].aborted BY <2>4, <2>5 DEF EffectKinds
  <2>10. PhaseFollowsSweep'
    <3>1. phase' = "discovering" => abortRef' # NoTask /\ work'[abortRef'].kind \in {"sweep", "rescan"}
      BY <1>1, <2>2, <2>5 DEF SwitchNetwork, PanelInv, PanelTypeOK, PhaseFollowsSweep
    <3>2. QED BY <2>9, <3>1 DEF PhaseFollowsSweep
  <2>11. QED BY <2>6, <2>7, <2>8, <2>9, <2>10 DEF PanelInv
<1> USE DEF Shapes, PanelInv, PanelTypeOK
<1>2. ASSUME NEW t \in PanelTasks, LoadCached(t) PROVE PanelInv'
  <2>1. Shapes' BY <1>2 DEF LoadCached, Phases
  <2>2. CASE work[t].cancelled /\ Finished(t) /\ UNCHANGED <<shown, phase>>
    BY <1>2, <2>1, <2>2, NoSweepGoesOn DEF LoadCached, Finished
  <2>3. CASE ~work[t].cancelled /\ phase' = "refreshing" /\ Becomes(t, "refreshing")
    <3>1. Lasting(t) /\ \E k \in WorkKinds : work' = [work EXCEPT ![t].kind = k]
      BY <1>2, <2>3 DEF LoadCached, Lasting, EffectKinds, WorkKinds, Becomes
    <3>2. /\ work' \in [PanelTasks -> WorkRecords]
          /\ \A u \in PanelTasks : u # t => work'[u] = work[u]
          /\ \A u, v \in PanelTasks : Lasting(u)' /\ Lasting(v)' => u = v
      BY <3>1, OneGoesOn
    <3>3. \A u \in PanelTasks : work[u].kind = "sweep" => work[u].aborted
      BY <1>2, <3>1 DEF LoadCached, Lasting, EffectKinds, WorkRecords
    <3>4. work'[t].kind = "refreshing" BY <2>3 DEF Becomes, WorkRecords
    <3>5. \A u \in PanelTasks : work'[u].kind = "sweep" => work'[u].aborted BY <3>2, <3>3, <3>4
    <3>6. PhaseFollowsSweep' BY <2>3, <3>5 DEF PhaseFollowsSweep
    <3>7. QED BY <2>1, <3>2, <3>5, <3>6 DEF WorkRecords
  <2>4. CASE ~work[t].cancelled /\ Becomes(t, "due") /\ UNCHANGED phase
    <3>1. Lasting(t) /\ \E k \in WorkKinds \ {"sweep", "rescan"} : work' = [work EXCEPT ![t].kind = k]
      BY <1>2, <2>4 DEF LoadCached, Lasting, EffectKinds, WorkKinds, Becomes
    <3>2. QED BY <1>2, <2>1, <2>4, <3>1, NoSweepGoesOn DEF LoadCached, Finished
  <2>5. QED BY <1>2, <2>2, <2>3, <2>4 DEF LoadCached
<1>3. ASSUME NEW t \in PanelTasks, RefreshedCached(t) PROVE PanelInv'
  <2>1. Shapes' BY <1>3 DEF RefreshedCached, Phases
  <2>2. CASE work[t].cancelled /\ Finished(t) /\ UNCHANGED phase
    BY <1>3, <2>1, <2>2, NoSweepGoesOn DEF RefreshedCached, Finished
  <2>3. CASE ~work[t].cancelled /\ Becomes(t, "due") /\ phase' = IF abortRef = NoTask THEN "idle" ELSE phase
    <3>1. Lasting(t) /\ \E k \in WorkKinds \ {"sweep", "rescan"} : work' = [work EXCEPT ![t].kind = k]
      BY <1>3, <2>3 DEF RefreshedCached, Lasting, EffectKinds, WorkKinds, Becomes
    <3>2. /\ work' \in [PanelTasks -> WorkRecords]
          /\ \A u \in PanelTasks : u # t => work'[u] = work[u]
          /\ \A u, v \in PanelTasks : Lasting(u)' /\ Lasting(v)' => u = v
      BY <3>1, OneGoesOn
    <3>3. work'[t].kind = "due" /\ work[t].kind = "refreshing" BY <1>3, <2>3 DEF RefreshedCached, Becomes, WorkRecords
    <3>4. PhaseFollowsSweep' BY <1>3, <2>3, <3>2, <3>3 DEF RefreshedCached, PhaseFollowsSweep
    <3>5. \A u \in PanelTasks : work'[u].kind = "sweep" /\ work'[u].cancelled => work'[u].aborted
      BY <3>2, <3>3
    <3>6. QED BY <2>1, <3>2, <3>4, <3>5 DEF WorkRecords
  <2>4. QED BY <1>3, <2>2, <2>3 DEF RefreshedCached
<1>4. ASSUME NEW t \in PanelTasks, IsDiscoveryDue(t) PROVE PanelInv'
  <2>1. Shapes' BY <1>4 DEF IsDiscoveryDue, Phases
  <2>2. CASE Finished(t) /\ UNCHANGED <<abortRef, phase>>
    BY <1>4, <2>1, <2>2, NoSweepGoesOn DEF IsDiscoveryDue, Finished
  <2>3. CASE ~work[t].cancelled /\ abortRef' = t /\ phase' = "discovering" /\ Becomes(t, "sweep")
    <3>1. Lasting(t) /\ \E k \in WorkKinds : work' = [work EXCEPT ![t].kind = k]
      BY <1>4, <2>3 DEF IsDiscoveryDue, Lasting, EffectKinds, WorkKinds, Becomes
    <3>2. /\ work' \in [PanelTasks -> WorkRecords]
          /\ \A u \in PanelTasks : u # t => work'[u] = work[u]
          /\ \A u, v \in PanelTasks : Lasting(u)' /\ Lasting(v)' => u = v
      BY <3>1, OneGoesOn
    <3>3. \A u \in PanelTasks : work[u].kind = "sweep" => work[u].aborted
      BY <1>4, <3>1 DEF IsDiscoveryDue, Lasting, EffectKinds, WorkRecords
    <3>4. work'[t].kind = "sweep" /\ ~work'[t].cancelled BY <2>3 DEF Becomes, WorkRecords
    <3>5. \A u \in PanelTasks : work'[u].kind = "sweep" /\ ~work'[u].aborted => u = t BY <3>2, <3>3
    <3>6. PhaseFollowsSweep' BY <2>3, <3>4, <3>5 DEF PhaseFollowsSweep
    <3>7. QED BY <2>1, <3>2, <3>4, <3>5, <3>6 DEF WorkRecords
  <2>4. QED BY <1>4, <2>2, <2>3 DEF IsDiscoveryDue
<1>5. ASSUME NEW t \in PanelTasks, SweepHit(t) PROVE PanelInv'
  BY <1>5 DEF SweepHit, UpsertHolding, WorkRecords, PhaseFollowsSweep, Lasting
<1>6. ASSUME NEW t \in PanelTasks, SweepDone(t) \/ SweepStops(t) PROVE PanelInv'
  <2>1. Shapes' BY <1>6 DEF SweepDone, SweepStops, SweepOver, Phases, WorkRecords
  <2>2. QED BY <1>6, <2>1, OwnSweepEnds DEF SweepDone, SweepStops
<1>7. ASSUME NEW t \in PanelTasks, UserWorkEnds(t) PROVE PanelInv'
  <2>1. Shapes' BY <1>7 DEF UserWorkEnds, WorkRecords
  <2>2. QED BY <1>7, <2>1, NoSweepGoesOn DEF UserWorkEnds, Finished
<1>8. CASE DoRescan
  <2>1. work' = [work EXCEPT ![NextTask] = Work("rescan")] /\ Fresh # {} BY <1>8 DEF DoRescan
  <2>2. /\ work' \in [PanelTasks -> WorkRecords]
        /\ \A u \in PanelTasks : u # NextTask => work'[u] = work[u]
        /\ work'[NextTask].kind = "rescan" /\ NextTask \in PanelTasks
        /\ \A u, v \in PanelTasks : Lasting(u)' /\ Lasting(v)' => u = v
    BY <2>1, OneBegins, NextIsFresh
  <2>3. phase = "idle" /\ phase' = "discovering" /\ abortRef' = NextTask BY <1>8 DEF DoRescan
  <2>4. PhaseFollowsSweep' BY <2>2, <2>3 DEF PhaseFollowsSweep
  <2>5. QED BY <1>8, <2>2, <2>3, <2>4 DEF DoRescan, WorkRecords, Phases
<1>9. CASE CancelSweep
  <2>1. abortRef \in PanelTasks /\ work[abortRef] \in WorkRecords BY <1>9 DEF CancelSweep
  <2>2. \A u \in PanelTasks : /\ work'[u].kind = work[u].kind /\ work'[u].cancelled = work[u].cancelled
                              /\ work[u].aborted => work'[u].aborted
                              /\ work'[u] \in WorkRecords
    BY <1>9, <2>1 DEF CancelSweep, WorkRecords
  <2>3. work' \in [PanelTasks -> WorkRecords]
    <3>1. work' = [u \in PanelTasks |-> work'[u]] BY <1>9 DEF CancelSweep
    <3>2. QED BY <2>2, <3>1
  <2>4. PhaseFollowsSweep' BY <1>9, <2>2 DEF CancelSweep, PhaseFollowsSweep, WorkRecords
  <2>5. QED BY <1>9, <2>2, <2>3, <2>4 DEF CancelSweep, WorkRecords, Lasting
<1>10. CASE DoRefresh \/ DoAdd \/ DoRemove \/ (TransferTaken /\ Fresh # {})
  <2>1. PICK k \in {"refresh", "add", "remove"} : work' = [work EXCEPT ![NextTask] = Work(k)]
    BY <1>10 DEF DoRefresh, DoAdd, DoRemove, TransferTaken, Refreshing
  <2>2. Fresh # {} /\ UNCHANGED <<net, shown, phase, abortRef, due>> /\ busy' \in BOOLEAN
    BY <1>10 DEF DoRefresh, DoAdd, DoRemove, TransferTaken, Refreshing
  <2>3. /\ work' \in [PanelTasks -> WorkRecords]
        /\ \A u \in PanelTasks : u # NextTask => work'[u] = work[u]
        /\ work'[NextTask].kind = k /\ work[NextTask].kind = "not started"
        /\ \A u, v \in PanelTasks : Lasting(u)' /\ Lasting(v)' => u = v
    BY <2>1, <2>2, OneBegins
  <2>4. PhaseFollowsSweep' BY <2>2, <2>3 DEF PhaseFollowsSweep
  <2>5. QED BY <2>2, <2>3, <2>4 DEF WorkRecords
<1>11. CASE OpenForm \/ Continue \/ CloseForm \/ SubmitTransfer \/ TransferStep \/ (TransferTaken /\ Fresh = {})
  <2>1. UNCHANGED <<net, shown, phase, abortRef, busy, due, work>>
    BY <1>11 DEF OpenForm, Continue, CloseForm, SubmitTransfer, TransferStep, TransferTaken
  <2>2. QED BY <2>1 DEF PhaseFollowsSweep, Lasting
<1>12. CASE UNCHANGED panel_vars BY <1>12 DEF panel_vars, PhaseFollowsSweep, Lasting
<1>13. QED BY <1>1, <1>2, <1>3, <1>4, <1>5, <1>6, <1>7, <1>8, <1>9, <1>10, <1>11, <1>12 DEF PanelNext, WorkStep

\* Whatever work overlaps, the sweep of the network on the screen is the one that the phase
\* shows and that Cancel reaches, and a panel that says it searches has a sweep whose end
\* clears it (TokensView.tsx, runDiscovery's `finally').
THEOREM SweepIsShown == PanelSpec => []PhaseFollowsSweep
<1>1. PanelInv => PhaseFollowsSweep BY DEF PanelInv
<1>2. QED BY <1>1, PanelInitInv, PanelStepInv, PTL DEF PanelSpec

-----------------------------------------------------------------------------
(***************************************************************************)
(* QrScanner. The camera stops with the scanner, however many runs of the  *)
(* effect there are and in whatever order the browser answers them.        *)
(***************************************************************************)

RunRecord == [pc : {"asking", "playing", "on", "over"}, cancelled : BOOLEAN]
ScannerRecord == [mounted : BOOLEAN, open : BOOLEAN, error : BOOLEAN, video : BOOLEAN, done : BOOLEAN,
                  streamRef : Nat, timerRef : Nat]

Refs == {scanner.streamRef, scanner.timerRef} \ {None}

\* Only the latest run is not cleaned up; what is on is what the refs hold, and the refs
\* hold nothing of a run that was cleaned up.
CameraInv ==
  /\ scans \in Seq(RunRecord)
  /\ scanner \in ScannerRecord
  /\ \A i \in DOMAIN scans : ~scans[i].cancelled => i = Latest
  /\ lit \subseteq {scanner.streamRef} \ {None}
  /\ timers \subseteq {scanner.timerRef} \ {None}
  /\ \A r \in Refs : Live /\ r = Latest

\* What is on belongs to the latest run (QrScanner.tsx, streamRef and timerRef).
LEMMA InvImpliesCameraStops == CameraInv => CameraStops
BY DEF CameraInv, CameraStops, Refs

LEMMA InitCameraInv == ScanInit => CameraInv
BY DEF ScanInit, CameraInv, Refs, None, ScannerRecord

\* After stop() nothing is on (QrScanner.tsx, stop).
LEMMA StopsAll == CameraInv /\ StopCamera => lit' = {} /\ timers' = {}
BY DEF CameraInv, StopCamera

\* Once the latest run is cleaned up, every run is.
LEMMA AllCancelled ==
  ASSUME CameraInv
  PROVE  /\ LatestCancelled \in Seq(RunRecord) /\ Len(LatestCancelled) = Latest
         /\ \A i \in 1..Latest : LatestCancelled[i].cancelled
<1>1. CASE Live
  <2>1. Latest \in DOMAIN scans /\ scans[Latest] \in RunRecord
    BY <1>1 DEF Live, Latest, CameraInv
  <2>2. LatestCancelled = [scans EXCEPT ![Latest] = [@ EXCEPT !.cancelled = TRUE]]
    BY <1>1 DEF LatestCancelled
  <2>3. [scans[Latest] EXCEPT !.cancelled = TRUE] \in RunRecord
    BY <2>1 DEF RunRecord
  <2> QED BY <2>1, <2>2, <2>3 DEF CameraInv, Latest, RunRecord
<1>2. CASE ~Live
  <2>1. LatestCancelled = scans
    BY <1>2 DEF LatestCancelled
  <2>2. \A i \in 1..Latest : scans[i].cancelled
    BY <1>2 DEF CameraInv, Live, Latest, RunRecord
  <2> QED BY <2>1, <2>2 DEF CameraInv, Latest
<1> QED BY <1>1, <1>2

\* The steps that clean up and begin a new run.
LEMMA RunBegins ==
  ASSUME CameraInv, NEW before, before \in Seq(RunRecord), \A i \in 1..Len(before) : before[i].cancelled,
         NEW pc \in {"asking", "over"}, scans' = Append(before, Run(pc)),
         lit' = {}, timers' = {}, scanner'.streamRef = None, scanner'.timerRef = None,
         scanner' \in ScannerRecord
  PROVE  CameraInv'
<1>1. Run(pc) \in RunRecord
  BY DEF Run, RunRecord
<1>2. scans' \in Seq(RunRecord) /\ Len(scans') = Len(before) + 1
  BY <1>1
<1>3. \A i \in 1..Len(before) : scans'[i] = before[i]
  OBVIOUS
<1>4. \A i \in DOMAIN scans' : ~scans'[i].cancelled => i = Len(scans')
  BY <1>2, <1>3
<1> QED BY <1>2, <1>4 DEF CameraInv, Refs, Latest

\* The steps that change one run's progress and no run's cleanup.
LEMMA RunGoes ==
  ASSUME CameraInv, NEW i \in DOMAIN scans, NEW pc \in {"asking", "playing", "on", "over"},
         scans' = [scans EXCEPT ![i].pc = pc]
  PROVE  /\ scans' \in Seq(RunRecord) /\ Len(scans') = Len(scans)
         /\ \A j \in DOMAIN scans : scans'[j].cancelled = scans[j].cancelled
<1>1. scans[i] \in RunRecord
  BY DEF CameraInv
<1>2. [scans[i] EXCEPT !.pc = pc] \in RunRecord
  BY <1>1 DEF RunRecord
<1>3. scans' = [scans EXCEPT ![i] = [scans[i] EXCEPT !.pc = pc]]
  OBVIOUS
<1> QED BY <1>1, <1>2, <1>3 DEF CameraInv, RunRecord

LEMMA StepCameraInv == CameraInv /\ [ScanNext]_scan_vars => CameraInv'
<1> SUFFICES ASSUME CameraInv, [ScanNext]_scan_vars PROVE CameraInv'
  OBVIOUS
<1>1. CASE OpenScanner
  <2>1. Refs = {} /\ lit = {} /\ timers = {} /\ \A i \in 1..Latest : scans[i].cancelled
    BY <1>1, AllCancelled DEF CameraInv, OpenScanner, LatestCancelled, Refs
  <2>2. PICK pc \in {"asking", "over"} :
          /\ scanner' = [scanner EXCEPT !.open = TRUE, !.error = pc = "over", !.video = ~scanner.error, !.done = FALSE]
          /\ scans' = Append(scans, Run(pc))
    BY <1>1 DEF OpenScanner
  <2>3. scanner.streamRef = None /\ scanner.timerRef = None
    BY <2>1 DEF Refs
  <2> QED BY <1>1, <2>1, <2>2, <2>3, RunBegins DEF CameraInv, OpenScanner, Latest, ScannerRecord
<1>2. CASE EffectRunsAgain
  <2>1. PICK pc \in {"asking", "over"} :
          /\ scanner' = [RefsCleared EXCEPT !.error = pc = "over", !.done = FALSE]
          /\ scans' = Append(LatestCancelled, Run(pc))
    BY <1>2 DEF EffectRunsAgain
  <2>2. lit' = {} /\ timers' = {}
    BY <1>2, StopsAll DEF EffectRunsAgain
  <2>3. /\ scanner'.streamRef = None /\ scanner'.timerRef = None
        /\ scanner' \in ScannerRecord
    BY <2>1 DEF CameraInv, RefsCleared, ScannerRecord, None
  <2> QED BY <2>1, <2>2, <2>3, AllCancelled, RunBegins
<1>3. CASE Commit
  BY <1>3 DEF Commit, CameraInv, Refs, Live, Latest, ScannerRecord
<1>4. CASE CloseScanner
  BY <1>4, StopsAll DEF CloseScanner, CameraInv, RefsCleared, Refs, None, Live, Latest, ScannerRecord
<1>5. CASE CleanUp
  <2>1. /\ scans' \in Seq(RunRecord)
        /\ \A i \in DOMAIN scans' : scans'[i].cancelled
    BY <1>5, AllCancelled DEF CleanUp
  <2>2. lit' = {} /\ timers' = {}
    BY <1>5, StopsAll DEF CleanUp
  <2>3. /\ scanner'.streamRef = None /\ scanner'.timerRef = None
        /\ scanner' \in ScannerRecord
    BY <1>5 DEF CleanUp, CameraInv, RefsCleared, ScannerRecord, None
  <2> QED BY <2>1, <2>2, <2>3 DEF CameraInv, Refs
<1>6. CASE Leave
  BY <1>6 DEF Leave, CameraInv, Refs, Live, Latest, ScannerRecord
<1>7. ASSUME NEW i \in DOMAIN scans, StreamArrives(i) PROVE CameraInv'
  <2>1. PICK pc \in {"playing", "over"} : scans' = [scans EXCEPT ![i].pc = pc]
    BY <1>7 DEF StreamArrives
  <2>2. /\ scans' \in Seq(RunRecord) /\ Len(scans') = Len(scans)
        /\ \A j \in DOMAIN scans : scans'[j].cancelled = scans[j].cancelled
    BY <2>1, RunGoes
  <2>3. CASE scans[i].cancelled
    BY <1>7, <2>2, <2>3 DEF StreamArrives, CameraInv, Refs, Live, Latest
  <2>4. CASE ~scans[i].cancelled
    <3>1. i = Latest /\ Live /\ i # None /\ i \in Nat
      BY <2>4 DEF CameraInv, Live, Latest, None
    <3>2. scanner' = [scanner EXCEPT !.streamRef = i] /\ timers' = timers
      BY <1>7, <2>4 DEF StreamArrives
    <3>3. lit' \subseteq {i}
      BY <1>7, <3>1 DEF StreamArrives, CameraInv, Refs
    <3>4. Live' /\ Latest' = Latest /\ \A j \in DOMAIN scans' : ~scans'[j].cancelled => j = Latest'
      BY <2>2, <3>1 DEF CameraInv, Live, Latest
    <3>5. /\ scanner' \in ScannerRecord /\ scanner'.streamRef = i
          /\ scanner'.timerRef = scanner.timerRef /\ scanner.timerRef \in {None, i}
      BY <3>1, <3>2 DEF CameraInv, ScannerRecord, Refs
    <3> QED BY <2>2, <3>1, <3>2, <3>3, <3>4, <3>5 DEF CameraInv, Refs
  <2> QED BY <2>3, <2>4
<1>8. ASSUME NEW i \in DOMAIN scans, StreamRefused(i) PROVE CameraInv'
  <2>1. /\ scans' \in Seq(RunRecord) /\ Len(scans') = Len(scans)
        /\ \A j \in DOMAIN scans : scans'[j].cancelled = scans[j].cancelled
    BY <1>8, RunGoes DEF StreamRefused
  <2>2. PICK e \in BOOLEAN : scanner' = [scanner EXCEPT !.error = e]
    BY <1>8 DEF StreamRefused
  <2>3. scanner' \in ScannerRecord /\ Refs' = Refs
    BY <2>2 DEF CameraInv, ScannerRecord, Refs
  <2>4. Live' = Live /\ Latest' = Latest
    BY <2>1 DEF CameraInv, Live, Latest
  <2> QED BY <1>8, <2>1, <2>2, <2>3, <2>4 DEF StreamRefused, CameraInv, ScannerRecord
<1>9. ASSUME NEW i \in DOMAIN scans, PlayReturns(i) PROVE CameraInv'
  <2>1. PICK pc \in {"on", "over"} : scans' = [scans EXCEPT ![i].pc = pc]
    BY <1>9 DEF PlayReturns
  <2>2. /\ scans' \in Seq(RunRecord) /\ Len(scans') = Len(scans)
        /\ \A j \in DOMAIN scans : scans'[j].cancelled = scans[j].cancelled
    BY <2>1, RunGoes
  <2>3. CASE scans[i].cancelled
    BY <1>9, <2>2, <2>3 DEF PlayReturns, CameraInv, Refs, Live, Latest
  <2>4. CASE ~scans[i].cancelled
    <3>1. i = Latest /\ Live /\ i # None /\ i \in Nat
      BY <2>4 DEF CameraInv, Live, Latest, None
    <3>2. scanner' = [scanner EXCEPT !.timerRef = i] /\ lit' = lit /\ timers' = timers \cup {i}
      BY <1>9, <2>4 DEF PlayReturns
    <3>3. timers' \subseteq {i}
      BY <3>1, <3>2 DEF CameraInv, Refs
    <3>4. Live' /\ Latest' = Latest /\ \A j \in DOMAIN scans' : ~scans'[j].cancelled => j = Latest'
      BY <2>2, <3>1 DEF CameraInv, Live, Latest
    <3>5. /\ scanner' \in ScannerRecord /\ scanner'.timerRef = i
          /\ scanner'.streamRef = scanner.streamRef /\ scanner.streamRef \in {None, i}
      BY <3>1, <3>2 DEF CameraInv, ScannerRecord, Refs
    <3> QED BY <2>2, <3>1, <3>2, <3>3, <3>4, <3>5 DEF CameraInv, Refs
  <2> QED BY <2>3, <2>4
<1>10. ASSUME NEW i \in DOMAIN scans, Look(i) \/ NothingSeen(i) PROVE CameraInv'
  BY <1>10 DEF Look, NothingSeen, CameraInv, Refs, Live, Latest
<1>11. ASSUME NEW i \in DOMAIN scans, CodeSeen(i) PROVE CameraInv'
  BY <1>11, StopsAll DEF CodeSeen, CameraInv, RefsCleared, Refs, None, Live, Latest, ScannerRecord
<1>12. CASE UNCHANGED scan_vars
  BY <1>12 DEF scan_vars, CameraInv, Refs, Live, Latest
<1> QED
  BY <1>1, <1>2, <1>3, <1>4, <1>5, <1>6, <1>7, <1>8, <1>9, <1>10, <1>11, <1>12 DEF ScanNext

\* "The stream is stopped on close and on unmount": when the latest run of the effect is
\* cleaned up no camera is on and no interval set, for any number of runs (QrScanner.tsx).
THEOREM CameraOff == ScanSpec => []CameraStops
<1>1. CameraInv /\ [ScanNext]_scan_vars => CameraInv'
  BY StepCameraInv
<1> QED BY InitCameraInv, <1>1, InvImpliesCameraStops, PTL DEF ScanSpec

\* Every run of the effect hands over one result at the most.
Fills ==
  /\ Len(scans) <= MaxScans /\ looking \subseteq DOMAIN scans /\ filled \in 0..Len(scans)
  /\ ~scanner.done /\ scans # <<>> => filled < Len(scans)

\* A step that leaves the runs their number, and "done" as it is.
LEMMA FillsStays ==
  ASSUME Fills, CameraInv, CameraInv', Len(scans') = Len(scans), looking' \subseteq looking \cup DOMAIN scans,
         UNCHANGED filled, scanner'.done = scanner.done
  PROVE  Fills'
<1>1. DOMAIN scans' = DOMAIN scans /\ (scans = <<>> <=> scans' = <<>>)
  BY LenProperties, EmptySeq DEF CameraInv
<1> QED
  BY <1>1 DEF Fills

\* A new run has its result before it.
LEMMA FillsGrows ==
  ASSUME Fills, CameraInv, CameraInv', Latest < MaxScans, NEW before \in Seq(RunRecord), Len(before) = Len(scans),
         NEW r \in RunRecord, scans' = Append(before, r), UNCHANGED <<looking, filled>>
  PROVE  Fills'
<1>1. Len(scans') = Len(scans) + 1 /\ Len(scans) \in Nat
  BY AppendProperties, LenProperties DEF CameraInv
<1>2. DOMAIN scans' = 1..Len(scans') /\ DOMAIN scans = 1..Len(scans)
  BY LenProperties DEF CameraInv
<1>3. Len(scans') <= MaxScans
  BY <1>1, ScannerAssumption DEF Latest
<1> QED
  BY <1>1, <1>2, <1>3 DEF Fills

LEMMA FillsInit == ScanInit => Fills
BY ScannerAssumption, EmptySeq DEF ScanInit, Fills

LEMMA FillsStep == CameraInv /\ Fills /\ [ScanNext]_scan_vars => Fills'
<1> SUFFICES ASSUME CameraInv, Fills, [ScanNext]_scan_vars PROVE Fills'
  OBVIOUS
<1>0. CameraInv' /\ scanner \in ScannerRecord /\ scans \in Seq(RunRecord)
  BY StepCameraInv DEF CameraInv
<1>1. CASE OpenScanner
  <2>1. PICK pc \in {"asking", "over"} : scans' = Append(scans, Run(pc))
    BY <1>1 DEF OpenScanner
  <2>2. Run(pc) \in RunRecord
    BY DEF Run, RunRecord
  <2> QED
    BY <1>0, <1>1, <2>1, <2>2, FillsGrows DEF OpenScanner
<1>2. CASE EffectRunsAgain
  <2>1. PICK pc \in {"asking", "over"} : scans' = Append(LatestCancelled, Run(pc))
    BY <1>2 DEF EffectRunsAgain
  <2>2. Run(pc) \in RunRecord
    BY DEF Run, RunRecord
  <2>3. LatestCancelled \in Seq(RunRecord) /\ Len(LatestCancelled) = Len(scans)
    BY AllCancelled DEF Latest
  <2> QED
    BY <1>0, <1>2, <2>1, <2>2, <2>3, FillsGrows DEF EffectRunsAgain
<1>3. CASE Commit \/ CloseScanner \/ Leave
  <2>1. scanner'.done = scanner.done
    BY <1>0, <1>3 DEF Commit, CloseScanner, Leave, RefsCleared, ScannerRecord
  <2>2. UNCHANGED <<scans, looking, filled>>
    BY <1>3 DEF Commit, CloseScanner, Leave
  <2> QED
    BY <1>0, <2>1, <2>2, FillsStays
<1>4. CASE CleanUp
  <2>1. scanner'.done = scanner.done
    BY <1>0, <1>4 DEF CleanUp, RefsCleared, ScannerRecord
  <2>2. Len(scans') = Len(scans) /\ UNCHANGED <<looking, filled>>
    BY <1>4, AllCancelled DEF CleanUp, Latest
  <2> QED
    BY <1>0, <2>1, <2>2, FillsStays
<1>5. ASSUME NEW i \in DOMAIN scans, StreamArrives(i) \/ StreamRefused(i) \/ PlayReturns(i) PROVE Fills'
  <2>1. \E pc \in {"asking", "playing", "on", "over"} : scans' = [scans EXCEPT ![i].pc = pc]
    BY <1>5 DEF StreamArrives, StreamRefused, PlayReturns
  <2>2. Len(scans') = Len(scans)
    BY <2>1, RunGoes
  <2>3. scanner'.done = scanner.done
    BY <1>0, <1>5 DEF StreamArrives, StreamRefused, PlayReturns, ScannerRecord
  <2>4. UNCHANGED <<looking, filled>>
    BY <1>5 DEF StreamArrives, StreamRefused, PlayReturns
  <2> QED
    BY <1>0, <2>2, <2>3, <2>4, FillsStays
<1>6. ASSUME NEW i \in DOMAIN scans, Look(i) \/ NothingSeen(i) PROVE Fills'
  BY <1>0, <1>6, FillsStays DEF Look, NothingSeen
<1>7. ASSUME NEW i \in DOMAIN scans, CodeSeen(i) PROVE Fills'
  <2>1. scanner'.done
    BY <1>0, <1>7 DEF CodeSeen, RefsCleared, ScannerRecord
  <2>2. ~scanner.done /\ UNCHANGED scans /\ filled' \in {filled, filled + 1} /\ looking' \subseteq looking
    BY <1>7 DEF CodeSeen
  <2>3. scans # <<>> /\ Len(scans) \in Nat
    BY <1>0, <1>7, LenProperties
  <2> QED
    BY <2>1, <2>2, <2>3 DEF Fills
<1>8. CASE UNCHANGED scan_vars
  BY <1>8 DEF scan_vars, Fills
<1> QED
  BY <1>1, <1>2, <1>3, <1>4, <1>5, <1>6, <1>7, <1>8 DEF ScanNext

LEMMA ScanTypes == CameraInv /\ Fills => ScanTypeOK
<1> SUFFICES ASSUME CameraInv, Fills PROVE ScanTypeOK
  OBVIOUS
<1>1. Len(scans) \in Nat /\ Len(scans) <= MaxScans /\ MaxScans \in Nat /\ DOMAIN scans = 1..Len(scans)
  BY LenProperties, ScannerAssumption DEF CameraInv, Fills
<1>2. ASSUME NEW r \in Refs PROVE r \in Scans
  BY <1>1, <1>2 DEF CameraInv, Live, Latest, Scans
<1>3. scanner.streamRef \in Scans \cup {None} /\ scanner.timerRef \in Scans \cup {None}
  BY <1>2 DEF Refs
<1>4. scanner \in [mounted : BOOLEAN, open : BOOLEAN, error : BOOLEAN, video : BOOLEAN, done : BOOLEAN,
                   streamRef : Scans \cup {None}, timerRef : Scans \cup {None}]
  BY <1>3 DEF CameraInv, ScannerRecord
<1>5. lit \cup timers \subseteq Scans
  BY <1>3 DEF CameraInv
<1>6. looking \subseteq Scans /\ filled \in 0..MaxScans
  BY <1>1 DEF Fills, Scans
<1> QED
  BY <1>1, <1>4, <1>5, <1>6 DEF CameraInv, RunRecord, ScanTypeOK

-----------------------------------------------------------------------------
(***************************************************************************)
(* Browser, for any circles, documents and number of renders.              *)
(*                                                                         *)
(* A link that is left in a page must parse, so its path must not climb.   *)
(* Nothing in a document says so: it comes from resolving every relative   *)
(* path against the path of what it stands in.  That one is an address     *)
(* that was parsed or was resolved itself, which the invariant carries     *)
(* along histories, prompts and the work that is left on a page.           *)
(***************************************************************************)

\* Segments of paths, and the paths without a climb.
PathWords  == STRING \cup {"none", "index.html"}
Levels == {p \in Seq(PathWords) : \A i \in 1..Len(p) : p[i] # ".."}

\* A step of the resolution, and where it begins.
Climb(path, s) == CASE s = ".."        -> IF path = <<>> THEN path ELSE Front(path)
                    [] s \in {"", "."} -> path
                    [] OTHER           -> Append(path, s)
StartsAt(base, spec) == IF base = <<>> \/ spec.kind = "circle" THEN <<>> ELSE Front(base)

LEMMA FrontIsLevel ==
  ASSUME NEW p \in Levels, p # <<>>
  PROVE  Front(p) \in Levels
<1>1. p \in Seq(PathWords) /\ Len(p) \in Nat /\ Len(p) # 0
  BY EmptySeq, LenProperties DEF Levels
<1>2. /\ Front(p) \in Seq(PathWords) /\ Len(Front(p)) = Len(p) - 1
      /\ \A i \in 1..Len(p) - 1 : Front(p)[i] = p[i]
  <2> DEFINE n == Len(p) - 1
  <2>1. /\ n \in Int /\ 1 \in Int /\ n \in Nat /\ Front(p) = SubSeq(p, 1, n)
        /\ \A i \in 1..n : p[i] \in PathWords
    BY <1>1, LenProperties DEF Front
  <2> HIDE DEF n
  <2>2. /\ SubSeq(p, 1, n) \in Seq(PathWords)
        /\ Len(SubSeq(p, 1, n)) = IF 1 <= n THEN n - 1 + 1 ELSE 0
        /\ \A i \in 1..n - 1 + 1 : SubSeq(p, 1, n)[i] = p[1 + i - 1]
    BY <2>1, SubSeqProperties
  <2>3. Len(SubSeq(p, 1, n)) = n /\ \A i \in 1..n : SubSeq(p, 1, n)[i] = p[i]
    BY <2>1, <2>2
  <2> QED
    BY <2>1, <2>2, <2>3 DEF n
<1> QED
  BY <1>1, <1>2 DEF Levels

LEMMA ClimbIsLevel ==
  ASSUME NEW p \in Levels, NEW s \in PathWords
  PROVE  Climb(p, s) \in Levels
<1>1. p \in Seq(PathWords) /\ Len(p) \in Nat
  BY LenProperties DEF Levels
<1>2. ASSUME s # ".." PROVE Append(p, s) \in Levels
  <2>1. /\ Append(p, s) \in Seq(PathWords) /\ Len(Append(p, s)) = Len(p) + 1
        /\ \A i \in 1..Len(p) : Append(p, s)[i] = p[i]
        /\ Append(p, s)[Len(p) + 1] = s
    BY <1>1, AppendProperties
  <2>2. \A i \in 1..Len(p) : p[i] # ".."
    BY DEF Levels
  <2> DEFINE q == Append(p, s)
  <2> HIDE DEF q
  <2>3. \A i \in 1..Len(q) : q[i] # ".."
    BY <1>1, <1>2, <2>1, <2>2 DEF q
  <2> QED
    BY <2>1, <2>3 DEF Levels, q
<1> QED
  BY <1>2, FrontIsLevel DEF Climb

LEMMA StartIsLevel ==
  ASSUME NEW base \in Levels, NEW spec
  PROVE  StartsAt(base, spec) \in Levels
<1>1. <<>> \in Levels
  BY EmptySeq DEF Levels
<1> QED
  BY <1>1, FrontIsLevel DEF StartsAt

LEMMA ResolvingIsARun ==
  ASSUME NEW base \in Levels, NEW spec, spec.to \in Seq(PathWords)
  PROVE  \E r : /\ r[0] = StartsAt(base, spec)
                /\ \A k \in 0..Len(spec.to) - 1 : r[k + 1] = Climb(r[k], spec.to[k + 1])
                /\ ResolveCirclePath(base, spec) = r[Len(spec.to)]
<1> DEFINE to == spec.to
           L == Len(to)
           G == [i \in 1..L |-> [p \in Levels |-> Climb(p, to[i])]]
           Eq(f) == f = [s \in SUBSET (1..L) |->
                          IF s = {} THEN StartsAt(base, spec) ELSE Climb(f[s \ {Max(s)}], to[Max(s)])]
           f == CHOOSE f : Eq(f)
<1>1. L \in Nat /\ DOMAIN to = 1..L /\ \A i \in 1..L : to[i] \in PathWords
  BY LenProperties
<1>2. StartsAt(base, spec) \in Levels
  BY StartIsLevel
<1>3. G \in [1..L -> [Levels -> Levels]]
  BY <1>1, ClimbIsLevel
<1> HIDE DEF G
<1>4. PICK g \in [SUBSET (1..L) -> Levels] : Unfolds(g, StartsAt(base, spec), L, G)
  <2> HIDE DEF L
  <2> QED
    BY <1>1, <1>2, <1>3, FoldIsDefined
<1>5. Eq(g)
  <2> DEFINE h == [s \in SUBSET (1..L) |->
                     IF s = {} THEN StartsAt(base, spec) ELSE Climb(g[s \ {Max(s)}], to[Max(s)])]
  <2>1. ASSUME NEW s \in SUBSET (1..L) PROVE g[s] = h[s]
    BY <1>4 DEF G, Unfolds
  <2> HIDE DEF h
  <2>2. g = [s \in SUBSET (1..L) |-> g[s]]
    BY <1>4
  <2>3. h = [s \in SUBSET (1..L) |-> h[s]]
    BY DEF h
  <2>4. g = h
    BY <2>1, <2>2, <2>3
  <2> QED
    BY <2>4 DEF h
<1>6. Eq(f)
  BY <1>5
<1>7. ResolveCirclePath(base, spec) = f[1..L]
  BY <1>1 DEF ResolveCirclePath, FoldLeft, MapThenFoldSet, StartsAt, Climb
<1> HIDE DEF f, G
<1> DEFINE r == [k \in 0..L |-> f[1..k]]
<1>8. r[0] = StartsAt(base, spec)
  <2>1. 1..0 = {} /\ {} \in SUBSET (1..L)
    BY <1>1
  <2> QED
    BY <1>1, <1>6, <2>1
<1>9. ASSUME NEW k \in 0..L - 1 PROVE r[k + 1] = Climb(r[k], to[k + 1])
  <2>1. k \in Nat /\ k \in 0..L /\ k + 1 \in 0..L /\ k + 1 \in 1..k + 1
    BY <1>1
  <2>0. 1..k + 1 \in SUBSET (1..L) /\ 1..k + 1 # {}
    BY <1>1, <2>1
  <2>2. f[1..k + 1] = Climb(f[(1..k + 1) \ {Max(1..k + 1)}], to[Max(1..k + 1)])
    BY <1>6, <2>0
  <2>3. Max(1..k + 1) = k + 1 /\ (1..k + 1) \ {k + 1} = 1..k
    BY <2>1, MaxOfInterval
  <2> QED
    BY <2>1, <2>2, <2>3
<1>10. r[L] = f[1..L]
  BY <1>1
<1> HIDE DEF r
<1> QED
  BY <1>7, <1>8, <1>9, <1>10

LEMMA ResolvedIsLevel ==
  ASSUME NEW base \in Levels, NEW spec, spec.to \in Seq(PathWords)
  PROVE  ResolveCirclePath(base, spec) \in Levels
<1> DEFINE to == spec.to
           L == Len(to)
<1>1. L \in Nat /\ \A i \in 1..L : to[i] \in PathWords
  BY LenProperties
<1>2. PICK r : /\ r[0] = StartsAt(base, spec)
               /\ \A k \in 0..L - 1 : r[k + 1] = Climb(r[k], to[k + 1])
               /\ ResolveCirclePath(base, spec) = r[L]
  BY ResolvingIsARun
<1>3. StartsAt(base, spec) \in Levels
  BY StartIsLevel
<1>4. ASSUME NEW k \in 0..L - 1, r[k] \in Levels PROVE r[k + 1] \in Levels
  BY <1>1, <1>2, <1>4, ClimbIsLevel
<1> HIDE DEF L
<1>5. \A k \in 0..L : r[k] \in Levels
  BY <1>1, <1>2, <1>3, <1>4, StepsKeep
<1> QED
  BY <1>1, <1>2, <1>5

-----------------------------------------------------------------------------
Names     == STRING \cup Circles \cup {"none"}
Addresses == [circle : Names, path : Levels]
RefSpecs  == [kind : Kinds, circle : Names, to : Seq(PathWords)]
WorkRecs  == [slot : Slots, spec : RefSpecs, base : Levels, seen : SUBSET Levels]
LeftRecs  == [slot : Slots, spec : RefSpecs]
PassWords == {"none", "right", "wrong"}
RenderRecs == [pc : {"free", "info", "entry", "inline", "over"}, target : Addresses, push : BOOLEAN,
               pass : PassWords, todo : Seq(WorkRecs), done : SUBSET LeftRecs, scripts : Nat]

\* What a page may hold: see FrameIsClosed.
ClosedPages(ref) == ref.slot \notin Untouched =>
  /\ ref.spec.kind \notin {"remote", "relative"}
  /\ ref.spec.kind = "circle" /\ ref.slot = "a" => ParseCircleUri(SpecTarget(ref.spec)) # NoTarget

BrowserTyped ==
  /\ history \in Seq(Addresses) /\ index \in 0..Len(history) /\ bridgeToken \in 0..MaxRenders
  /\ render \in [RenderIds -> RenderRecs] /\ passphrase \in [Circles -> PassWords]
  /\ needPass \in BOOLEAN /\ loadingPage \in BOOLEAN /\ pendingTarget \in Addresses
  /\ frame.refs \subseteq LeftRecs

\* A render that was told of its circle has one that the node knows; what it has
\* materialized, and what is on the screen, is closed.
BrowserInv ==
  /\ BrowserTyped
  /\ \A r \in RenderIds : render[r].pc \in {"entry", "inline"} => render[r].target.circle \in Circles
  /\ \A r \in RenderIds : \A ref \in render[r].done : ClosedPages(ref)
  /\ \A ref \in frame.refs : ClosedPages(ref)
-----------------------------------------------------------------------------
\* Segments of documents are words.
LEMMA SegmentsAreWords ==
  /\ \A p \in Segments : p \in Seq(PathWords)
  /\ Specs \subseteq RefSpecs
<1>1. STRING \subseteq PathWords /\ STRING \subseteq Names
  BY DEF PathWords, Names
<1>2. ASSUME NEW p \in Segments PROVE p \in Seq(PathWords)
  <2>1. p \in Seq(STRING) /\ Len(p) \in Nat /\ p \in [1..Len(p) -> STRING]
    BY LenProperties DEF Segments
  <2>2. p \in [1..Len(p) -> PathWords]
    BY <1>1, <2>1
  <2> QED
    BY <2>1, <2>2, SeqDef
<1> QED
  BY <1>1, <1>2 DEF Specs, RefSpecs

\* A canonical path climbs nowhere.
LEMMA CanonicalIsLevel ==
  ASSUME NEW p \in Seq(PathWords), CanonicalAssetPath(p) # NoPath
  PROVE  CanonicalAssetPath(p) \in Levels
<1> DEFINE I == {i \in DOMAIN p : p[i] \notin {"", "."}}
           q == Filtered(p, I)
<1>1. Len(p) \in Nat /\ DOMAIN p = 1..Len(p)
  BY LenProperties
<1>2. CanonicalAssetPath(p) = q /\ \A i \in 1..Len(p) : p[i] # ".."
  BY <1>1 DEF CanonicalAssetPath, ToSet
<1>3. I \in SUBSET (1..Len(p))
  BY <1>1
<1> HIDE DEF I
<1>4. /\ q \in Seq(PathWords) /\ Len(q) = Cardinality(I)
      /\ \A k \in 1..Cardinality(I) : Nth(I, k) \in I /\ q[k] = p[Nth(I, k)]
  BY <1>3, FilteredIs
<1> HIDE DEF q
<1>5. \A k \in 1..Len(q) : q[k] # ".."
  BY <1>2, <1>3, <1>4
<1> QED
  BY <1>2, <1>4, <1>5 DEF Levels

\* A level path is usable.
LEMMA LevelParses ==
  ASSUME NEW t \in Addresses, t.circle # "none"
  PROVE  ParseCircleUri(t) # NoTarget
<1> DEFINE p == t.path
<1>1. p \in Seq(PathWords) /\ \A i \in 1..Len(p) : p[i] # ".."
  BY DEF Addresses, Levels
<1>2. Len(p) \in Nat /\ DOMAIN p = 1..Len(p)
  BY <1>1, LenProperties
<1> DEFINE I == {i \in DOMAIN p : p[i] \notin {"", "."}}
           q == Filtered(p, I)
<1>3. CanonicalAssetPath(p) = q
  BY <1>1, <1>2 DEF CanonicalAssetPath, ToSet
<1>4. I \in SUBSET (1..Len(p))
  BY <1>2
<1> HIDE DEF I
<1>5. /\ q \in Seq(PathWords) /\ Len(q) = Cardinality(I)
      /\ \A k \in 1..Cardinality(I) : Nth(I, k) \in I /\ q[k] = p[Nth(I, k)]
  BY <1>1, <1>4, FilteredIs
<1> HIDE DEF q
<1>6. q # NoPath
  <2>1. NoPath[1] = ".." /\ Len(NoPath) = 1
    BY DEF NoPath
  <2> SUFFICES ASSUME q = NoPath PROVE FALSE
    OBVIOUS
  <2>2. 1 \in 1..Cardinality(I)
    BY <2>1, <1>5
  <2> QED
    BY <1>1, <1>4, <1>5, <2>1, <2>2
<1> HIDE DEF p
<1>7. ParseCircleUri(t) = Target(t.circle, q)
  BY <1>3, <1>6 DEF ParseCircleUri, p
<1> QED
  BY <1>7 DEF Target, NoTarget

\* What parses is an address of the same circle.
LEMMA ParsedIsAddress ==
  ASSUME NEW t, t.circle \in Names, t.path \in Seq(PathWords), ParseCircleUri(t) # NoTarget
  PROVE  ParseCircleUri(t) \in Addresses /\ ParseCircleUri(t).circle # "none"
<1>1. t.circle # "none" /\ CanonicalAssetPath(t.path) # NoPath
  BY DEF ParseCircleUri
<1>2. CanonicalAssetPath(t.path) \in Levels
  BY <1>1, CanonicalIsLevel
<1> QED
  BY <1>1, <1>2 DEF ParseCircleUri, Target, Addresses

LEMMA TypedIsAddress ==
  ASSUME NEW t \in TypedAddresses
  PROVE  ParseCircleTarget(t) \in Addresses
<1>1. t.circle \in Names /\ t.path \in Seq(PathWords)
  BY DocumentsAssumption, SegmentsAreWords DEF Names
<1>2. Target("none", <<"index.html">>) \in Addresses
  <2>1. <<"index.html">> \in Seq(PathWords) /\ Len(<<"index.html">>) = 1 /\ <<"index.html">>[1] = "index.html"
    BY DEF PathWords
  <2>2. <<"index.html">> \in Levels
    BY <2>1 DEF Levels
  <2> QED
    BY <2>2 DEF Target, Addresses, Names
<1> QED
  BY <1>1, <1>2, ParsedIsAddress DEF ParseCircleTarget

\* A reference that the node is not asked for is left closed.
LEMMA LeftIsClosed ==
  ASSUME NEW circle \in Circles, NEW ref \in WorkRecs, ~Fetched(ref)
  PROVE  LET left == [slot |-> ref.slot, spec |-> LeftInPlace(circle, ref.base, ref)]
         IN  left \in LeftRecs /\ ClosedPages(left)
<1> DEFINE spec == ref.spec
           left == LeftInPlace(circle, ref.base, ref)
<1>1. /\ ref.slot \in Slots /\ ref.base \in Levels
      /\ spec \in RefSpecs /\ spec.kind \in Kinds /\ spec.circle \in Names /\ spec.to \in Seq(PathWords)
  BY DEF WorkRecs, RefSpecs
<1>2. ASSUME NEW k \in {"empty", "data", "fragment"}
      PROVE  Bare(k) \in RefSpecs /\ Bare(k).kind = k
  <2>1. <<>> \in Seq(PathWords)
    BY EmptySeq
  <2> QED
    BY <2>1 DEF Bare, RefSpecs, Kinds, Names
<1>3. ASSUME NEW t \in Addresses, t.circle # "none"
      PROVE  /\ Link(t) \in RefSpecs /\ Link(t).kind = "circle"
             /\ ParseCircleUri(SpecTarget(Link(t))) # NoTarget
  <2>1. t.circle \in Names /\ t.path \in Seq(PathWords) /\ t = [circle |-> t.circle, path |-> t.path]
    BY DEF Addresses, Levels
  <2>2. SpecTarget(Link(t)) = t
    BY <2>1 DEF SpecTarget, Link, Target
  <2>3. ParseCircleUri(t) # NoTarget
    BY <1>3, LevelParses
  <2> QED
    BY <2>1, <2>2, <2>3 DEF Link, RefSpecs, Kinds
<1>4. CASE ref.slot = "a"
  <2>1. left = RewriteInternalAnchor(circle, ref.base, spec)
    BY <1>4 DEF LeftInPlace, Untouched
  <2>2. CASE spec.kind \in {"empty", "fragment", "data"}
    <3>1. left = spec
      BY <2>1, <2>2 DEF RewriteInternalAnchor, IsBlockedRemoteSpec
    <3> HIDE DEF left
    <3> QED
      BY <1>1, <2>2, <3>1 DEF LeftRecs, ClosedPages, left
  <2>3. CASE spec.kind = "remote"
    BY <1>1, <1>2, <2>1, <2>3 DEF RewriteInternalAnchor, IsBlockedRemoteSpec, LeftRecs, ClosedPages
  <2>4. CASE spec.kind \in {"relative", "circle"}
    <3> DEFINE parsed == ParseCircleUri(SpecTarget(spec))
               own == Target(circle, ResolveCirclePath(ref.base, spec))
               to == IF spec.kind = "circle" /\ parsed # NoTarget THEN parsed ELSE own
    <3>1. left = Link(to)
      BY <2>1, <2>4 DEF RewriteInternalAnchor, IsBlockedRemoteSpec
    <3>2. own \in Addresses /\ own.circle # "none"
      <4>1. ResolveCirclePath(ref.base, spec) \in Levels
        BY <1>1, ResolvedIsLevel
      <4> QED
        BY <4>1, BrowserAssumption DEF Target, Addresses, Names
    <3>3. parsed # NoTarget => parsed \in Addresses /\ parsed.circle # "none"
      <4>1. SpecTarget(spec).circle = spec.circle /\ SpecTarget(spec).path = spec.to
        BY DEF SpecTarget, Target
      <4> QED
        BY <1>1, <4>1, ParsedIsAddress
    <3> HIDE DEF parsed, own
    <3>4. to \in Addresses /\ to.circle # "none"
      BY <3>2, <3>3
    <3> HIDE DEF to, left
    <3>5. /\ left \in RefSpecs /\ left.kind = "circle"
          /\ ParseCircleUri(SpecTarget(left)) # NoTarget
      BY <1>3, <3>1, <3>4
    <3> QED
      BY <1>1, <3>5 DEF LeftRecs, ClosedPages, left
  <2> QED
    BY <1>1, <2>2, <2>3, <2>4 DEF Kinds
<1>5. CASE ref.slot \in Untouched
  <2>1. left = spec
    BY <1>5 DEF LeftInPlace, Untouched
  <2> HIDE DEF left, spec
  <2> QED
    BY <1>1, <1>5, <2>1 DEF LeftRecs, ClosedPages, left
<1>6. CASE ref.slot # "a" /\ ref.slot \notin Untouched
  <2>1. left \in RefSpecs /\ left.kind \notin {"remote", "relative"}
    <3>1. spec.kind \notin {"relative", "circle"} \/ ref.slot = "form"
      BY <1>6 DEF Fetched
    <3>2. LeftLink(spec) = LeftSrc(spec) /\ LeftPoster(spec) = LeftSrc(spec)
      BY DEF LeftLink, LeftSrc, LeftPoster
    <3>3. ref.slot # "form" => LeftSrc(spec) \in RefSpecs /\ LeftSrc(spec).kind \notin {"remote", "relative"}
      BY <1>1, <1>2, <3>1 DEF LeftSrc, IsBlockedRemoteSpec
    <3>4. ref.slot # "form" => LeftUrl(spec) \in RefSpecs /\ LeftUrl(spec).kind \notin {"remote", "relative"}
      BY <1>1, <1>2, <3>1 DEF LeftUrl, IsBlockedRemoteSpec
    <3> QED
      BY <1>2, <1>6, <3>2, <3>3, <3>4 DEF LeftInPlace
  <2> HIDE DEF left
  <2> QED
    BY <1>1, <1>6, <2>1 DEF LeftRecs, ClosedPages, left
<1> QED
  BY <1>4, <1>5, <1>6 DEF Untouched

-----------------------------------------------------------------------------
\* What an action may do to the renders, as the invariant sees it.
RenderOK(rec) ==
  /\ rec \in RenderRecs
  /\ rec.pc \in {"entry", "inline"} => rec.target.circle \in Circles
  /\ \A ref \in rec.done : ClosedPages(ref)

LEMMA RendersOK == BrowserInv => \A r \in RenderIds : RenderOK(render[r])
  BY DEF BrowserInv, BrowserTyped, RenderOK

LEMMA RecordsOK ==
  /\ NotAsked \in RenderRecs /\ RenderOK(NotAsked)
  /\ RenderOK([NotAsked EXCEPT !.pc = "over"])
  /\ \A t \in Addresses : \A push \in BOOLEAN :
       RenderOK([NotAsked EXCEPT !.pc = "info", !.target = t, !.push = push])
<1>1. <<>> \in Seq(WorkRecs) /\ <<>> \in Seq(PathWords)
  BY EmptySeq
<1>2. <<>> \in Levels
  BY <1>1, EmptySeq DEF Levels
<1>3. NoTarget \in Addresses
  BY <1>2 DEF NoTarget, Target, Addresses, Names
<1>4. NotAsked \in RenderRecs /\ NotAsked.done = {} /\ NotAsked.pc = "free"
  BY <1>1, <1>3 DEF NotAsked, RenderRecs, PassWords
<1>5. [NotAsked EXCEPT !.pc = "over"] \in RenderRecs /\ [NotAsked EXCEPT !.pc = "over"].done = {}
       /\ [NotAsked EXCEPT !.pc = "over"].pc = "over"
  BY <1>4 DEF RenderRecs
<1>6. ASSUME NEW t \in Addresses, NEW push \in BOOLEAN
      PROVE  LET rec == [NotAsked EXCEPT !.pc = "info", !.target = t, !.push = push]
             IN rec \in RenderRecs /\ rec.done = {} /\ rec.pc = "info"
  BY <1>4 DEF RenderRecs
<1> QED
  BY <1>4, <1>5, <1>6 DEF RenderOK

\* The invariant of what the renders do not have.
PageOK ==
  /\ history \in Seq(Addresses) /\ index \in 0..Len(history) /\ bridgeToken \in 0..MaxRenders
  /\ passphrase \in [Circles -> PassWords]
  /\ needPass \in BOOLEAN /\ loadingPage \in BOOLEAN /\ pendingTarget \in Addresses
  /\ frame.refs \subseteq LeftRecs /\ \A ref \in frame.refs : ClosedPages(ref)

LEMMA InvParts ==
  BrowserInv <=> /\ PageOK /\ render \in [RenderIds -> RenderRecs]
                 /\ \A r \in RenderIds : RenderOK(render[r])
  BY DEF BrowserInv, BrowserTyped, PageOK, RenderOK

LEMMA OneRenderChanges ==
  ASSUME BrowserInv, PageOK', NEW r \in RenderIds, NEW rec, RenderOK(rec),
         render' = [render EXCEPT ![r] = rec]
  PROVE  BrowserInv'
<1>1. render \in [RenderIds -> RenderRecs] /\ \A q \in RenderIds : RenderOK(render[q])
  BY InvParts
<1>2. rec \in RenderRecs
  BY DEF RenderOK
<1>3. render' \in [RenderIds -> RenderRecs]
      /\ \A q \in RenderIds : render'[q] = rec \/ render'[q] = render[q]
  BY <1>1, <1>2
<1>4. \A q \in RenderIds : RenderOK(render'[q])
  BY <1>1, <1>3
<1>5. /\ PageOK' /\ render' \in [RenderIds -> RenderRecs]
      /\ \A q \in RenderIds : RenderOK(render[q])'
  BY <1>3, <1>4 DEF RenderOK, ClosedPages
<1> QED
  BY <1>5, InvParts DEF BrowserInv, BrowserTyped, PageOK, RenderOK, ClosedPages

LEMMA StartRenderKeeps ==
  ASSUME BrowserInv, PageOK', NEW t \in Addresses, NEW push \in BOOLEAN, StartRender(t, push)
  PROVE  BrowserInv'
<1>1. PICK r \in FreeRenders :
        render' = [render EXCEPT ![r] = [NotAsked EXCEPT !.pc = "info", !.target = t, !.push = push]]
  BY DEF StartRender
<1>2. r \in RenderIds
  BY DEF FreeRenders
<1> DEFINE rec == [NotAsked EXCEPT !.pc = "info", !.target = t, !.push = push]
<1>3. RenderOK(rec) /\ render' = [render EXCEPT ![r] = rec]
  BY <1>1, RecordsOK
<1> HIDE DEF rec
<1> QED
  BY <1>2, <1>3, OneRenderChanges

LEMMA OverKeeps ==
  ASSUME BrowserInv, PageOK', NEW r \in RenderIds, RenderOver(r)
  PROVE  BrowserInv'
<1> DEFINE rec == [NotAsked EXCEPT !.pc = "over"]
<1>1. RenderOK(rec) /\ render' = [render EXCEPT ![r] = rec]
  BY RecordsOK DEF RenderOver
<1> HIDE DEF rec
<1> QED
  BY <1>1, OneRenderChanges

LEMMA RenderFailsKeeps ==
  ASSUME BrowserInv, NEW r \in RenderIds, Fails(r)
  PROVE  BrowserInv'
<1>1. NoFrame.refs = {}
  BY DEF NoFrame
<1>2. PageOK'
  <2>1. PageOK
    BY InvParts
  <2> QED
    BY <1>1, <2>1 DEF Fails, RenderOver, PageOK
<1> QED
  BY <1>2, OverKeeps DEF Fails

LEMMA FetchCircleInfoKeeps ==
  ASSUME BrowserInv, NEW r \in RenderIds, FetchCircleInfo(r)
  PROVE  BrowserInv'
<1> DEFINE c == render[r].target.circle
<1>0. PageOK /\ RenderOK(render[r]) /\ render[r] \in RenderRecs /\ render[r].target \in Addresses
  BY InvParts DEF RenderOK, RenderRecs
<1>1. CASE Fails(r)
  BY <1>1, RenderFailsKeeps
<1>2. CASE /\ c \in Circles /\ IsSealedMode(c) /\ passphrase[c] = "none"
           /\ RenderOver(r) /\ pendingTarget' = render[r].target /\ needPass' = TRUE
           /\ UNCHANGED <<history, index, frame, bridgeToken, passphrase, bookmarks, listed>>
  <2>1. PageOK'
    BY <1>0, <1>2 DEF PageOK, RenderOver, ClosedPages
  <2> QED
    BY <1>2, <2>1, OverKeeps
<1>3. CASE /\ c \in Circles
           /\ render' = [render EXCEPT ![r].pc = "entry",
                                       ![r].pass = IF IsSealedMode(c) THEN passphrase[c] ELSE "none"]
           /\ UNCHANGED <<pendingTarget, needPass, loadingPage>>
           /\ UNCHANGED <<history, index, frame, bridgeToken, passphrase, bookmarks, listed>>
  <2> DEFINE pass == IF IsSealedMode(c) THEN passphrase[c] ELSE "none"
             rec == [render[r] EXCEPT !.pc = "entry", !.pass = pass]
  <2>1. PageOK'
    BY <1>0, <1>3 DEF PageOK, ClosedPages
  <2>2. pass \in PassWords
    BY <1>0, <1>3 DEF PageOK, PassWords
  <2>3. render' = [render EXCEPT ![r] = rec]
    BY <1>3
  <2> HIDE DEF pass
  <2>4. RenderOK(rec)
    <3>1. rec \in RenderRecs /\ rec.done = render[r].done /\ rec.target = render[r].target
      BY <1>0, <2>2 DEF RenderRecs
    <3> QED
      BY <1>0, <1>3, <3>1 DEF RenderOK
  <2> HIDE DEF rec
  <2> QED
    BY <2>1, <2>3, <2>4, OneRenderChanges
<1> QED
  BY <1>1, <1>2, <1>3 DEF FetchCircleInfo

\* The references of a document, as work on a page.
LEMMA WorkOfDocument ==
  ASSUME NEW S, NEW refs \in Seq(S), \A ref \in S : ref.slot \in Slots /\ ref.spec \in RefSpecs,
         NEW path \in Levels, NEW seen \in SUBSET Levels
  PROVE  [i \in 1..Len(refs) |-> [slot |-> refs[i].slot, spec |-> refs[i].spec, base |-> path, seen |-> seen]]
           \in Seq(WorkRecs)
<1> DEFINE w == [i \in 1..Len(refs) |-> [slot |-> refs[i].slot, spec |-> refs[i].spec, base |-> path, seen |-> seen]]
<1>1. Len(refs) \in Nat /\ \A i \in 1..Len(refs) : refs[i] \in S
  BY LenProperties
<1>2. w \in [1..Len(refs) -> WorkRecs]
  BY <1>1 DEF WorkRecs
<1> HIDE DEF w
<1>3. w \in Seq(WorkRecs)
  BY <1>1, <1>2, SeqDef
<1> QED
  BY <1>3 DEF w

LEMMA DocumentIs ==
  ASSUME NEW path \in Paths
  PROVE  /\ Documents[path] \in Seq([slot : Slots, spec : Specs])
         /\ \A ref \in [slot : Slots, spec : Specs] : ref.slot \in Slots /\ ref.spec \in RefSpecs
  BY DocumentsAssumption, SegmentsAreWords

LEMMA AtTopIsWork ==
  ASSUME NEW path \in Paths, path \in Levels
  PROVE  AtTop(path) \in Seq(WorkRecs)
<1> DEFINE refs == InjectFramePolicy(Documents[path])
           S == [slot : Slots, spec : Specs]
           I == {i \in DOMAIN Documents[path] : Documents[path][i].slot # "base"}
<1>1. refs \in Seq(S)
  <2>1. Documents[path] \in Seq(S)
    BY DocumentIs
  <2>2. I \in SUBSET (1..Len(Documents[path])) /\ refs = Filtered(Documents[path], I)
    BY <2>1, LenProperties DEF InjectFramePolicy
  <2> HIDE DEF I, S, refs
  <2>3. Filtered(Documents[path], I) \in Seq(S)
    BY <2>1, <2>2, FilteredIs
  <2> QED
    BY <2>2, <2>3
<1>2. \A ref \in S : ref.slot \in Slots /\ ref.spec \in RefSpecs
  BY DocumentIs
<1> HIDE DEF refs, S
<1>3. [i \in 1..Len(refs) |-> [slot |-> refs[i].slot, spec |-> refs[i].spec, base |-> path, seen |-> {path}]]
        \in Seq(WorkRecs)
  BY <1>1, <1>2, WorkOfDocument
<1>4. <<>> \in Seq(WorkRecs)
  BY EmptySeq
<1> QED
  BY <1>3, <1>4 DEF AtTop, refs

LEMMA NestedIsWork ==
  ASSUME NEW ref \in WorkRecs, NEW path \in Paths, path \in Levels
  PROVE  Nested(ref, path) \in Seq(WorkRecs)
<1> DEFINE S == [slot : Slots, spec : Specs]
           d == Documents[path]
           seen == ref.seen \cup {path}
<1>1. d \in Seq(S) /\ \A q \in S : q.slot \in Slots /\ q.spec \in RefSpecs
  BY DocumentIs
<1>2. seen \in SUBSET Levels
  BY DEF WorkRecs
<1> HIDE DEF S, d, seen
<1>3. [i \in 1..Len(d) |-> [slot |-> d[i].slot, spec |-> d[i].spec, base |-> path, seen |-> seen]]
        \in Seq(WorkRecs)
  BY <1>1, <1>2, WorkOfDocument
<1>4. <<>> \in Seq(WorkRecs)
  BY EmptySeq
<1> QED
  BY <1>3, <1>4 DEF Nested, d, seen

LEMMA LoadsExisting ==
  ASSUME NEW r, NEW path, Loads(r, path)
  PROVE  path \in Paths
  BY DEF Loads, FetchSealedAsset, FetchPublicAsset

LEMMA EntryArrivesKeeps ==
  ASSUME BrowserInv, NEW r \in RenderIds, EntryArrives(r)
  PROVE  BrowserInv'
<1> DEFINE path == render[r].target.path
<1>0. /\ PageOK /\ RenderOK(render[r]) /\ render[r] \in RenderRecs /\ render[r].pc = "entry"
      /\ path \in Levels
  BY InvParts DEF RenderOK, RenderRecs, EntryArrives, Addresses
<1>1. CASE Fails(r)
  BY <1>1, RenderFailsKeeps
<1>2. CASE /\ Loads(r, path)
           /\ render' = [render EXCEPT ![r].pc = "inline", ![r].todo = AtTop(path)]
           /\ bridgeToken' = r
           /\ UNCHANGED <<history, index, frame, passphrase, needPass, pendingTarget, loadingPage, bookmarks, listed>>
  <2> DEFINE rec == [render[r] EXCEPT !.pc = "inline", !.todo = AtTop(path)]
  <2>1. PageOK'
    <3>1. r \in 0..MaxRenders
      BY BrowserAssumption DEF RenderIds
    <3> QED
      BY <1>0, <1>2, <3>1 DEF PageOK, ClosedPages
  <2>2. AtTop(path) \in Seq(WorkRecs)
    BY <1>0, <1>2, LoadsExisting, AtTopIsWork
  <2>3. render' = [render EXCEPT ![r] = rec]
    BY <1>2
  <2>4. RenderOK(rec)
    <3>1. rec \in RenderRecs /\ rec.done = render[r].done /\ rec.target = render[r].target
      BY <1>0, <2>2 DEF RenderRecs
    <3> QED
      BY <1>0, <3>1 DEF RenderOK
  <2> HIDE DEF rec
  <2> QED
    BY <2>1, <2>3, <2>4, OneRenderChanges
<1> QED
  BY <1>1, <1>2 DEF EntryArrives

LEMMA MaterializeKeeps ==
  ASSUME BrowserInv, NEW r \in RenderIds, Materialize(r)
  PROVE  BrowserInv'
<1> DEFINE job  == render[r]
           ref  == Head(job.todo)
           path == ResolveCirclePath(ref.base, ref.spec)
           left == [slot |-> ref.slot, spec |-> LeftInPlace(job.target.circle, ref.base, ref)]
           others == <<history, index, frame, bridgeToken, passphrase, needPass, pendingTarget,
                       loadingPage, bookmarks, listed>>
<1>0. /\ PageOK /\ RenderOK(job) /\ job \in RenderRecs /\ job.pc = "inline"
      /\ job.target.circle \in Circles
  BY InvParts DEF RenderOK, Materialize
<1>1. ref \in WorkRecs /\ Tail(job.todo) \in Seq(WorkRecs)
  <2>1. job.todo \in Seq(WorkRecs) /\ job.todo # <<>>
    BY <1>0 DEF RenderRecs, Materialize
  <2> QED
    BY <2>1, HeadTailProperties
<1>2. UNCHANGED others => PageOK'
  BY <1>0 DEF PageOK, ClosedPages
<1>3. CASE /\ ~Fetched(ref)
           /\ render' = [render EXCEPT ![r].todo = Tail(@), ![r].scripts = @ + InlineScripts(ref),
                                       ![r].done = @ \cup {left}]
           /\ UNCHANGED others
  <2> DEFINE scripts == job.scripts + InlineScripts(ref)
             rec == [job EXCEPT !.todo = Tail(@), !.scripts = scripts, !.done = @ \cup {left}]
  <2>1. left \in LeftRecs /\ ClosedPages(left)
    BY <1>0, <1>1, <1>3, LeftIsClosed
  <2>2. render' = [render EXCEPT ![r] = rec]
    BY <1>3
  <2>4. scripts \in Nat
    BY <1>0 DEF RenderRecs, InlineScripts
  <2> HIDE DEF left, ref, scripts
  <2>3. RenderOK(rec)
    <3>1. /\ rec \in RenderRecs /\ rec.done = job.done \cup {left} /\ rec.target = job.target
          /\ rec.pc = job.pc
      BY <1>0, <1>1, <2>1, <2>4 DEF RenderRecs
    <3> QED
      BY <1>0, <2>1, <3>1 DEF RenderOK
  <2> HIDE DEF rec
  <2> QED
    BY <1>2, <1>3, <2>2, <2>3, OneRenderChanges
<1>4. CASE Fails(r)
  BY <1>4, RenderFailsKeeps
<1>5. CASE /\ Loads(r, path)
           /\ render' = [render EXCEPT ![r].todo = Nested(ref, path) \o Tail(@),
                                       ![r].scripts = @ + (IF ref.slot = "script" THEN 1 ELSE 0)]
           /\ UNCHANGED others
  <2> DEFINE new == IF ref.slot = "script" THEN 1 ELSE 0
             todo == Nested(ref, path) \o Tail(job.todo)
             scripts == job.scripts + new
             rec == [job EXCEPT !.todo = todo, !.scripts = scripts]
  <2>1. Nested(ref, path) \o Tail(job.todo) \in Seq(WorkRecs)
    <3>1. ref.base \in Levels /\ ref.spec.to \in Seq(PathWords)
      BY <1>1 DEF WorkRecs, RefSpecs
    <3>2. path \in Levels
      BY <3>1, ResolvedIsLevel
    <3>3. path \in Paths
      BY <1>5, LoadsExisting
    <3> HIDE DEF path, ref
    <3>4. Nested(ref, path) \in Seq(WorkRecs)
      BY <1>1, <3>2, <3>3, NestedIsWork
    <3> QED
      BY <1>1, <3>4, ConcatProperties
  <2>2. render' = [render EXCEPT ![r] = rec]
    BY <1>5
  <2> HIDE DEF path, ref
  <2>3. RenderOK(rec)
    <3>1. todo \in Seq(WorkRecs) /\ scripts \in Nat
      BY <1>0, <2>1 DEF RenderRecs
    <3> HIDE DEF todo, scripts
    <3>2. rec \in RenderRecs /\ rec.done = job.done /\ rec.target = job.target /\ rec.pc = job.pc
      BY <1>0, <3>1 DEF RenderRecs
    <3> QED
      BY <1>0, <3>2 DEF RenderOK
  <2> HIDE DEF rec
  <2> QED
    BY <1>2, <1>5, <2>2, <2>3, OneRenderChanges
<1> QED
  BY <1>3, <1>4, <1>5 DEF Materialize

LEMMA ShowKeeps ==
  ASSUME BrowserInv, NEW r \in RenderIds, Show(r)
  PROVE  BrowserInv'
<1>0. /\ PageOK /\ RenderOK(render[r]) /\ render[r] \in RenderRecs
      /\ render[r].target \in Addresses
  BY InvParts DEF RenderOK, RenderRecs
<1> DEFINE t == render[r].target
           cut == SubSeq(history, 1, index)
<1>1. /\ frame'.refs \subseteq LeftRecs /\ \A ref \in frame'.refs : ClosedPages(ref)
  <2>1. frame'.refs = render[r].done
    BY DEF Show
  <2> QED
    BY <1>0, <2>1 DEF RenderOK, RenderRecs
<1>2. history' \in Seq(Addresses) /\ index' \in 0..Len(history')
  <2>1. history \in Seq(Addresses) /\ index \in 0..Len(history) /\ Len(history) \in Nat
    BY <1>0, LenProperties DEF PageOK
  <2>2. CASE render[r].push
    <3>1. cut \in Seq(Addresses) /\ Len(cut) = index
      BY <2>1, SubSeqProperties
    <3> HIDE DEF cut, t
    <3>2. Append(cut, t) \in Seq(Addresses) /\ Len(Append(cut, t)) = index + 1
      BY <1>0, <3>1, AppendProperties DEF t
    <3>3. history' = Append(cut, t) /\ index' = index + 1
      BY <2>2 DEF Show, cut, t
    <3> QED
      BY <2>1, <3>2, <3>3
  <2>3. CASE ~render[r].push
    BY <2>1, <2>3 DEF Show
  <2> QED
    BY <2>2, <2>3
<1>3. PageOK'
  BY <1>0, <1>1, <1>2 DEF PageOK, ClosedPages, Show, RenderOver
<1> QED
  BY <1>3, OverKeeps DEF Show

LEMMA RenderStepKeeps ==
  ASSUME BrowserInv, NEW r \in RenderIds, RenderStep(r)
  PROVE  BrowserInv'
<1>1. CASE Refused(r)
  BY <1>1, RenderFailsKeeps DEF Refused
<1> QED
  BY <1>1, FetchCircleInfoKeeps, EntryArrivesKeeps, MaterializeKeeps, ShowKeeps DEF RenderStep

LEMMA UserKeeps ==
  ASSUME BrowserInv,
         \/ \E t \in TypedAddresses : Go(t)
         \/ Back \/ Forward \/ Reload \/ ToggleBookmark \/ RefreshBookmarks
         \/ \E ref \in PreludeLinks : FollowLink(ref)
         \/ \E word \in {"right", "wrong"} : SubmitPassphrase(word)
         \/ \E t \in listed : RemoveBookmark(t)
         \/ UNCHANGED browser_vars
  PROVE  BrowserInv'
<1> DEFINE page == <<history, index, frame, bridgeToken, passphrase, pendingTarget>>
<1>0. /\ PageOK /\ TRUE \in BOOLEAN /\ FALSE \in BOOLEAN
      /\ Len(history) \in Nat /\ index \in 0..Len(history)
      /\ \A i \in 1..Len(history) : history[i] \in Addresses
  BY InvParts, LenProperties DEF PageOK
<1>1. ASSUME NEW t \in Addresses, NEW push \in BOOLEAN, StartRender(t, push), UNCHANGED page
      PROVE  BrowserInv'
  <2>1. PageOK'
    BY <1>0, <1>1 DEF PageOK, ClosedPages, StartRender
  <2> QED
    BY <1>1, <2>1, StartRenderKeeps
<1>2. ASSUME NEW t \in TypedAddresses, Go(t) PROVE BrowserInv'
  <2>1. ParseCircleTarget(t) \in Addresses
    BY TypedIsAddress
  <2> QED
    BY <1>0, <1>1, <1>2, <2>1 DEF Go
<1>3. ASSUME Back PROVE BrowserInv'
  <2>1. index - 1 \in 1..Len(history) /\ index' \in 0..Len(history)
    BY <1>0, <1>3 DEF Back
  <2>2. PageOK'
    BY <1>0, <1>3, <2>1 DEF PageOK, ClosedPages, Back, StartRender
  <2> QED
    BY <1>0, <1>3, <2>1, <2>2, StartRenderKeeps DEF Back
<1>4. ASSUME Forward PROVE BrowserInv'
  <2>1. index + 1 \in 1..Len(history) /\ index' \in 0..Len(history)
    BY <1>0, <1>4 DEF Forward
  <2>2. PageOK'
    BY <1>0, <1>4, <2>1 DEF PageOK, ClosedPages, Forward, StartRender
  <2> QED
    BY <1>0, <1>4, <2>1, <2>2, StartRenderKeeps DEF Forward
<1>5. ASSUME Reload PROVE BrowserInv'
  <2>1. index \in 1..Len(history)
    BY <1>0, <1>5 DEF Reload
  <2> QED
    BY <1>0, <1>1, <1>5, <2>1 DEF Reload
<1>6. ASSUME NEW ref \in PreludeLinks, FollowLink(ref) PROVE BrowserInv'
  <2>1. ref.spec \in RefSpecs
    BY <1>0 DEF PageOK, PreludeLinks, LeftRecs
  <2>2. SpecTarget(ref.spec).circle \in Names /\ SpecTarget(ref.spec).path \in Seq(PathWords)
    BY <2>1 DEF SpecTarget, Target, RefSpecs
  <2>3. ParseCircleUri(SpecTarget(ref.spec)) \in Addresses
    BY <1>6, <2>2, ParsedIsAddress DEF FollowLink
  <2> QED
    BY <1>0, <1>1, <1>6, <2>3 DEF FollowLink
<1>7. ASSUME NEW word \in {"right", "wrong"}, SubmitPassphrase(word) PROVE BrowserInv'
  <2>1. passphrase' \in [Circles -> PassWords]
    BY <1>0, <1>7 DEF PageOK, PassWords, SubmitPassphrase
  <2>2. PageOK' /\ pendingTarget \in Addresses
    BY <1>0, <1>7, <2>1 DEF PageOK, ClosedPages, SubmitPassphrase, StartRender
  <2> QED
    BY <1>0, <1>7, <2>2, StartRenderKeeps DEF SubmitPassphrase
<1>8. ASSUME \/ ToggleBookmark \/ RefreshBookmarks \/ (\E t \in listed : RemoveBookmark(t))
             \/ UNCHANGED browser_vars
      PROVE  BrowserInv'
  <2>1. UNCHANGED <<history, index, frame, bridgeToken, render, passphrase, needPass,
                    pendingTarget, loadingPage>>
    BY <1>8 DEF ToggleBookmark, RefreshBookmarks, RemoveBookmark, browser_vars
  <2> QED
    BY <2>1 DEF BrowserInv, BrowserTyped, ClosedPages
<1> QED
  BY <1>2, <1>3, <1>4, <1>5, <1>6, <1>7, <1>8

LEMMA BrowserInitInv == BrowserInit => BrowserInv
<1> SUFFICES ASSUME BrowserInit PROVE BrowserInv
  OBVIOUS
<1>1. <<>> \in Seq(Addresses) /\ Len(<<>>) = 0
  BY EmptySeq
<1>2. <<>> \in Levels
  BY EmptySeq DEF Levels
<1>3. NoTarget \in Addresses
  BY <1>2 DEF NoTarget, Target, Addresses, Names
<1>4. PageOK
  <2>1. bridgeToken \in 0..MaxRenders
    BY BrowserAssumption DEF BrowserInit
  <2>2. frame.refs = {}
    BY DEF BrowserInit, NoFrame
  <2>3. history = <<>> /\ index = 0 /\ index \in 0..Len(history)
    BY <1>1 DEF BrowserInit
  <2>4. passphrase \in [Circles -> PassWords]
    BY DEF BrowserInit, PassWords
  <2>5. needPass \in BOOLEAN /\ loadingPage \in BOOLEAN /\ pendingTarget \in Addresses
    BY <1>3 DEF BrowserInit
  <2> QED
    BY <1>1, <2>1, <2>2, <2>3, <2>4, <2>5 DEF PageOK
<1>5. render \in [RenderIds -> RenderRecs] /\ \A r \in RenderIds : RenderOK(render[r])
  BY RecordsOK DEF BrowserInit
<1> QED
  BY <1>4, <1>5, InvParts

LEMMA BrowserStepInv == BrowserInv /\ [BrowserNext]_browser_vars => BrowserInv'
<1> SUFFICES ASSUME BrowserInv, [BrowserNext]_browser_vars PROVE BrowserInv'
  OBVIOUS
<1>1. ASSUME NEW r \in RenderIds, RenderStep(r) PROVE BrowserInv'
  BY <1>1, RenderStepKeeps
<1> QED
  BY <1>1, UserKeeps DEF BrowserNext

\* The types of the browser: the history index stays within the history, and a passphrase
\* is only ever kept for a circle that the node knows.
THEOREM BrowserTypeCorrect == BrowserSpec => []BrowserTypeOK
<1>1. BrowserInit => BrowserInv
  BY BrowserInitInv
<1>2. BrowserInv => BrowserTypeOK
  BY DEF BrowserInv, BrowserTyped, BrowserTypeOK, PassWords, RenderRecs
<1> QED
  BY <1>1, <1>2, BrowserStepInv, PTL DEF BrowserSpec

\* Of the references that materializeHtml looks at, none of a page on the screen leads
\* anywhere but into a circle, whatever the documents, however the references are written
\* and nested, and however renders overtake one another.
THEOREM PagesAreClosed == BrowserSpec => []FrameIsClosed
<1>1. BrowserInit => BrowserInv
  BY BrowserInitInv
<1>2. BrowserInv => FrameIsClosed
  BY DEF BrowserInv, FrameIsClosed, ClosedPages
<1> QED
  BY <1>1, <1>2, BrowserStepInv, PTL DEF BrowserSpec

-----------------------------------------------------------------------------
(***************************************************************************)
(* The contract pages.                                                     *)
(***************************************************************************)

LEMMA NamedIs ==
  ASSUME NEW list \in Seq(STRING)
  PROVE  /\ Named(list) \in Seq(STRING)
         /\ "" \notin ToSet(Named(list))
         /\ Named(list) = <<>> => ToSet(list) \subseteq {""}
<1> DEFINE I == {i \in DOMAIN list : list[i] # ""}
           kept == Filtered(list, I)
<1>1. DOMAIN list = 1..Len(list) /\ Len(list) \in Nat /\ I \in SUBSET (1..Len(list))
  BY LenProperties
<1>6. \A i \in DOMAIN list : i \in I <=> list[i] # ""
  OBVIOUS
<1>7. Named(list) = kept
  BY DEF Named
<1> HIDE DEF I
<1>2. /\ kept \in Seq(STRING) /\ Len(kept) = Cardinality(I) /\ Cardinality(I) \in Nat
      /\ \A k \in 1..Cardinality(I) : Nth(I, k) \in I /\ kept[k] = list[Nth(I, k)]
      /\ \A i \in I : \E k \in 1..Cardinality(I) : Nth(I, k) = i
  BY <1>1, FilteredIs
<1>3. DOMAIN kept = 1..Cardinality(I)
  BY <1>2, LenProperties
<1>8. \A k \in DOMAIN kept : kept[k] # ""
  BY <1>1, <1>2, <1>3, <1>6
<1> HIDE DEF kept
<1>4. "" \notin ToSet(kept)
  BY <1>8 DEF ToSet
<1>5. ASSUME kept = <<>> PROVE ToSet(list) \subseteq {""}
  <2>1. Len(<<>>) = 0
    BY EmptySeq
  <2>2. Cardinality(I) = 0
    BY <1>2, <1>5, <2>1
  <2>4. I = {}
    <3>1. 1..0 = {}
      OBVIOUS
    <3>2. \A i \in I : \E k \in 1..0 : Nth(I, k) = i
      BY <1>2, <2>2
    <3> QED
      BY <3>1, <3>2
  <2>3. \A i \in DOMAIN list : list[i] = ""
    BY <1>6, <2>4
  <2> QED
    BY <2>3 DEF ToSet
<1> QED
  BY <1>2, <1>4, <1>5, <1>7

LEMMA OnceIs ==
  ASSUME NEW names \in Seq(STRING)
  PROVE  /\ Once(names) \in Seq(STRING) /\ IsInjective(Once(names))
         /\ ToSet(Once(names)) = ToSet(names)
<1> DEFINE I == {i \in DOMAIN names : \A j \in 1..(i - 1) : names[j] # names[i]}
           kept == Filtered(names, I)
<1>1. DOMAIN names = 1..Len(names) /\ Len(names) \in Nat /\ I \in SUBSET (1..Len(names))
  BY LenProperties
<1>4. ASSUME NEW i \in I, NEW j \in I, names[i] = names[j] PROVE i = j
  <2>1. \A k \in 1..(i - 1) : names[k] # names[i]
    OBVIOUS
  <2>2. \A k \in 1..(j - 1) : names[k] # names[j]
    OBVIOUS
  <2> QED
    BY <1>1, <1>4, <2>1, <2>2
<1>10. \A i \in DOMAIN names : (\A j \in 1..(i - 1) : names[j] # names[i]) => i \in I
  OBVIOUS
<1>11. Once(names) = kept
  BY DEF Once
<1> HIDE DEF I
<1>2. /\ kept \in Seq(STRING) /\ Len(kept) = Cardinality(I) /\ Cardinality(I) \in Nat
      /\ \A k \in 1..Cardinality(I) : Nth(I, k) \in I /\ kept[k] = names[Nth(I, k)]
      /\ \A j, k \in 1..Cardinality(I) : Nth(I, j) = Nth(I, k) => j = k
      /\ \A i \in I : \E k \in 1..Cardinality(I) : Nth(I, k) = i
  BY <1>1, FilteredIs
<1>3. DOMAIN kept = 1..Cardinality(I)
  BY <1>2, LenProperties
<1>5. ASSUME NEW j \in DOMAIN kept, NEW k \in DOMAIN kept, kept[j] = kept[k] PROVE j = k
  BY <1>2, <1>3, <1>4, <1>5
<1>6. ASSUME NEW i \in DOMAIN names PROVE \E k \in DOMAIN kept : kept[k] = names[i]
  <2> DEFINE Same == {j \in DOMAIN names : names[j] = names[i]}
  <2>1. PICK j \in Same : \A k \in Same : j <= k
    <3>1. i \in Same /\ Same \in SUBSET Nat
      BY <1>1
    <3> QED
      BY <3>1, LeastNat
  <2>2. j \in I
    BY <1>1, <1>10, <2>1
  <2> QED
    BY <1>2, <1>3, <2>1, <2>2
<1>12. \A k \in DOMAIN kept : kept[k] = names[Nth(I, k)] /\ Nth(I, k) \in DOMAIN names
  BY <1>1, <1>2, <1>3
<1>7. ToSet(kept) \subseteq ToSet(names)
  <2> HIDE DEF kept
  <2> QED
    BY <1>12 DEF ToSet
<1>8. ToSet(names) \subseteq ToSet(kept)
  BY <1>6 DEF ToSet
<1>9. IsInjective(kept)
  BY <1>5 DEF IsInjective
<1> QED
  BY <1>2, <1>7, <1>8, <1>9, <1>11

LEMMA ExtractedIs ==
  ASSUME NEW a \in CtAddrs
  PROVE  LET list == ExtractMethods(AbiOf[a]) IN
         /\ list \in Seq(STRING) /\ IsInjective(list) /\ "" \notin ToSet(list)
         /\ list = <<>> => \A k \in DOMAIN AbiOf[a] : ToSet(AbiOf[a][k]) \subseteq {""}
<1> DEFINE info == AbiOf[a]
           useful == {i \in DOMAIN AbiKeys : AbiKeys[i] \in DOMAIN info /\ Named(info[AbiKeys[i]]) # <<>>}
           first == CHOOSE i \in useful : \A j \in useful : i <= j
           list == ExtractMethods(info)
<1>1. DOMAIN info \subseteq ToSet(AbiKeys) /\ \A k \in DOMAIN info : info[k] \in Seq(STRING)
  BY ContractsAssumption
<1>2. DOMAIN AbiKeys = 1..7
  BY DEF AbiKeys
<1>3. CASE useful = {}
  <2>1. list = <<>>
    BY <1>3 DEF ExtractMethods
  <2>2. ASSUME NEW k \in DOMAIN info PROVE ToSet(info[k]) \subseteq {""}
    <3>1. PICK i \in DOMAIN AbiKeys : AbiKeys[i] = k
      BY <1>1 DEF ToSet
    <3>2. Named(info[k]) = <<>>
      BY <1>3, <3>1
    <3> QED
      BY <1>1, <3>2, NamedIs
  <2>3. <<>> \in Seq(STRING) /\ IsInjective(<<>>) /\ "" \notin ToSet(<<>>)
    BY EmptySeq DEF IsInjective, ToSet
  <2> QED
    BY <2>1, <2>2, <2>3
<1>4. CASE useful # {}
  <2>1. useful \in SUBSET Nat
    BY <1>2
  <2>2. first \in useful
    BY <1>4, <2>1, LeastNat
  <2> DEFINE names == Named(info[AbiKeys[first]])
  <2>3. info[AbiKeys[first]] \in Seq(STRING) /\ names # <<>>
    BY <1>1, <2>2
  <2>4. names \in Seq(STRING) /\ "" \notin ToSet(names)
    BY <2>3, NamedIs
  <2>5. list = Once(names)
    BY <1>4 DEF ExtractMethods
  <2>6. list \in Seq(STRING) /\ IsInjective(list) /\ ToSet(list) = ToSet(names)
    BY <2>4, <2>5, OnceIs
  <2>7. names[1] \in ToSet(names)
    <3>1. Len(names) \in Nat /\ Len(names) # 0 /\ DOMAIN names = 1..Len(names)
      BY <2>3, <2>4, EmptySeq, LenProperties
    <3>2. 1 \in DOMAIN names
      BY <3>1
    <3> QED
      BY <3>2 DEF ToSet
  <2>8. list # <<>>
    <3>1. ToSet(<<>>) = {}
      BY EmptySeq DEF ToSet
    <3> QED
      BY <2>6, <2>7, <3>1
  <2> QED
    BY <2>4, <2>6, <2>8
<1> QED
  BY <1>3, <1>4

\* Of any program info, the methods that are offered have names, no two the same, and none
\* are offered only if no list of it has a name.
THEOREM OfferedMethodsAreOptions == MethodsAreOptions
BY ExtractedIs DEF MethodsAreOptions

-----------------------------------------------------------------------------
(* What a form held when its dialog was confirmed.                         *)

MethodNames == CtMethods \cup STRING \cup {""}
FeeTexts    == {"", "7"}
FormAmounts == {"0", "junk"}
CtForms ==
  [tab : {"deploy", "call"}, addr : CtAddrs \cup {"", "junk"}, method : MethodNames, list : Seq(STRING),
   loading : BOOLEAN, source : BOOLEAN, deployOu : FeeTexts, args : BOOLEAN, amount : FormAmounts,
   callOu : FeeTexts, pin : BOOLEAN, confirm : {"none", "deploy", "call"}, result : CtJobIds \cup {0}]
CtJobs ==
  [pc : {"compile", "parse", "nonce", "submit", "over"}, kind : {"deploy", "call"}, from : CtAccounts,
   to : CtAddrs \cup CtAccounts, method : MethodNames, args : BOOLEAN, amount : FormAmounts,
   ou : {"7", "5000000", "100000"}, nonce : Nat]
CtViews ==
  [addr : CtAddrs \cup {"", "junk"}, info : CtAddrs \cup {"none"}, methods : Seq(STRING),
   storage : CtAddrs \cup {"none"}, loading : BOOLEAN]

CtTyped ==
  /\ ctWallet \in CtAccounts /\ ct \in CtForms
  /\ ctFetch \in [addr : CtAddrs, method : MethodNames] \cup {CtNoFetch}
  /\ ctJob \in [CtJobIds -> CtJobs \cup {CtNoJob}] /\ ctModal \in BOOLEAN
  /\ ctStaged \in [CtAccounts -> Nat] /\ ctTurns \in Nat
  /\ view \in CtViews /\ reading \subseteq [what : {"info", "storage"}, addr : CtAddrs, turn : Nat]

\* What a transaction under way was made of.
JobWhole(J) ==
  /\ J.kind = "call" =>
       /\ J.to \in CtAddrs /\ J.method # "" /\ J.pc # "compile"
       /\ J.pc \in {"nonce", "submit"} => J.args /\ J.amount # "junk"
  /\ J.kind = "deploy" => J.to = J.from /\ J.amount = "0"
  /\ J.pc = "submit" => J.nonce > 0

CtInv ==
  /\ CtTyped
  /\ ct.loading = (ctFetch # CtNoFetch)
  /\ view.methods # <<>> => view.info # "none"
  /\ \A j \in CtJobIds : ctJob[j] # CtNoJob => JobWhole(ctJob[j])

LEMMA CtInitInv == CtInit => CtInv
<1> SUFFICES ASSUME CtInit PROVE CtInv
  OBVIOUS
<1>1. <<>> \in Seq(STRING)
  BY EmptySeq
<1>2. BlankForm \in CtForms
  BY <1>1 DEF BlankForm, CtForms, MethodNames, FeeTexts, FormAmounts
<1>3. BlankView \in CtViews
  BY <1>1 DEF BlankView, CtViews
<1>4. CtTyped
  BY <1>2, <1>3 DEF CtInit, CtTyped
<1> QED
  BY <1>4 DEF CtInit, CtInv, BlankForm, BlankView

\* A transaction is no missing one.
LEMMA JobsAreThere == \A J \in CtJobs : J # CtNoJob
BY DEF CtJobs, CtNoJob

\* The fields of the page change, and nothing else but a request for methods.
LEMMA FieldsKeep ==
  ASSUME CtInv, ct' \in CtForms, ctTurns' \in Nat,
         ctFetch' \in [addr : CtAddrs, method : MethodNames] \cup {CtNoFetch},
         ct'.loading = (ctFetch' # CtNoFetch),
         UNCHANGED <<ctWallet, ctJob, ctModal, ctStaged, view, reading>>
  PROVE  CtInv'
<1>1. CtTyped'
  BY DEF CtInv, CtTyped
<1> QED
  BY <1>1 DEF CtInv

LEMMA TurnCounts == CtInv /\ Turn => ctTurns' \in Nat
BY DEF CtInv, CtTyped, Turn

LEMMA FormsKeep ==
  ASSUME CtInv, NEW f \in CtForms, ct' = f, f.loading = ct.loading,
         Turn \/ UNCHANGED ctTurns, FormStill
  PROVE  CtInv'
<1>1. ctTurns' \in Nat
  BY TurnCounts DEF CtInv, CtTyped
<1>2. ctFetch' = ctFetch /\ ctFetch \in [addr : CtAddrs, method : MethodNames] \cup {CtNoFetch}
  BY DEF CtInv, CtTyped, FormStill
<1>3. ct'.loading = (ctFetch' # CtNoFetch)
  BY <1>2 DEF CtInv
<1> QED
  BY <1>1, <1>2, <1>3, FieldsKeep DEF FormStill

LEMMA TypingKeeps ==
  ASSUME CtInv, SwitchTab \/ TypeDeploy \/ TypeCall \/ CancelRequest
                \/ (\E k \in {"deploy", "call"} : CtRequest(k))
                \/ (\E a \in CtAddrs \cup {"junk"} : TypeAddress(a))
                \/ (\E m \in CtMethods \cup {""} \cup ToSet(ct.list) : TypeMethod(m))
  PROVE  CtInv'
<1>0. ct \in CtForms
  BY DEF CtInv, CtTyped
<1>1. CASE SwitchTab
  <2>1. PICK t \in {"deploy", "call"} : ct' = [ct EXCEPT !.tab = t]
    BY <1>1 DEF SwitchTab
  <2>2. ct' \in CtForms /\ ct'.loading = ct.loading
    BY <1>0, <2>1 DEF CtForms
  <2> QED
    BY <1>1, <2>2, FormsKeep DEF SwitchTab
<1>2. CASE TypeDeploy
  <2>1. PICK source \in BOOLEAN, pin \in BOOLEAN, ou \in FeeTexts :
               ct' = [ct EXCEPT !.source = source, !.pin = pin, !.deployOu = ou]
    BY <1>2 DEF TypeDeploy, FeeTexts
  <2>2. ct' \in CtForms /\ ct'.loading = ct.loading
    BY <1>0, <2>1 DEF CtForms
  <2> QED
    BY <1>2, <2>2, FormsKeep DEF TypeDeploy
<1>3. CASE TypeCall
  <2>1. PICK args \in BOOLEAN, pin \in BOOLEAN, ou \in FeeTexts, amount \in FormAmounts :
               ct' = [ct EXCEPT !.args = args, !.pin = pin, !.callOu = ou, !.amount = amount]
    BY <1>3 DEF TypeCall, FeeTexts, FormAmounts
  <2>2. ct' \in CtForms /\ ct'.loading = ct.loading
    BY <1>0, <2>1 DEF CtForms
  <2> QED
    BY <1>3, <2>2, FormsKeep DEF TypeCall
<1>4. CASE CancelRequest
  <2>1. ct' \in CtForms /\ ct'.loading = ct.loading
    BY <1>0, <1>4 DEF CancelRequest, CtForms
  <2> QED
    BY <1>4, <2>1, FormsKeep DEF CancelRequest
<1>5. ASSUME NEW k \in {"deploy", "call"}, CtRequest(k) PROVE CtInv'
  <2>1. ct' \in CtForms /\ ct'.loading = ct.loading
    BY <1>0, <1>5 DEF CtRequest, CtForms
  <2> QED
    BY <1>5, <2>1, FormsKeep DEF CtRequest
<1>6. ASSUME NEW a \in CtAddrs \cup {"junk"}, TypeAddress(a) PROVE CtInv'
  <2>1. <<>> \in Seq(STRING)
    BY EmptySeq
  <2>2. ct' \in CtForms /\ ct'.loading = ct.loading
    BY <1>0, <1>6, <2>1 DEF TypeAddress, CtForms
  <2> QED
    BY <1>6, <2>2, FormsKeep DEF TypeAddress
<1>7. ASSUME NEW m, TypeMethod(m) PROVE CtInv'
  <2>1. ct.list \in Seq(STRING)
    BY <1>0 DEF CtForms
  <2>2. ToSet(ct.list) \subseteq STRING
    <3> SUFFICES ASSUME NEW s \in Seq(STRING) PROVE ToSet(s) \subseteq STRING
      BY <2>1
    <3>1. \A i \in DOMAIN s : s[i] \in STRING
      BY LenProperties, ElementOfSeq
    <3> QED
      BY <3>1 DEF ToSet
  <2>3. m \in MethodNames
    BY <1>7, <2>2 DEF TypeMethod, MethodNames
  <2>4. ct' \in CtForms /\ ct'.loading = ct.loading
    BY <1>0, <1>7, <2>3 DEF TypeMethod, CtForms
  <2> QED
    BY <1>7, <2>4, FormsKeep DEF TypeMethod
<1> QED
  BY <1>1, <1>2, <1>3, <1>4, <1>5, <1>6, <1>7

LEMMA FetchKeeps ==
  ASSUME CtInv, FetchMethods \/ MethodsArrive
  PROVE  CtInv'
<1>0. ct \in CtForms /\ <<>> \in Seq(STRING)
  BY EmptySeq DEF CtInv, CtTyped
<1>1. CASE FetchMethods
  <2>1. ct' \in CtForms /\ ct'.loading = TRUE
    BY <1>0, <1>1 DEF FetchMethods, CtForms
  <2>2. ctFetch' \in [addr : CtAddrs, method : MethodNames]
    BY <1>0, <1>1 DEF FetchMethods, CtForms
  <2>3. ctFetch' # CtNoFetch
    <3>1. ctFetch'.addr \in CtAddrs /\ CtNoFetch.addr = "none"
      BY <2>2 DEF CtNoFetch
    <3> QED
      BY <3>1, ContractsAssumption
  <2> QED
    BY <1>1, <2>1, <2>2, <2>3, TurnCounts, FieldsKeep DEF FetchMethods
<1>2. CASE MethodsArrive
  <2> DEFINE list == ExtractMethods(AbiOf[ctFetch.addr])
             first == IF list # <<>> /\ ctFetch.method = "" THEN Head(list) ELSE ct.method
  <2>1. ctFetch \in [addr : CtAddrs, method : MethodNames]
    BY <1>2 DEF MethodsArrive, CtInv, CtTyped
  <2>2. list \in Seq(STRING)
    BY <2>1, ExtractedIs
  <2>3. first \in MethodNames
    <3>1. ct.method \in MethodNames
      BY <1>0 DEF CtForms
    <3>2. list # <<>> => Head(list) \in STRING
      BY <2>2, HeadTailProperties
    <3> QED
      BY <3>1, <3>2 DEF MethodNames
  <2>4. \/ ct' = [ct EXCEPT !.loading = FALSE]
        \/ ct' = [ct EXCEPT !.loading = FALSE, !.list = list, !.method = first]
    BY <1>2 DEF MethodsArrive
  <2>5. ct' \in CtForms /\ ct'.loading = FALSE
    <3> HIDE DEF list, first
    <3> QED
      BY <1>0, <2>2, <2>3, <2>4 DEF CtForms
  <2>6. ctTurns' \in Nat /\ ctFetch' = CtNoFetch
    BY <1>2 DEF MethodsArrive, CtInv, CtTyped
  <2> QED
    BY <1>2, <2>5, <2>6, FieldsKeep DEF MethodsArrive
<1> QED
  BY <1>1, <1>2

\* One transaction is begun or goes on.
LEMMA JobKeeps ==
  ASSUME CtInv, NEW j \in CtJobIds, NEW J \in CtJobs, JobWhole(J), ctJob' = [ctJob EXCEPT ![j] = J],
         ct' \in CtForms, ct'.loading = ct.loading, ctModal' \in BOOLEAN, ctStaged' \in [CtAccounts -> Nat],
         UNCHANGED <<ctWallet, ctFetch, ctTurns, view, reading>>
  PROVE  CtInv'
<1>1. ctJob' \in [CtJobIds -> CtJobs \cup {CtNoJob}]
  BY DEF CtInv, CtTyped
<1>2. CtTyped'
  BY <1>1 DEF CtInv, CtTyped
<1>3. \A k \in CtJobIds : ctJob'[k] = IF k = j THEN J ELSE ctJob[k]
  BY DEF CtInv, CtTyped
<1>4. \A k \in CtJobIds : ctJob'[k] # CtNoJob => JobWhole(ctJob'[k])
  BY <1>3 DEF CtInv
<1> QED
  BY <1>2, <1>4 DEF CtInv, JobWhole

LEMMA CtConfirmKeeps ==
  ASSUME CtInv, NEW j \in CtJobIds, CtConfirm(j)
  PROVE  CtInv'
<1>0. ct \in CtForms /\ ctModal \in BOOLEAN /\ ctStaged \in [CtAccounts -> Nat] /\ ctWallet \in CtAccounts
  BY DEF CtInv, CtTyped
<1>1. ct' \in CtForms /\ ct'.loading = ct.loading
  BY <1>0 DEF CtConfirm, CtForms
<1>2. CASE ~MaySend(ct.confirm)
  <2>1. UNCHANGED <<ctWallet, ctJob, ctModal, ctStaged, view, reading, ctFetch, ctTurns>>
    BY <1>2 DEF CtConfirm
  <2> QED
    BY <1>1, <2>1, FormsKeep DEF FormStill
<1>3. CASE MaySend(ct.confirm)
  <2> DEFINE J == [pc |-> IF ct.confirm = "deploy" THEN "compile" ELSE "parse", kind |-> ct.confirm,
                   from |-> ctWallet, to |-> IF ct.confirm = "deploy" THEN ctWallet ELSE ct.addr,
                   method |-> ct.method, args |-> ct.args,
                   amount |-> IF ct.confirm = "deploy" THEN "0" ELSE ct.amount,
                   ou |-> Fee(ct.confirm), nonce |-> 0]
  <2>1. ct.confirm \in {"deploy", "call"}
    BY <1>0 DEF CtConfirm, CtForms
  <2>2. Fee(ct.confirm) \in {"7", "5000000", "100000"}
    BY <1>0 DEF Fee, CtForms, FeeTexts
  <2>3. ct.confirm = "call" => ct.addr \in CtAddrs /\ ct.method # ""
    BY <1>3 DEF MaySend
  <2>4. J \in CtJobs
    BY <1>0, <2>1, <2>2, <2>3 DEF CtJobs, CtForms, FormAmounts
  <2>5. JobWhole(J)
    BY <2>1, <2>3 DEF JobWhole
  <2>6. ctJob' = [ctJob EXCEPT ![j] = J] /\ ctModal' = TRUE
    BY <1>3 DEF CtConfirm
  <2>7. UNCHANGED <<ctWallet, ctFetch, ctStaged, ctTurns, view, reading>>
    BY DEF CtConfirm
  <2> HIDE DEF J
  <2> QED
    BY <1>0, <1>1, <2>4, <2>5, <2>6, <2>7, JobKeeps
<1> QED
  BY <1>2, <1>3

LEMMA JobStepKeeps ==
  ASSUME CtInv, NEW j \in CtJobIds, JobStep(j)
  PROVE  CtInv'
<1> DEFINE J == ctJob[j]
<1>0. /\ ct \in CtForms /\ ctModal \in BOOLEAN /\ ctStaged \in [CtAccounts -> Nat]
      /\ ctJob \in [CtJobIds -> CtJobs \cup {CtNoJob}]
  BY DEF CtInv, CtTyped
<1>1. J \in CtJobs /\ JobWhole(J) /\ UNCHANGED <<ctWallet, ctFetch, ctTurns, view, reading>>
  BY <1>0 DEF JobStep, CtInv
<1>2. ASSUME NEW result \in {0, j}, Ends(j, result), ctStaged' \in [CtAccounts -> Nat] PROVE CtInv'
  <2>1. ctJob' = [ctJob EXCEPT ![j] = [J EXCEPT !.pc = "over"]] /\ ctModal' = FALSE
    BY <1>2 DEF Ends
  <2>2. [J EXCEPT !.pc = "over"] \in CtJobs /\ JobWhole([J EXCEPT !.pc = "over"])
    BY <1>1 DEF CtJobs, JobWhole
  <2>3. ct' \in CtForms /\ ct'.loading = ct.loading
    BY <1>0, <1>2 DEF Ends, CtForms
  <2> QED
    BY <1>1, <1>2, <2>1, <2>2, <2>3, JobKeeps
<1>3. ASSUME NEW K \in CtJobs, JobWhole(K), ctJob' = [ctJob EXCEPT ![j] = K], UNCHANGED <<ct, ctModal, ctStaged>>
      PROVE  CtInv'
  BY <1>0, <1>1, <1>3, JobKeeps
<1>4. CASE J.pc = "compile"
  <2>1. \/ ctJob' = [ctJob EXCEPT ![j] = [J EXCEPT !.pc = "nonce"]] /\ UNCHANGED <<ct, ctModal, ctStaged>>
        \/ Ends(j, 0) /\ UNCHANGED ctStaged
    BY <1>4 DEF JobStep
  <2>2. [J EXCEPT !.pc = "nonce"] \in CtJobs /\ JobWhole([J EXCEPT !.pc = "nonce"])
    BY <1>1, <1>4 DEF CtJobs, JobWhole
  <2> QED
    BY <1>0, <1>2, <1>3, <2>1, <2>2
<1>5. CASE J.pc = "parse"
  <2>1. \/ /\ J.args /\ J.amount # "junk"
           /\ ctJob' = [ctJob EXCEPT ![j] = [J EXCEPT !.pc = "nonce"]] /\ UNCHANGED <<ct, ctModal, ctStaged>>
        \/ Ends(j, 0) /\ UNCHANGED ctStaged
    BY <1>5 DEF JobStep
  <2>2. J.args /\ J.amount # "junk" =>
          [J EXCEPT !.pc = "nonce"] \in CtJobs /\ JobWhole([J EXCEPT !.pc = "nonce"])
    BY <1>1, <1>5 DEF CtJobs, JobWhole
  <2> QED
    BY <1>0, <1>2, <1>3, <2>1, <2>2
<1>6. CASE J.pc = "nonce"
  <2> DEFINE n == ctStaged[J.from] + 1
             K == [J EXCEPT !.pc = "submit", !.nonce = n]
  <2>1. \/ /\ ctJob' = [ctJob EXCEPT ![j].pc = "submit", ![j].nonce = n] /\ UNCHANGED <<ct, ctModal, ctStaged>>
        \/ Ends(j, 0) /\ UNCHANGED ctStaged
    BY <1>6 DEF JobStep
  <2>2. n \in Nat /\ n > 0
    BY <1>0, <1>1 DEF CtJobs
  <2>3. K \in CtJobs /\ JobWhole(K)
    <3> HIDE DEF n
    <3> QED
      BY <1>1, <1>6, <2>2 DEF CtJobs, JobWhole
  <2>4. [ctJob EXCEPT ![j].pc = "submit", ![j].nonce = n] = [ctJob EXCEPT ![j] = K]
    BY <1>0
  <2> QED
    BY <1>0, <1>2, <1>3, <2>1, <2>3, <2>4
<1>7. CASE J.pc = "submit"
  <2>1. \/ ctStaged' = [ctStaged EXCEPT ![J.from] = J.nonce] /\ (Ends(j, j) \/ Ends(j, 0))
        \/ Ends(j, 0) /\ UNCHANGED ctStaged
    BY <1>7 DEF JobStep
  <2>2. ctStaged' \in [CtAccounts -> Nat]
    BY <1>0, <1>1, <2>1 DEF CtJobs
  <2> QED
    BY <1>2, <2>1, <2>2
<1>8. J.pc \in {"compile", "parse", "nonce", "submit"}
  BY <1>1 DEF JobStep, CtJobs
<1> QED
  BY <1>4, <1>5, <1>6, <1>7, <1>8

\* The viewer shows methods of what it shows.
LEMMA ViewsKeep ==
  ASSUME CtInv, NEW v \in CtViews, view' = v, v.methods # <<>> => v.info # "none", ctTurns' \in Nat,
         reading' \subseteq [what : {"info", "storage"}, addr : CtAddrs, turn : Nat], ViewStill
  PROVE  CtInv'
<1>1. CtTyped'
  BY DEF CtInv, CtTyped, ViewStill
<1> QED
  BY <1>1 DEF CtInv, ViewStill

LEMMA ViewerKeeps ==
  ASSUME CtInv, Lookup \/ LookupStorage \/ DismissLookup \/ (\E r \in reading : LookupEnds(r))
                \/ (\E a \in CtAddrs \cup {"junk"} : TypeViewAddress(a))
  PROVE  CtInv'
<1>0. /\ view \in CtViews /\ <<>> \in Seq(STRING) /\ ctTurns \in Nat
      /\ reading \subseteq [what : {"info", "storage"}, addr : CtAddrs, turn : Nat]
      /\ view.methods # <<>> => view.info # "none"
  BY EmptySeq DEF CtInv, CtTyped
<1>1. CASE Lookup
  <2>1. view' \in CtViews /\ view'.methods = <<>>
    BY <1>0, <1>1 DEF Lookup, CtViews
  <2>2. reading' \subseteq [what : {"info", "storage"}, addr : CtAddrs, turn : Nat]
    BY <1>0, <1>1 DEF Lookup
  <2> QED
    BY <1>1, <2>1, <2>2, TurnCounts, ViewsKeep DEF Lookup
<1>2. CASE LookupStorage
  <2>1. view' \in CtViews /\ view'.methods = view.methods /\ view'.info = view.info
    BY <1>0, <1>2 DEF LookupStorage, CtViews
  <2>2. reading' \subseteq [what : {"info", "storage"}, addr : CtAddrs, turn : Nat]
    BY <1>0, <1>2 DEF LookupStorage
  <2> QED
    BY <1>0, <1>2, <2>1, <2>2, TurnCounts, ViewsKeep DEF LookupStorage
<1>3. CASE DismissLookup
  <2>1. view' \in CtViews /\ view'.methods = view.methods /\ view'.info = view.info
    BY <1>0, <1>3 DEF DismissLookup, CtViews
  <2>2. ctTurns' \in Nat /\ reading' = reading
    BY <1>0, <1>3 DEF DismissLookup
  <2> QED
    BY <1>0, <1>3, <2>1, <2>2, ViewsKeep DEF DismissLookup
<1>4. ASSUME NEW r \in reading, LookupEnds(r) PROVE CtInv'
  <2> DEFINE closed == [view EXCEPT !.loading = FALSE]
             list == ExtractMethods(AbiOf[r.addr])
  <2>1. r.addr \in CtAddrs /\ list \in Seq(STRING)
    BY <1>0, ExtractedIs
  <2>2. \/ view' = closed
        \/ view' = [closed EXCEPT !.storage = r.addr]
        \/ view' = [closed EXCEPT !.info = r.addr, !.methods = list]
    BY <1>4 DEF LookupEnds
  <2>3. r.addr # "none"
    BY <2>1, ContractsAssumption
  <2>4. view' \in CtViews /\ (view'.methods # <<>> => view'.info # "none")
    <3> HIDE DEF list
    <3> QED
      BY <1>0, <2>1, <2>2, <2>3 DEF CtViews
  <2>5. ctTurns' \in Nat /\ reading' \subseteq reading
    BY <1>0, <1>4 DEF LookupEnds
  <2> QED
    BY <1>0, <1>4, <2>4, <2>5, ViewsKeep DEF LookupEnds
<1>5. ASSUME NEW a \in CtAddrs \cup {"junk"}, TypeViewAddress(a) PROVE CtInv'
  <2>1. view' \in CtViews /\ view'.methods = view.methods /\ view'.info = view.info
    BY <1>0, <1>5 DEF TypeViewAddress, CtViews
  <2> QED
    BY <1>0, <1>5, <2>1, TurnCounts, ViewsKeep DEF TypeViewAddress
<1> QED
  BY <1>1, <1>2, <1>3, <1>4, <1>5

LEMMA CtStepInv == CtInv /\ [CtNext]_ct_vars => CtInv'
<1> SUFFICES ASSUME CtInv, [CtNext]_ct_vars PROVE CtInv'
  OBVIOUS
<1>1. CASE UNCHANGED ct_vars
  BY <1>1 DEF ct_vars, CtInv, CtTyped, JobWhole
<1>2. ASSUME NEW a \in CtAccounts, SwitchWallet(a) PROVE CtInv'
  <2>1. CtTyped'
    BY <1>2, TurnCounts DEF SwitchWallet, CtInv, CtTyped
  <2> QED
    BY <1>2, <2>1 DEF SwitchWallet, CtInv, JobWhole
<1>3. CASE DismissModal
  <2>1. CtTyped'
    BY <1>3 DEF DismissModal, CtInv, CtTyped
  <2> QED
    BY <1>3, <2>1 DEF DismissModal, CtInv, JobWhole
<1> QED
  BY <1>1, <1>2, <1>3, TypingKeeps, FetchKeeps, CtConfirmKeeps, JobStepKeeps, ViewerKeeps DEF CtNext

\* No transaction is submitted but what a form that could be sent held when its dialog was
\* confirmed, however many others are under way and whatever is typed meanwhile.
THEOREM OnlyWholeFormsSent == CtSpec => []CtTypeOK
<1>1. CtInv => CtTypeOK
  <2> SUFFICES ASSUME CtInv PROVE CtTypeOK
    OBVIOUS
  <2>1. ct \in CtForms /\ ctWallet \in CtAccounts
    BY DEF CtInv, CtTyped
  <2>2. \A j \in CtJobIds : ctJob[j] # CtNoJob => ctJob[j] \in CtJobs /\ JobWhole(ctJob[j])
    BY DEF CtInv, CtTyped
  <2> QED
    BY <2>1, <2>2 DEF CtInv, CtTypeOK, CtForms, CtJobs, JobWhole
<1> QED
  BY <1>1, CtInitInv, CtStepInv, PTL DEF CtSpec

=============================================================================
