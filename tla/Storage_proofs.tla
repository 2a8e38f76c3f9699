--------------------------- MODULE Storage_proofs ---------------------------
(***************************************************************************)
(* What is kept on the device: the database, the settings and the          *)
(* accounts; and the pace at which PINs are guessed at the screens.        *)
(***************************************************************************)
EXTENDS WalletDb, Settings, Accounts, UnlockScreen, TLAPS

-----------------------------------------------------------------------------
(***************************************************************************)
(* WalletDb. A cached connection serves whatever was opened, given up,     *)
(* closed or forgotten before, for any stores and any number of attempts.  *)
(***************************************************************************)

Landed == {"migrating", "resolved"}
DbRecs ==
  [pc : {"free", "opening", "pause", "rejected"} \cup Landed, tries : Nat,
   req : {0} \cup Requests, copy : {"none", "count", "probe", "done"} \cup DbStores,
   closes : BOOLEAN]

DbTyped ==
  /\ request \in [Requests -> {"free", "queued", "open"}] /\ doomed \in SUBSET Requests
  /\ pendingOpen \in {0} \cup Requests /\ dbPromise \in {0} \cup Gets
  /\ attempt \in [Gets -> DbRecs]

\* The request that others join is under way and not to be closed, and so are those
\* that closeDb is going to close.
RequestsQueued ==
  /\ pendingOpen # 0 => request[pendingOpen] = "queued" /\ pendingOpen \notin doomed
  /\ \A r \in doomed : request[r] = "queued"

\* An attempt waits for a request that is under way or has one that has landed; only then
\* does it migrate.
Backed(a) ==
  /\ attempt[a].pc = "opening" => attempt[a].req # 0 /\ request[attempt[a].req] = "queued"
  /\ attempt[a].pc \in Landed => attempt[a].req # 0 /\ request[attempt[a].req] # "queued"
  /\ attempt[a].pc \notin {"opening"} \cup Landed => attempt[a].req = 0
  /\ attempt[a].copy # "none" => attempt[a].pc \in Landed

\* What is cached waits for the request that others join, or was given its connection, and
\* is not to be closed.
CachedIsLive ==
  dbPromise # 0 =>
    /\ attempt[dbPromise].pc \notin {"free", "rejected"} /\ ~attempt[dbPromise].closes
    /\ attempt[dbPromise].pc = "opening" => attempt[dbPromise].req = pendingOpen
    /\ attempt[dbPromise].pc \in Landed =>
         Connected(dbPromise) \/ ClosedByForgotten(dbPromise)

DbInv == DbTyped /\ RequestsQueued /\ CachedIsLive /\ \A a \in Gets : Backed(a)
-----------------------------------------------------------------------------

\* No attempt is an attempt, and 0 is no request.
LEMMA DbTypes ==
  /\ 0 \notin Requests /\ 0 \notin Gets
  /\ NoAttempt \in DbRecs /\ NoAttempt.req = 0 /\ NoAttempt.copy = "none"
  /\ NoAttempt.pc = "free" /\ ~NoAttempt.closes
<1>1. 0 \notin Requests /\ 0 \notin Gets
  BY DEF Requests, Gets
<1> QED
  BY <1>1 DEF NoAttempt, DbRecs

\* No request and no attempt at first.
LEMMA DbInitInv == DbInit => DbInv
<1> SUFFICES ASSUME DbInit PROVE DbInv
  OBVIOUS
<1>1. DbTyped
  BY DbTypes DEF DbInit, DbTyped
<1>2. RequestsQueued /\ CachedIsLive
  BY DEF DbInit, RequestsQueued, CachedIsLive
<1>3. \A a \in Gets : Backed(a)
  BY DbTypes DEF DbInit, Backed, Landed
<1> QED
  BY <1>1, <1>2, <1>3 DEF DbInv

\* A step that leaves the bookkeeping alone.
LEMMA QuietDb ==
  ASSUME DbInv, UNCHANGED <<request, doomed, pendingOpen, dbPromise, attempt>>
  PROVE  DbInv'
<1>1. DbTyped' /\ RequestsQueued'
  BY DEF DbInv, DbTyped, RequestsQueued
<1>2. CachedIsLive'
  BY DEF DbInv, CachedIsLive, Connected, ClosedByForgotten
<1>3. \A a \in Gets : Backed(a)'
  BY DEF DbInv, Backed
<1> QED
  BY <1>1, <1>2, <1>3 DEF DbInv

\* A connection closed by a forgotten attempt stays explained: whoever has the connection
\* keeps it and will not unlearn that it closes it.
LEMMA ForgottenStays ==
  ASSUME DbInv, dbPromise # 0, attempt[dbPromise].pc \in Landed, UNCHANGED dbPromise,
         ClosedByForgotten(dbPromise),
         \A b \in Gets : attempt[b].pc \in Landed
                           => /\ attempt'[b].req = attempt[b].req
                              /\ attempt[b].closes => attempt'[b].closes
  PROVE  ClosedByForgotten(dbPromise)'
<1>1. dbPromise \in Gets
  BY DEF DbInv, DbTyped
<1>2. PICK b \in Gets : b # dbPromise /\ attempt[b].closes
                        /\ attempt[b].req = attempt[dbPromise].req
  BY DEF ClosedByForgotten
<1>3. attempt[b].pc \in Landed
  BY <1>1, <1>2 DEF DbInv, Backed
<1> QED
  BY <1>1, <1>2, <1>3 DEF ClosedByForgotten

-----------------------------------------------------------------------------
(* What becomes of a request.                                              *)

\* A request lands: all that wait for it have its connection.
LEMMA LandsKeeps ==
  ASSUME DbInv, NEW r \in Requests, RequestLands(r) PROVE DbInv'
<1>1. /\ request[r] = "queued" /\ pendingOpen' = Cleared(r) /\ UNCHANGED dbPromise
      /\ request' = [request EXCEPT ![r] = IF r \in doomed THEN "free" ELSE "open"]
      /\ doomed' = doomed \ {r}
  BY DEF RequestLands
<1>2. /\ request'[r] = IF r \in doomed THEN "free" ELSE "open"
      /\ \A q \in Requests \ {r} : request'[q] = request[q]
      /\ request' \in [Requests -> {"free", "queued", "open"}]
  BY <1>1 DEF DbInv, DbTyped
<1>3. ASSUME NEW a \in Waiting(r)
      PROVE  /\ attempt'[a] \in DbRecs /\ attempt'[a].pc = "migrating"
             /\ attempt'[a].copy = "count" /\ attempt'[a].req = attempt[a].req
             /\ attempt'[a].closes = attempt[a].closes
             /\ attempt[a].pc = "opening" /\ attempt[a].req = r /\ a \in Gets
  <2>1. a \in Gets /\ attempt[a].pc = "opening" /\ attempt[a].req = r /\ attempt[a] \in DbRecs
    BY DEF Waiting, DbInv, DbTyped
  <2>2. attempt'[a] = [attempt[a] EXCEPT !.pc = "migrating", !.copy = "count"]
    BY <2>1 DEF RequestLands
  <2> QED
    BY <2>1, <2>2 DEF DbRecs, Landed
<1>4. \A a \in Gets \ Waiting(r) : attempt'[a] = attempt[a]
  BY DEF RequestLands
<1>5. DbTyped'
  <2>1. attempt' \in [Gets -> DbRecs]
    <3>1. \A a \in Gets : attempt'[a] \in DbRecs
      BY <1>3, <1>4 DEF DbInv, DbTyped
    <3> QED
      BY <3>1 DEF RequestLands
  <2> QED
    BY <1>1, <1>2, <2>1 DEF DbInv, DbTyped, Cleared
<1>6. RequestsQueued'
  BY <1>1, <1>2 DEF DbInv, DbTyped, RequestsQueued, Cleared
<1>7. ASSUME NEW a \in Gets PROVE Backed(a)'
  <2>1. CASE a \in Waiting(r)
    BY <1>2, <1>3, <2>1, DbTypes DEF Backed, Landed
  <2>2. CASE a \notin Waiting(r)
    <3>1. attempt'[a] = attempt[a] /\ attempt[a].req \in {0} \cup Requests /\ Backed(a)
      BY <1>4, <2>2 DEF DbInv, DbTyped, DbRecs
    <3>2. attempt[a].pc \in {"opening"} \cup Landed => attempt[a].req # r
      BY <1>1, <2>2, <3>1 DEF Backed, Waiting, Landed
    <3> QED
      BY <1>2, <3>1, <3>2 DEF Backed
  <2> QED
    BY <2>1, <2>2
<1>8. CachedIsLive'
  <2> SUFFICES ASSUME dbPromise # 0 PROVE CachedIsLive'
    BY <1>1 DEF CachedIsLive
  <2>1. /\ dbPromise \in Gets /\ Backed(dbPromise) /\ CachedIsLive
        /\ attempt[dbPromise].req \in {0} \cup Requests
    BY DEF DbInv, DbTyped, DbRecs
  <2>2. CASE dbPromise \in Waiting(r)
    <3>1. r = pendingOpen /\ r \notin doomed
      BY <1>3, <2>1, <2>2, DbTypes DEF CachedIsLive, DbInv, RequestsQueued
    <3>2. Connected(dbPromise)'
      BY <1>1, <1>2, <1>3, <2>2, <3>1 DEF Connected
    <3> QED
      BY <1>1, <1>3, <2>1, <2>2, <3>2 DEF CachedIsLive, Landed
  <2>3. CASE dbPromise \notin Waiting(r)
    <3>1. attempt'[dbPromise] = attempt[dbPromise]
      BY <1>4, <2>1, <2>3
    <3>2. attempt[dbPromise].pc \in {"opening"} \cup Landed => attempt[dbPromise].req # r
      BY <1>1, <2>1, <2>3 DEF Backed, Waiting, Landed
    <3>3. attempt[dbPromise].pc = "opening" => attempt[dbPromise].req = pendingOpen'
      BY <1>1, <2>1, <3>2 DEF CachedIsLive, Cleared
    <3>4. ASSUME attempt[dbPromise].pc \in Landed
          PROVE  Connected(dbPromise)' \/ ClosedByForgotten(dbPromise)'
      <4>1. CASE Connected(dbPromise)
        <5>1. attempt[dbPromise].req \in Requests \ {r}
          BY <2>1, <3>2, <3>4 DEF Backed
        <5> QED
          BY <1>1, <1>2, <3>1, <4>1, <5>1 DEF Connected
      <4>2. CASE ClosedByForgotten(dbPromise)
        <5>1. \A b \in Gets : attempt[b].pc \in Landed
                              => /\ attempt'[b].req = attempt[b].req
                                 /\ attempt[b].closes => attempt'[b].closes
          BY <1>3, <1>4
        <5> QED
          BY <1>1, <3>4, <4>2, <5>1, ForgottenStays
      <4> QED
        BY <2>1, <3>4, <4>1, <4>2 DEF CachedIsLive
    <3> QED
      BY <1>1, <2>1, <3>1, <3>3, <3>4 DEF CachedIsLive
  <2> QED
    BY <2>2, <2>3
<1> QED
  BY <1>5, <1>6, <1>7, <1>8 DEF DbInv

\* The attempts in A failed: they pause or have rejected, and then are not cached.
GaveUp(A) ==
  /\ attempt' \in [Gets -> DbRecs] /\ dbPromise' \in {0, dbPromise}
  /\ \A a \in A : /\ attempt'[a].pc \in {"pause", "rejected"} /\ attempt'[a].req = 0
                  /\ attempt'[a].copy = "none"
                  /\ dbPromise' = a => /\ attempt'[a].pc = "pause"
                                       /\ attempt'[a].closes = attempt[a].closes
  /\ \A a \in Gets \ A : attempt'[a] = attempt[a]

\* Of the attempts that are given up some pause and the others reject.
LEMMA GiveUpGaveUp ==
  ASSUME DbInv, NEW A \in SUBSET Gets, \A a \in A : attempt[a].pc = "opening", GiveUp(A)
  PROVE  GaveUp(A)
<1> DEFINE last == {a \in A : attempt[a].tries = DbAttempts}
           gone == [NoAttempt EXCEPT !.pc = "rejected"]
<1>1. gone \in DbRecs /\ gone.pc = "rejected" /\ gone.req = 0 /\ gone.copy = "none"
  BY DbTypes DEF DbRecs
<1>2. dbPromise' = IF dbPromise \in last THEN 0 ELSE dbPromise
  BY DEF GiveUp
<1>3. ASSUME NEW a \in A
      PROVE  /\ attempt'[a] \in DbRecs /\ attempt'[a].req = 0 /\ attempt'[a].copy = "none"
             /\ attempt'[a].pc \in {"pause", "rejected"}
             /\ a \notin last => /\ attempt'[a].pc = "pause"
                                 /\ attempt'[a].closes = attempt[a].closes
  <2>1. attempt[a] \in DbRecs /\ attempt[a].copy = "none" /\ a \in Gets
    BY DEF DbInv, DbTyped, Backed, Landed
  <2>2. attempt'[a] = IF a \in last THEN gone ELSE [attempt[a] EXCEPT !.pc = "pause", !.req = 0]
    BY <2>1 DEF GiveUp
  <2> HIDE DEF gone
  <2> QED
    BY <1>1, <2>1, <2>2 DEF DbRecs, Landed
<1>4. \A a \in Gets \ A : attempt'[a] = attempt[a]
  BY DEF GiveUp
<1>5. attempt' \in [Gets -> DbRecs]
  <2>1. \A a \in Gets : attempt'[a] \in DbRecs
    BY <1>3, <1>4 DEF DbInv, DbTyped
  <2> QED
    BY <2>1 DEF GiveUp
<1>6. ASSUME NEW a \in A, dbPromise' = a PROVE a \notin last
  <2>1. a # 0
    BY DbTypes
  <2> QED
    BY <1>2, <1>6, <2>1
<1> HIDE DEF last
<1>7. dbPromise' \in {0, dbPromise}
  BY <1>2
<1> QED
  BY <1>3, <1>4, <1>5, <1>6, <1>7 DEF GaveUp

\* Of what failed nothing is left that waits; a request that fails had only these waiting.
LEMMA GaveUpKeeps ==
  ASSUME DbInv, NEW A \in SUBSET Gets, \A a \in A : attempt[a].pc = "opening", GaveUp(A),
         \/ UNCHANGED <<request, doomed, pendingOpen>>
         \/ \E r \in Requests : /\ A = Waiting(r) /\ request[r] = "queued"
                                /\ request' = [request EXCEPT ![r] = "free"]
                                /\ pendingOpen' = Cleared(r) /\ doomed' = doomed \ {r}
  PROVE  DbInv'
<1>1. request' \in [Requests -> {"free", "queued", "open"}] /\ doomed' \in SUBSET Requests
      /\ pendingOpen' \in {0} \cup Requests
  BY DEF DbInv, DbTyped, Cleared
<1>2. DbTyped'
  BY <1>1 DEF DbInv, DbTyped, GaveUp
<1>3. RequestsQueued'
  BY DEF DbInv, DbTyped, RequestsQueued, Cleared
<1>4. ASSUME NEW a \in Gets \ A
      PROVE  /\ attempt[a].pc = "opening" =>
                  /\ request'[attempt[a].req] = request[attempt[a].req]
                  /\ attempt[a].req = pendingOpen => attempt[a].req = pendingOpen'
             /\ attempt[a].pc \in Landed =>
                  request'[attempt[a].req] = request[attempt[a].req]
  <2>1. attempt[a].req \in {0} \cup Requests /\ Backed(a)
    BY DEF DbInv, DbTyped, DbRecs
  <2>2. CASE UNCHANGED <<request, doomed, pendingOpen>>
    BY <2>2
  <2>3. CASE ~UNCHANGED <<request, doomed, pendingOpen>>
    <3>0. PICK r \in Requests : /\ A = Waiting(r) /\ request[r] = "queued"
                                /\ request' = [request EXCEPT ![r] = "free"]
                                /\ pendingOpen' = Cleared(r)
      BY <2>3
    <3>1. attempt[a].pc \in {"opening"} \cup Landed => attempt[a].req \in Requests \ {r}
      BY <2>1, <3>0 DEF Waiting, Backed, Landed
    <3>2. \A q \in Requests \ {r} : request'[q] = request[q]
      BY <3>0 DEF DbInv, DbTyped
    <3> QED
      BY <3>0, <3>1, <3>2 DEF Cleared
  <2> QED
    BY <2>2, <2>3
<1>5. ASSUME NEW a \in Gets PROVE Backed(a)'
  <2>1. CASE a \in A
    BY <2>1 DEF GaveUp, Backed, Landed
  <2>2. CASE a \notin A
    <3>1. attempt'[a] = attempt[a] /\ Backed(a)
      BY <2>2 DEF GaveUp, DbInv
    <3> QED
      BY <1>4, <2>2, <3>1 DEF Backed
  <2> QED
    BY <2>1, <2>2
<1>6. CachedIsLive'
  <2> SUFFICES ASSUME dbPromise' # 0 PROVE CachedIsLive'
    BY DEF CachedIsLive
  <2>1. dbPromise' = dbPromise /\ dbPromise \in Gets /\ CachedIsLive
    BY DEF GaveUp, DbInv, DbTyped
  <2>2. CASE dbPromise \in A
    <3>1. /\ attempt'[dbPromise].pc = "pause"
          /\ attempt'[dbPromise].closes = attempt[dbPromise].closes
      BY <2>1, <2>2 DEF GaveUp
    <3> QED
      BY <2>1, <3>1 DEF CachedIsLive, Landed
  <2>3. CASE dbPromise \notin A
    <3>1. attempt'[dbPromise] = attempt[dbPromise]
      BY <2>1, <2>3 DEF GaveUp
    <3>2. ASSUME attempt[dbPromise].pc \in Landed
          PROVE  Connected(dbPromise)' \/ ClosedByForgotten(dbPromise)'
      <4>1. CASE Connected(dbPromise)
        BY <1>4, <2>1, <2>3, <3>1, <3>2, <4>1 DEF Connected
      <4>2. CASE ClosedByForgotten(dbPromise)
        <5>1. \A b \in Gets : attempt[b].pc \in Landed => attempt'[b] = attempt[b]
          BY DEF GaveUp, Landed
        <5> QED
          BY <2>1, <3>2, <4>2, <5>1, ForgottenStays
      <4> QED
        BY <2>1, <3>2, <4>1, <4>2 DEF CachedIsLive
    <3> QED
      BY <1>4, <2>1, <2>3, <3>1, <3>2 DEF CachedIsLive
  <2> QED
    BY <2>2, <2>3
<1> QED
  BY <1>2, <1>3, <1>5, <1>6 DEF DbInv

\* A request fails, and so do all that wait for it.
LEMMA FailsKeeps ==
  ASSUME DbInv, NEW r \in Requests, RequestFails(r) PROVE DbInv'
<1>1. Waiting(r) \in SUBSET Gets /\ \A a \in Waiting(r) : attempt[a].pc = "opening"
  BY DEF Waiting
<1>2. GaveUp(Waiting(r))
  BY <1>1, GiveUpGaveUp DEF RequestFails
<1> QED
  BY <1>1, <1>2, GaveUpKeeps DEF RequestFails

\* openDbWithTimeout's deadline, of a blocked upgrade or another.
LEMMA DeadlineKeeps ==
  ASSUME DbInv, NEW a \in Gets, OpenDeadline(a) PROVE DbInv'
<1>1. /\ attempt[a].pc = "opening" /\ {a} \in SUBSET Gets
      /\ UNCHANGED <<request, doomed, pendingOpen>>
  BY DEF OpenDeadline
<1>2. CASE ~openBlocked
  <2>1. GaveUp({a})
    BY <1>1, <1>2, GiveUpGaveUp DEF OpenDeadline
  <2> QED
    BY <1>1, <2>1, GaveUpKeeps
<1>3. CASE openBlocked
  <2> DEFINE gone == [NoAttempt EXCEPT !.pc = "rejected"]
  <2>1. gone \in DbRecs /\ gone.pc = "rejected" /\ gone.req = 0 /\ gone.copy = "none"
    BY DbTypes DEF DbRecs
  <2>2. attempt' = [attempt EXCEPT ![a] = gone]
        /\ dbPromise' = IF dbPromise = a THEN 0 ELSE dbPromise
    BY <1>3 DEF OpenDeadline
  <2> HIDE DEF gone
  <2>3. a # 0
    BY DbTypes
  <2>4. GaveUp({a})
    BY <2>1, <2>2, <2>3 DEF GaveUp, DbInv, DbTyped
  <2> QED
    BY <1>1, <2>4, GaveUpKeeps
<1> QED
  BY <1>2, <1>3

\* A connection that gives way or is dropped is no longer cached.
LEMMA ClosedKeeps ==
  ASSUME DbInv, NEW r \in Requests, Blocking(r) \/ Terminated(r) PROVE DbInv'
<1>1. /\ request[r] = "open" /\ request' = [request EXCEPT ![r] = "free"]
      /\ dbPromise' = 0 /\ pendingOpen' \in {0, pendingOpen} /\ UNCHANGED <<doomed, attempt>>
  BY DEF Blocking, Terminated, Cleared
<1>2. DbTyped' /\ RequestsQueued' /\ CachedIsLive'
  BY <1>1 DEF DbInv, DbTyped, RequestsQueued, CachedIsLive
<1>3. ASSUME NEW a \in Gets PROVE Backed(a)'
  <2>1. attempt[a].req \in {0} \cup Requests /\ Backed(a)
    BY DEF DbInv, DbTyped, DbRecs
  <2> QED
    BY <1>1, <2>1 DEF Backed, DbInv, DbTyped
<1> QED
  BY <1>2, <1>3 DEF DbInv
-----------------------------------------------------------------------------
(* The attempts.                                                           *)

\* getDb's first try and every later one: whoever is cached joins or started the request.
LEMMA OpensKeeps ==
  ASSUME DbInv, NEW a \in Gets, NEW r \in Requests, OpenRequest(r), NEW n \in DbRecs,
         n.pc = "opening", n.req = r, n.copy = "none", attempt[a].pc \in {"free", "pause"},
         attempt' = [attempt EXCEPT ![a] = n], UNCHANGED doomed,
         \/ dbPromise = 0 /\ dbPromise' = a /\ ~n.closes
         \/ dbPromise' = dbPromise /\ n.closes = attempt[a].closes
  PROVE  DbInv'
<1>0. /\ r # 0 /\ a # 0 /\ a \notin Waiting(r) /\ attempt[a].pc \notin Landed
      /\ attempt'[a] = n /\ \A b \in Gets \ {a} : attempt'[b] = attempt[b]
  BY DbTypes DEF DbInv, DbTyped, Waiting, Landed
<1>1. /\ pendingOpen' = r /\ request'[r] = "queued" /\ r \notin doomed
      /\ request' \in [Requests -> {"free", "queued", "open"}]
      /\ \A q \in Requests \ {r} : request'[q] = request[q]
  <2>1. CASE pendingOpen # 0
    BY <2>1 DEF OpenRequest, DbInv, DbTyped, RequestsQueued
  <2>2. CASE pendingOpen = 0
    BY <2>2 DEF OpenRequest, Unused, DbInv, DbTyped, RequestsQueued
  <2> QED
    BY <2>1, <2>2
<1>2. \/ pendingOpen = r /\ request[r] = "queued"
      \/ pendingOpen = 0 /\ Unused(r)
  BY DEF OpenRequest, DbInv, RequestsQueued
<1>3. DbTyped'
  BY <1>1 DEF DbInv, DbTyped
<1>4. RequestsQueued'
  BY <1>1 DEF RequestsQueued, DbInv, DbTyped
<1>5. ASSUME NEW b \in Gets, b # a
      PROVE  /\ attempt[b].pc \in Landed => request'[attempt[b].req] = request[attempt[b].req]
             /\ attempt[b].pc = "opening" => request'[attempt[b].req] = "queued"
  <2>1. Backed(b) /\ attempt[b].req \in {0} \cup Requests
    BY DEF DbInv, DbTyped, DbRecs
  <2>2. attempt[b].pc \in Landed => attempt[b].req \in Requests \ {r}
    BY <1>2, <2>1 DEF Backed, Unused
  <2> QED
    BY <1>1, <2>1, <2>2 DEF Backed
<1>6. ASSUME NEW b \in Gets PROVE Backed(b)'
  <2>1. CASE b = a
    BY <1>0, <1>1, <2>1 DEF Backed, Landed
  <2>2. CASE b # a
    BY <1>0, <1>5, <2>2 DEF DbInv, Backed
  <2> QED
    BY <2>1, <2>2
<1>7. CachedIsLive'
  <2> SUFFICES ASSUME dbPromise' # 0 PROVE CachedIsLive'
    BY DEF CachedIsLive
  <2>1. CASE dbPromise' = a
    <3>1. ~n.closes
      BY <1>0, <2>1 DEF DbInv, CachedIsLive
    <3> QED
      BY <1>0, <1>1, <2>1, <3>1 DEF CachedIsLive, Landed
  <2>2. CASE dbPromise' # a
    <3>1. dbPromise' = dbPromise /\ dbPromise \in Gets /\ CachedIsLive /\ Backed(dbPromise)
          /\ attempt'[dbPromise] = attempt[dbPromise]
      BY <1>0, <2>2 DEF DbInv, DbTyped
    <3>2. attempt[dbPromise].pc = "opening" => attempt[dbPromise].req = pendingOpen'
      BY <1>1, <1>2, <3>1 DEF CachedIsLive, Backed
    <3>3. ASSUME attempt[dbPromise].pc \in Landed
          PROVE  Connected(dbPromise)' \/ ClosedByForgotten(dbPromise)'
      <4>1. CASE Connected(dbPromise)
        BY <1>5, <2>2, <3>1, <3>3, <4>1 DEF Connected
      <4>2. CASE ClosedByForgotten(dbPromise)
        <5>1. \A b \in Gets : attempt[b].pc \in Landed => attempt'[b] = attempt[b]
          BY <1>0
        <5> QED
          BY <3>1, <3>3, <4>2, <5>1, ForgottenStays
      <4> QED
        BY <3>1, <3>3, <4>1, <4>2 DEF CachedIsLive
    <3> QED
      BY <3>1, <3>2, <3>3 DEF CachedIsLive
  <2> QED
    BY <2>1, <2>2
<1> QED
  BY <1>3, <1>4, <1>6, <1>7 DEF DbInv

\* getDb joins the request that is under way or makes one.
LEMMA GetsKeeps ==
  ASSUME DbInv, NEW a \in Gets, NEW r \in Requests, GetDb(a, r) \/ OpenAgain(a, r)
  PROVE  DbInv'
<1>0. attempt[a] \in DbRecs
  BY DEF DbInv, DbTyped
<1>1. CASE GetDb(a, r)
  <2> DEFINE n == [NoAttempt EXCEPT !.pc = "opening", !.tries = 1, !.req = r]
  <2>1. n \in DbRecs /\ n.pc = "opening" /\ n.req = r /\ n.copy = "none" /\ ~n.closes
    BY DbTypes DEF DbRecs
  <2>2. attempt' = [attempt EXCEPT ![a] = n]
    BY <1>1 DEF GetDb
  <2> HIDE DEF n
  <2> QED
    BY <1>1, <2>1, <2>2, OpensKeeps DEF GetDb
<1>2. CASE OpenAgain(a, r)
  <2>0. PICK k \in Nat : k = attempt[a].tries + 1
    BY <1>0 DEF DbRecs
  <2> DEFINE n == [attempt[a] EXCEPT !.pc = "opening", !.tries = k, !.req = r]
  <2>1. attempt[a].pc = "pause" /\ attempt[a].copy = "none"
    BY <1>2 DEF OpenAgain, DbInv, Backed, Landed
  <2>2. /\ n \in DbRecs /\ n.pc = "opening" /\ n.req = r /\ n.copy = "none"
        /\ n.closes = attempt[a].closes
    BY <1>0, <2>1 DEF DbRecs
  <2>3. attempt' = [attempt EXCEPT ![a] = n]
    BY <1>2, <2>0 DEF OpenAgain, DbInv, DbTyped
  <2> HIDE DEF n
  <2> QED
    BY <1>2, <2>1, <2>2, <2>3, OpensKeeps DEF OpenAgain
<1> QED
  BY <1>1, <1>2

\* An attempt that has its connection goes on; one that closeDb forgot closes it.
LEMMA LandedMoves ==
  ASSUME DbInv, NEW a \in Gets, attempt[a].pc \in Landed, NEW n \in DbRecs, n.pc \in Landed,
         n.req = attempt[a].req, n.closes = attempt[a].closes,
         attempt' = [attempt EXCEPT ![a] = n],
         \/ UNCHANGED request
         \/ attempt[a].closes /\ request' = [request EXCEPT ![attempt[a].req] = "free"],
         UNCHANGED <<doomed, pendingOpen, dbPromise>>
  PROVE  DbInv'
<1>0. attempt'[a] = n /\ \A b \in Gets \ {a} : attempt'[b] = attempt[b]
  BY DEF DbInv, DbTyped
<1>1. attempt[a].req \in Requests /\ request[attempt[a].req] # "queued"
  BY DEF DbInv, DbTyped, Backed, DbRecs
<1>2. /\ request' \in [Requests -> {"free", "queued", "open"}]
      /\ \A q \in Requests : (request'[q] = "queued") = (request[q] = "queued")
      /\ \A q \in Requests : \/ request'[q] = request[q]
                             \/ q = attempt[a].req /\ attempt[a].closes
  BY <1>1 DEF DbInv, DbTyped
<1>3. DbTyped'
  BY <1>2 DEF DbInv, DbTyped
<1>4. RequestsQueued'
  BY <1>2 DEF DbInv, DbTyped, RequestsQueued
<1>5. ASSUME NEW b \in Gets PROVE Backed(b)'
  <2>1. Backed(b) /\ attempt[b].req \in {0} \cup Requests
    BY DEF DbInv, DbTyped, DbRecs
  <2>2. CASE b = a
    BY <1>0, <1>1, <1>2, <2>1, <2>2, DbTypes DEF Backed, Landed
  <2>3. CASE b # a
    BY <1>0, <1>2, <2>1, <2>3 DEF Backed
  <2> QED
    BY <2>2, <2>3
<1>6. CachedIsLive'
  <2> SUFFICES ASSUME dbPromise # 0 PROVE CachedIsLive'
    BY DEF CachedIsLive
  <2>1. /\ dbPromise \in Gets /\ CachedIsLive /\ Backed(dbPromise)
        /\ attempt[dbPromise].req \in {0} \cup Requests
    BY DEF DbInv, DbTyped, DbRecs
  <2>2. /\ attempt'[dbPromise].req = attempt[dbPromise].req
        /\ attempt'[dbPromise].closes = attempt[dbPromise].closes
        /\ dbPromise # a => attempt'[dbPromise] = attempt[dbPromise]
    BY <1>0, <2>1
  <2>3. ASSUME attempt[dbPromise].pc \in Landed
        PROVE  Connected(dbPromise)' \/ ClosedByForgotten(dbPromise)'
    <3>1. CASE Connected(dbPromise)
      <4>1. attempt[dbPromise].req \in Requests
        BY <2>1, <2>3 DEF Backed
      <4>2. CASE request'[attempt[dbPromise].req] = request[attempt[dbPromise].req]
        BY <2>2, <3>1, <4>2 DEF Connected
      <4>3. CASE attempt[dbPromise].req = attempt[a].req /\ attempt[a].closes
        BY <1>0, <2>1, <2>2, <4>3 DEF ClosedByForgotten, CachedIsLive
      <4> QED
        BY <1>2, <4>1, <4>2, <4>3
    <3>2. CASE ClosedByForgotten(dbPromise)
      <4>1. \A b \in Gets : attempt'[b].req = attempt[b].req
                            /\ attempt'[b].closes = attempt[b].closes
        BY <1>0
      <4> QED
        BY <2>3, <3>2, <4>1, ForgottenStays
    <3> QED
      BY <2>1, <2>3, <3>1, <3>2 DEF CachedIsLive
  <2> QED
    BY <1>0, <2>1, <2>2, <2>3 DEF CachedIsLive, Landed
<1> QED
  BY <1>3, <1>4, <1>5, <1>6 DEF DbInv

\* An attempt resolves: what it caches it has.
LEMMA ResolveKeeps ==
  ASSUME DbInv, NEW a \in Gets, attempt[a].pc \in Landed,
         NEW c \in {"none", "count", "probe", "done"} \cup DbStores, Resolve(a, c),
         UNCHANGED <<doomed, pendingOpen, dbPromise>>
  PROVE  DbInv'
<1> DEFINE n == [attempt[a] EXCEPT !.pc = IF @ = "migrating" THEN "resolved" ELSE @, !.copy = c]
<1>1. attempt[a] \in DbRecs
  BY DEF DbInv, DbTyped
<1>2. /\ n \in DbRecs /\ n.pc \in Landed /\ n.req = attempt[a].req
      /\ n.closes = attempt[a].closes
  BY <1>1 DEF DbRecs, Landed
<1>3. attempt' = [attempt EXCEPT ![a] = n]
  BY DEF Resolve, DbInv, DbTyped
<1> HIDE DEF n
<1>4. \/ UNCHANGED request
      \/ attempt[a].closes /\ request' = [request EXCEPT ![attempt[a].req] = "free"]
  BY DEF Resolve
<1> QED
  BY <1>2, <1>3, <1>4, LandedMoves

\* The copy of the old database goes on under the same connection.
LEMMA CopyGoes ==
  ASSUME DbInv, NEW a \in Gets, attempt[a].pc \in Landed,
         NEW c \in {"none", "count", "probe", "done"} \cup DbStores,
         attempt' = [attempt EXCEPT ![a].copy = c],
         UNCHANGED <<request, doomed, pendingOpen, dbPromise>>
  PROVE  DbInv'
<1> DEFINE n == [attempt[a] EXCEPT !.copy = c]
<1>1. attempt[a] \in DbRecs
  BY DEF DbInv, DbTyped
<1>2. /\ n \in DbRecs /\ n.pc \in Landed /\ n.req = attempt[a].req
      /\ n.closes = attempt[a].closes
  BY <1>1 DEF DbRecs
<1>3. attempt' = [attempt EXCEPT ![a] = n]
  BY DEF DbInv, DbTyped
<1> HIDE DEF n
<1> QED
  BY <1>2, <1>3, LandedMoves

\* The migration, which a deadline may end at any step.
LEMMA MigrationKeeps ==
  ASSUME DbInv, NEW a \in Gets,
         MigrationDeadline(a) \/ CountWallets(a) \/ DatabaseExists(a) \/ CopyStore(a)
  PROVE  DbInv'
<1>0. /\ "wallets" \in DbStores /\ "none" \notin DbStores
      /\ "probe" \in {"none", "count", "probe", "done"} \cup DbStores
      /\ "done" \in {"none", "count", "probe", "done"} \cup DbStores
  BY DbAssumption
<1>1. attempt[a].copy \in {"none", "count", "probe", "done"} \cup DbStores
  BY DEF DbInv, DbTyped, DbRecs
<1>2. attempt[a].pc \in Landed /\ UNCHANGED <<doomed, pendingOpen, dbPromise>>
  BY <1>0 DEF MigrationDeadline, CountWallets, DatabaseExists, CopyStore, Landed, DbInv, Backed
<1>3. CASE MigrationDeadline(a)
  BY <1>1, <1>2, <1>3, ResolveKeeps DEF MigrationDeadline
<1>4. CASE CountWallets(a)
  BY <1>0, <1>2, <1>4, ResolveKeeps, CopyGoes DEF CountWallets
<1>5. CASE DatabaseExists(a)
  BY <1>0, <1>2, <1>5, ResolveKeeps, CopyGoes DEF DatabaseExists
<1>6. CASE CopyStore(a)
  BY <1>0, <1>2, <1>6, ResolveKeeps, CopyGoes DEF CopyStore
<1> QED
  BY <1>3, <1>4, <1>5, <1>6

\* closeDb forgets what is cached; nothing it leaves behind is waited for by a later call.
LEMMA CloseKeeps == ASSUME DbInv, CloseDb PROVE DbInv'
<1> DEFINE a == dbPromise
<1>1. /\ dbPromise' = 0 /\ pendingOpen' = 0
      /\ doomed' = IF pendingOpen = 0 THEN doomed ELSE doomed \cup {pendingOpen}
  BY DEF CloseDb
<1>2. \/ UNCHANGED request
      \/ a \in Gets /\ attempt[a].pc = "resolved"
         /\ request' = [request EXCEPT ![attempt[a].req] = "free"]
  BY DEF CloseDb, DbInv, DbTyped
<1>3. /\ request' \in [Requests -> {"free", "queued", "open"}]
      /\ \A q \in Requests : (request'[q] = "queued") = (request[q] = "queued")
  <2>1. CASE UNCHANGED request
    BY <2>1 DEF DbInv, DbTyped
  <2>2. CASE a \in Gets /\ attempt[a].pc = "resolved"
             /\ request' = [request EXCEPT ![attempt[a].req] = "free"]
    <3>1. attempt[a].req \in Requests /\ request[attempt[a].req] # "queued"
      BY <2>2 DEF DbInv, DbTyped, Backed, DbRecs, Landed
    <3> QED
      BY <2>2, <3>1 DEF DbInv, DbTyped
  <2> QED
    BY <1>2, <2>1, <2>2
<1>4. \/ UNCHANGED attempt
      \/ a \in Gets /\ attempt' = [attempt EXCEPT ![a].closes = TRUE]
  BY DEF CloseDb, DbInv, DbTyped
<1>5. ASSUME NEW b \in Gets
      PROVE  /\ attempt'[b] \in DbRecs /\ attempt'[b].pc = attempt[b].pc
             /\ attempt'[b].req = attempt[b].req /\ attempt'[b].copy = attempt[b].copy
  <2>1. attempt[b] \in DbRecs
    BY DEF DbInv, DbTyped
  <2>2. attempt'[b] = attempt[b] \/ attempt'[b] = [attempt[b] EXCEPT !.closes = TRUE]
    BY <1>4 DEF DbInv, DbTyped
  <2> QED
    BY <2>1, <2>2 DEF DbRecs
<1>6. attempt' \in [Gets -> DbRecs]
  BY <1>4, <1>5 DEF DbInv, DbTyped
<1>7. DbTyped'
  BY <1>1, <1>3, <1>6, DbTypes DEF DbInv, DbTyped
<1>8. RequestsQueued'
  BY <1>1, <1>3 DEF DbInv, DbTyped, RequestsQueued
<1>9. ASSUME NEW b \in Gets PROVE Backed(b)'
  <2>1. Backed(b) /\ attempt[b].req \in {0} \cup Requests
    BY DEF DbInv, DbTyped, DbRecs
  <2> QED
    BY <1>3, <1>5, <2>1 DEF Backed
<1> QED
  BY <1>1, <1>7, <1>8, <1>9 DEF DbInv, CachedIsLive

\* Every step of the tab and of the others keeps DbInv.
LEMMA DbNextInv == ASSUME DbInv, [DbNext]_db_vars PROVE DbInv'
<1>1. CASE UNCHANGED db_vars
  BY <1>1, QuietDb DEF db_vars
<1>2. ASSUME NEW r \in Requests,
             RequestBlocked(r) \/ RequestLands(r) \/ RequestFails(r) \/ Blocking(r) \/ Terminated(r)
      PROVE  DbInv'
  BY <1>2, QuietDb, LandsKeeps, FailsKeeps, ClosedKeeps DEF RequestBlocked
<1>3. ASSUME NEW a \in Gets, NEW r \in Requests, GetDb(a, r) PROVE DbInv'
  BY <1>3, GetsKeeps
<1>4. ASSUME NEW a \in Gets,
             AttemptStep(a) \/ CountWallets(a) \/ DatabaseExists(a) \/ CopyStore(a)
      PROVE  DbInv'
  BY <1>4, DeadlineKeeps, MigrationKeeps, GetsKeeps DEF AttemptStep
<1>5. CASE CloseDb
  BY <1>5, CloseKeeps
<1>6. ASSUME NEW s \in DbStores, NEW row \in {"user", "nothing"}, UserWrites(s, row) PROVE DbInv'
  BY <1>6, QuietDb DEF UserWrites
<1>7. CASE ElsewhereMoves \/ ElsewhereUpgrades
  BY <1>7, QuietDb DEF ElsewhereMoves, ElsewhereUpgrades
<1> QED
  BY <1>1, <1>2, <1>3, <1>4, <1>5, <1>6, <1>7 DEF DbNext

-----------------------------------------------------------------------------
\* getDb caches nothing that has failed, and a connection that resolved is open unless an
\* attempt closeDb had forgotten came to share it; for any number of calls and tries.
THEOREM CachedConnectionUsable == DbSpec => []CacheIsUsable
<1>1. DbInit => DbInv
  BY DbInitInv
<1>2. DbInv /\ [DbNext]_db_vars => DbInv'
  BY DbNextInv
<1>3. DbInv => CacheIsUsable
  BY DEF DbInv, CachedIsLive, CacheIsUsable, Landed
<1> QED
  BY <1>1, <1>2, <1>3, PTL DEF DbSpec

\* No opening is tried more often than DbAttempts, and one that pauses is to be tried again.
TriesLeft == \A a \in Gets : attempt[a].tries <= DbAttempts /\ (attempt[a].pc = "pause" => attempt[a].tries < DbAttempts)
StoresTyped == version \in Versions /\ openBlocked \in BOOLEAN /\ elsewhere \in {"none", "holds", "upgrades"} /\ holds \in Contents

LEMMA GivenUpTries ==
  ASSUME DbInv, TriesLeft, NEW A \in SUBSET Gets, GiveUp(A)
  PROVE  TriesLeft'
<1>1. attempt \in [Gets -> DbRecs] /\ NoAttempt \in DbRecs /\ NoAttempt.tries = 0
  BY DbTypes DEF DbInv, DbTyped, NoAttempt
<1>2. DbAttempts \in Nat \ {0}
  BY DbAssumption
<1> SUFFICES ASSUME NEW a \in Gets
             PROVE  attempt'[a].tries <= DbAttempts /\ (attempt'[a].pc = "pause" => attempt'[a].tries < DbAttempts)
  BY DEF TriesLeft
<1>3. attempt[a] \in DbRecs /\ attempt[a].tries \in Nat /\ attempt[a].tries <= DbAttempts
  BY <1>1 DEF DbRecs, TriesLeft
<1>4. \/ attempt'[a] = [NoAttempt EXCEPT !.pc = "rejected"]
      \/ attempt'[a] = [attempt[a] EXCEPT !.pc = "pause", !.req = 0] /\ attempt[a].tries # DbAttempts
      \/ attempt'[a] = attempt[a]
  BY DEF GiveUp
<1>5. CASE attempt'[a] = [NoAttempt EXCEPT !.pc = "rejected"]
  BY <1>1, <1>2, <1>5 DEF NoAttempt
<1>6. CASE attempt'[a] = [attempt[a] EXCEPT !.pc = "pause", !.req = 0] /\ attempt[a].tries # DbAttempts
  BY <1>2, <1>3, <1>6 DEF DbRecs
<1>7. CASE attempt'[a] = attempt[a]
  BY <1>7 DEF TriesLeft
<1> QED
  BY <1>4, <1>5, <1>6, <1>7

\* A step that leaves each attempt its tries and makes none of them pause.
LEMMA TriesStay ==
  ASSUME DbInv, TriesLeft,
         \A a \in Gets : attempt'[a].tries = attempt[a].tries /\ (attempt'[a].pc = "pause" => attempt[a].pc = "pause")
  PROVE  TriesLeft'
BY DEF TriesLeft

LEMMA TriesStep == ASSUME DbInv, TriesLeft, [DbNext]_db_vars PROVE TriesLeft'
<1>1. attempt \in [Gets -> DbRecs] /\ NoAttempt.tries = 0 /\ DbAttempts \in Nat \ {0}
  BY DbAssumption DEF DbInv, DbTyped, NoAttempt
<1>2. \A a \in Gets : attempt[a] \in DbRecs /\ attempt[a].tries \in Nat
  BY <1>1 DEF DbRecs
<1>3. CASE UNCHANGED attempt
  BY <1>3, TriesStay
<1>4. ASSUME NEW r \in Requests, RequestLands(r) PROVE TriesLeft'
  BY <1>2, <1>4, TriesStay DEF RequestLands, DbRecs
<1>5. ASSUME NEW r \in Requests, RequestFails(r) PROVE TriesLeft'
  BY <1>5, GivenUpTries DEF RequestFails, Waiting
<1>6. ASSUME NEW a \in Gets, NEW r \in Requests, GetDb(a, r) PROVE TriesLeft'
  <2>1. /\ attempt' = [attempt EXCEPT ![a] = [NoAttempt EXCEPT !.pc = "opening", !.tries = 1, !.req = r]]
        /\ \A b \in Gets : b # a => attempt'[b] = attempt[b]
    BY <1>1, <1>6 DEF GetDb
  <2>2. attempt'[a].tries = 1 /\ attempt'[a].pc = "opening"
    BY <1>1, <2>1 DEF NoAttempt
  <2> QED
    BY <1>1, <2>1, <2>2 DEF TriesLeft
<1>7. ASSUME NEW a \in Gets, OpenDeadline(a) PROVE TriesLeft'
  <2>1. CASE openBlocked
    <3>1. attempt'[a].tries = 0 /\ attempt'[a].pc = "rejected" /\ \A b \in Gets : b # a => attempt'[b] = attempt[b]
      BY <1>1, <1>7, <2>1 DEF OpenDeadline, NoAttempt
    <3> QED
      BY <1>1, <3>1 DEF TriesLeft
  <2>2. CASE ~openBlocked
    BY <1>7, <2>2, GivenUpTries DEF OpenDeadline
  <2> QED
    BY <2>1, <2>2
<1>8. ASSUME NEW a \in Gets, NEW r \in Requests, OpenAgain(a, r) PROVE TriesLeft'
  <2>1. /\ attempt' = [attempt EXCEPT ![a].pc = "opening", ![a].tries = @ + 1, ![a].req = r]
        /\ attempt[a].pc = "pause"
    BY <1>8 DEF OpenAgain
  <2>2. /\ attempt'[a].tries = attempt[a].tries + 1 /\ attempt'[a].pc = "opening"
        /\ \A b \in Gets : b # a => attempt'[b] = attempt[b]
    BY <1>1, <1>2, <2>1 DEF DbRecs
  <2>3. attempt[a].tries < DbAttempts
    BY <2>1 DEF TriesLeft
  <2> QED
    BY <1>1, <1>2, <2>2, <2>3 DEF TriesLeft
<1>9. ASSUME NEW a \in Gets, MigrationDeadline(a) \/ CountWallets(a) \/ DatabaseExists(a) \/ CopyStore(a)
      PROVE  TriesLeft'
  BY <1>1, <1>2, <1>9, TriesStay DEF MigrationDeadline, CountWallets, DatabaseExists, CopyStore, Resolve, DbRecs
<1>10. CASE CloseDb
  BY <1>1, <1>2, <1>10, TriesStay DEF CloseDb, DbRecs, DbInv, DbTyped
<1> QED
  BY <1>3, <1>4, <1>5, <1>6, <1>7, <1>8, <1>9, <1>10
     DEF DbNext, db_vars, AttemptStep, RequestBlocked, Blocking, Terminated, UserWrites, ElsewhereMoves, ElsewhereUpgrades

LEMMA StoresStep == ASSUME DbInv, StoresTyped, [DbNext]_db_vars PROVE StoresTyped'
<1>1. CASE UNCHANGED <<version, openBlocked, elsewhere, holds>>
  BY <1>1 DEF StoresTyped
<1>2. ASSUME NEW r \in Requests,
             RequestBlocked(r) \/ RequestLands(r) \/ RequestFails(r) \/ Blocking(r) \/ Terminated(r)
      PROVE  StoresTyped'
  BY <1>2 DEF StoresTyped, RequestBlocked, RequestLands, RequestFails, Blocking, Terminated, Versions
<1>3. ASSUME NEW a \in Gets, NEW r \in Requests, GetDb(a, r) \/ OpenAgain(a, r) PROVE StoresTyped'
  BY <1>3 DEF StoresTyped, GetDb, OpenAgain, OpenRequest
<1>4. ASSUME NEW a \in Gets, OpenDeadline(a) \/ MigrationDeadline(a) \/ CountWallets(a) \/ DatabaseExists(a)
      PROVE  StoresTyped'
  BY <1>4 DEF StoresTyped, OpenDeadline, MigrationDeadline, CountWallets, DatabaseExists
<1>5. ASSUME NEW a \in Gets, CopyStore(a) PROVE StoresTyped'
  BY <1>5 DEF StoresTyped, CopyStore, Contents
<1>6. CASE CloseDb
  BY <1>6 DEF StoresTyped, CloseDb
<1>7. ASSUME NEW s \in DbStores, NEW row \in {"user", "nothing"}, UserWrites(s, row) PROVE StoresTyped'
  BY <1>7 DEF StoresTyped, UserWrites, Contents
<1>8. CASE ElsewhereMoves \/ ElsewhereUpgrades
  BY <1>8 DEF StoresTyped, ElsewhereMoves, ElsewhereUpgrades, Versions
<1> QED
  BY <1>1, <1>2, <1>3, <1>4, <1>5, <1>6, <1>7, <1>8 DEF DbNext, db_vars, AttemptStep

DbWhole == DbInv /\ TriesLeft /\ StoresTyped

LEMMA DbWholeInit == DbInit => DbWhole
<1> SUFFICES ASSUME DbInit PROVE DbWhole
  OBVIOUS
<1>1. TriesLeft
  BY DbAssumption DEF DbInit, TriesLeft, NoAttempt
<1>2. StoresTyped
  BY DEF DbInit, StoresTyped, Versions, Contents
<1> QED
  BY <1>1, <1>2, DbInitInv DEF DbWhole

LEMMA DbWholeStep == DbWhole /\ [DbNext]_db_vars => DbWhole'
BY DbNextInv, TriesStep, StoresStep DEF DbWhole

LEMMA DbWholeTypes == DbWhole => DbTypeOK
<1> SUFFICES ASSUME DbWhole PROVE DbTypeOK
  OBVIOUS
<1>1. attempt \in [Gets -> AttemptRec]
  <2>1. attempt \in [Gets -> DbRecs] /\ DbAttempts \in Nat
    BY DbAssumption DEF DbWhole, DbInv, DbTyped
  <2>2. \A a \in Gets : attempt[a] \in DbRecs /\ attempt[a].tries \in 0..DbAttempts
    BY <2>1 DEF DbWhole, TriesLeft, DbRecs
  <2>3. \A a \in Gets : attempt[a] \in AttemptRec
    BY <2>2 DEF DbRecs, AttemptRec, Landed
  <2> QED
    BY <2>1, <2>3
<1> QED
  BY <1>1 DEF DbWhole, DbInv, DbTyped, StoresTyped, DbTypeOK

-----------------------------------------------------------------------------
(***************************************************************************)
(* Settings. However the writers of the settings interleave, and whatever  *)
(* snapshots they put back, the record is of one network and the client is *)
(* of the record, for any networks and any number of writes.               *)
(***************************************************************************)

Good(rec)  == rec \in Records /\ rec.rpc \in TypedUrls \cup {NetUrl[rec.network]}
WriteTypes == [pc : {"idle", "read", "put", "again"}, rec : Records \cup {Unread},
               net : DOMAIN NetUrl \cup {"none"}, fields : SUBSET Fields]

Verdicts   == {"https", "scheme", "loopback", "mixed-content", "csp", "allowlisted",
               "not-allowlisted", "proxied", "none"}
Clients    == [url : AllUrls \cup {NoUrl}, warned : Verdicts]

\* A write in flight: one that will be put is of one network, one that will be read has
\* something to merge.
GoodWrite(op) ==
  /\ op \in WriteTypes
  /\ op.pc \in {"put", "again"} => Good(op.rec)
  /\ op.pc = "read" => op.fields = {"lang"} \/ op.net \in DOMAIN NetUrl

\* Every copy of the record there is, in a window, in the panel or in flight, is of one
\* network; a window without settings has no client yet.
SetInv ==
  /\ Good(stored) /\ (panel = Unread \/ Good(panel))
  /\ memory \in [Windows -> Records \cup {Unread}]
  /\ \A w \in Windows : memory[w] = Unread \/ Good(memory[w])
  /\ client \in [Windows -> Clients]
  /\ \A w \in Windows : client[w] # NoClient => memory[w] # Unread /\ client[w] = Client(memory[w])
  /\ write \in [Writers -> WriteTypes] /\ \A s \in Writers : GoodWrite(write[s])
  /\ writes \in 0..MaxWrites

-----------------------------------------------------------------------------
\* The client of a record uses one of the URLs there are, and its badge says what they may.
LEMMA ClientOfRecord ==
  ASSUME NEW rec, Good(rec)
  PROVE  Client(rec) \in Clients /\ Client(rec).url \in AllUrls
<1>1. \A url, trusted : Kind(url, trusted) \in Verdicts BY DEF Kind, Verdicts
<1>2. Verdict(rec) \in Verdicts BY <1>1 DEF Verdict, Verdicts
<1>3. Warning(rec) \in Verdicts BY <1>2 DEF Warning, Verdicts
<1>4. Client(rec).url \in AllUrls BY SettingsAssumption DEF Good, Records, Client, AllUrls
<1>5. QED BY <1>3, <1>4 DEF Client, Clients

LEMMA NoWriteIsGood == GoodWrite(NoWrite)
BY DEF GoodWrite, NoWrite, WriteTypes, Fields

LEMMA WholeIsGood ==
  ASSUME NEW rec, Good(rec), NEW fields \in SUBSET Fields
  PROVE  GoodWrite(Whole(rec, fields))
BY DEF Good, GoodWrite, Whole, WriteTypes

LEMMA PatchIsGood ==
  /\ \A n \in DOMAIN NetUrl : GoodWrite(Patch(n, {"network", "rpc"}))
  /\ GoodWrite(Patch("none", {"lang"}))
BY DEF GoodWrite, Patch, WriteTypes, Fields

\* A patch merged into a record of one network gives such a record.
LEMMA MergedIsGood ==
  ASSUME NEW op, GoodWrite(op), op.pc = "read", NEW rec, Good(rec)
  PROVE  Good(Merged(op, rec))
<1>1. CASE op.fields = {"lang"} BY <1>1 DEF Merged, Good, Records
<1>2. CASE op.fields # {"lang"}
  <2>1. op.net \in DOMAIN NetUrl BY <1>2 DEF GoodWrite
  <2>2. NetUrl[op.net] \in AllUrls BY <2>1 DEF AllUrls
  <2>3. QED BY <1>2, <2>1, <2>2 DEF Merged, Good, Records
<1>3. QED BY <1>1, <1>2

\* A writer begins, and nothing but its write changes.
LEMMA BeginWriteKeeps ==
  ASSUME SetInv, NEW s \in Writers, NEW op, GoodWrite(op), BeginWrite(s, op),
         UNCHANGED <<stored, memory, client>>, panel' = Unread \/ Good(panel')
  PROVE  SetInv'
<1>1. write' = [write EXCEPT ![s] = op] /\ op \in WriteTypes BY DEF BeginWrite, GoodWrite
<1>2. write' \in [Writers -> WriteTypes] /\ \A t \in Writers : GoodWrite(write'[t]) BY <1>1 DEF SetInv
<1>3. writes' \in 0..MaxWrites BY SettingsAssumption DEF BeginWrite, SetInv
<1>4. QED BY <1>2, <1>3 DEF SetInv

\* What a finished write leaves in the slot of its writer is good.
LEMMA SlotKeeps ==
  ASSUME SetInv, NEW s \in Writers, NEW op, GoodWrite(op), write' = [write EXCEPT ![s] = op]
  PROVE  write' \in [Writers -> WriteTypes] /\ \A t \in Writers : GoodWrite(write'[t])
BY DEF SetInv, GoodWrite

-----------------------------------------------------------------------------
LEMMA SetInitInv == SetInit => SetInv
<1> SUFFICES ASSUME SetInit PROVE SetInv
  OBVIOUS
<1>1. Good(Defaults)
  <2>1. "devnet" \in DOMAIN NetUrl /\ NetUrl["devnet"] \in AllUrls BY SettingsAssumption DEF AllUrls
  <2>2. QED BY <2>1 DEF Good, Defaults, Records, Customs
<1>2. NoClient \in Clients BY DEF NoClient, Clients, Verdicts
<1>3. \A s \in Writers : GoodWrite(write[s]) BY NoWriteIsGood DEF SetInit
<1>4. write \in [Writers -> WriteTypes] BY NoWriteIsGood DEF SetInit, GoodWrite
<1>5. QED BY <1>1, <1>2, <1>3, <1>4, SettingsAssumption DEF SetInit, SetInv

LEMMA SetStepInv == SetInv /\ [SetNext]_set_vars => SetInv'
<1> SUFFICES ASSUME SetInv, [SetNext]_set_vars PROVE SetInv'
  OBVIOUS
<1> USE SettingsAssumption
<1>1. ASSUME NEW w \in Windows, InitRpc(w) PROVE SetInv'
  <2>1. Client(stored) \in Clients BY ClientOfRecord DEF SetInv
  <2>2. memory' \in [Windows -> Records \cup {Unread}] /\ client' \in [Windows -> Clients]
    BY <1>1, <2>1 DEF InitRpc, SetInv, Good
  <2>3. \A v \in Windows : memory'[v] = Unread \/ Good(memory'[v]) BY <1>1 DEF InitRpc, SetInv
  <2>4. stored # Unread BY DEF SetInv, Good, Records, Unread
  <2>5. \A v \in Windows : client'[v] # NoClient => memory'[v] # Unread /\ client'[v] = Client(memory'[v])
    BY <1>1, <2>4 DEF InitRpc, SetInv
  <2>6. QED BY <1>1, <2>2, <2>3, <2>5 DEF InitRpc, SetInv
<1>2. ASSUME NEW s \in Writers, ReadForPatch(s) PROVE SetInv'
  <2>1. GoodWrite(write[s]) /\ Good(stored) /\ write[s] \in WriteTypes BY DEF SetInv
  <2>2. Good(Merged(write[s], stored)) BY <1>2, <2>1, MergedIsGood DEF ReadForPatch
  <2>3. GoodWrite([write[s] EXCEPT !.pc = "put", !.rec = Merged(write[s], stored)])
    BY <2>1, <2>2 DEF GoodWrite, WriteTypes, Good
  <2>4. PICK op : GoodWrite(op) /\ write' = [write EXCEPT ![s] = op]
    BY <1>2, <2>3, NoWriteIsGood DEF ReadForPatch
  <2>5. write' \in [Writers -> WriteTypes] /\ \A t \in Writers : GoodWrite(write'[t]) BY <2>4, SlotKeeps
  <2>6. /\ memory' \in [Windows -> Records \cup {Unread}]
        /\ \A w \in Windows : memory'[w] = Unread \/ Good(memory'[w])
        /\ \A w \in Windows : memory[w] # Unread => memory'[w] = memory[w]
    BY <1>2, <2>1 DEF ReadForPatch, SetInv, Good
  <2>7. QED BY <1>2, <2>5, <2>6 DEF ReadForPatch, SetInv
<1>3. ASSUME NEW s \in Writers, Put(s) PROVE SetInv'
  <2>1. GoodWrite(write[s]) /\ Good(write[s].rec) /\ write[s] \in WriteTypes
    BY <1>3 DEF SetInv, Put, GoodWrite
  <2>2. GoodWrite([write[s] EXCEPT !.pc = "again"]) BY <2>1 DEF GoodWrite, WriteTypes
  <2>3. PICK op : GoodWrite(op) /\ write' = [write EXCEPT ![s] = op]
    <3>1. \/ write' = [write EXCEPT ![s].pc = "again"]
          \/ write' = [write EXCEPT ![s] = NoWrite] BY <1>3 DEF Put
    <3>2. [write EXCEPT ![s].pc = "again"] = [write EXCEPT ![s] = [write[s] EXCEPT !.pc = "again"]] BY DEF SetInv
    <3>3. QED BY <2>2, <3>1, <3>2, NoWriteIsGood
  <2>4. write' \in [Writers -> WriteTypes] /\ \A t \in Writers : GoodWrite(write'[t]) BY <2>3, SlotKeeps
  <2>5. CASE UNCHANGED <<memory, client>> BY <1>3, <2>1, <2>4, <2>5 DEF Put, SetInv
  <2>6. CASE /\ memory' = [memory EXCEPT ![Home(s)] = write[s].rec]
             /\ client' = [client EXCEPT ![Home(s)] = Client(write[s].rec)]
    <3>1. Home(s) \in Windows BY DEF Home, Windows
    <3>2. Client(write[s].rec) \in Clients BY <2>1, ClientOfRecord
    <3>3. write[s].rec \in Records /\ write[s].rec # Unread BY <2>1 DEF Good, Records, Unread
    <3>4. memory' \in [Windows -> Records \cup {Unread}] /\ client' \in [Windows -> Clients]
      BY <2>6, <3>1, <3>2, <3>3 DEF SetInv
    <3>5. \A w \in Windows : memory'[w] = Unread \/ Good(memory'[w]) BY <2>1, <2>6, <3>1 DEF SetInv
    <3>6. \A w \in Windows : client'[w] # NoClient => memory'[w] # Unread /\ client'[w] = Client(memory'[w])
      BY <2>6, <3>1, <3>3 DEF SetInv
    <3>7. QED BY <1>3, <2>1, <2>4, <3>4, <3>5, <3>6 DEF Put, SetInv
  <2>7. QED BY <1>3, <2>5, <2>6 DEF Put, Published
<1>4. ASSUME NEW s \in Writers, PutFails(s) PROVE SetInv'
  <2>1. write' \in [Writers -> WriteTypes] /\ \A t \in Writers : GoodWrite(write'[t])
    BY <1>4, NoWriteIsGood, SlotKeeps DEF PutFails
  <2>2. QED BY <1>4, <2>1 DEF PutFails, SetInv
<1>5. ASSUME NEW n \in DOMAIN NetUrl, TapPill(n) \/ SwitchInPopup(n) PROVE SetInv'
  <2>1. GoodWrite(Patch(n, {"network", "rpc"})) BY PatchIsGood
  <2>2. {"pill", "popup"} \subseteq Writers /\ (panel = Unread \/ Good(panel)) BY DEF Writers, SetInv
  <2>3. QED BY <1>5, <2>1, <2>2, BeginWriteKeeps DEF TapPill, SwitchInPopup
<1>6. CASE SetLang
  BY <1>6, PatchIsGood, BeginWriteKeeps DEF SetLang, Writers, SetInv
<1>7. CASE SetTheme
  <2>1. Good(memory["main"]) BY <1>7 DEF SetTheme, SetInv, Windows
  <2>2. Good([memory["main"] EXCEPT !.theme = 1 - @]) BY <2>1 DEF Good, Records
  <2>3. GoodWrite(Whole([memory["main"] EXCEPT !.theme = 1 - @], {"theme"})) BY <2>2, WholeIsGood DEF Fields
  <2>4. "theme" \in Writers /\ (panel = Unread \/ Good(panel)) BY DEF Writers, SetInv
  <2>5. QED BY <1>7, <2>3, <2>4, BeginWriteKeeps DEF SetTheme
<1>8. CASE OpenPanel \/ ClosePanel BY <1>8 DEF OpenPanel, ClosePanel, SetInv
<1>9. CASE TypeUrl
  <2>1. PICK u \in TypedUrls : panel' \in {[panel EXCEPT !.rpc = u], [panel EXCEPT !.proxy = u]} /\ Good(panel)
    BY <1>9 DEF TypeUrl, SetInv
  <2>2. Good(panel') BY <2>1 DEF Good, Records, AllUrls
  <2>3. QED BY <1>9, <2>2 DEF TypeUrl, SetInv
<1>10. ASSUME panel # Unread, NEW next, NEW fields \in SUBSET Fields, Good(next), PanelWrites(next, fields)
       PROVE SetInv'
  <2>1. GoodWrite(Whole(next, fields \cup {"rpc", "proxy"})) BY <1>10, WholeIsGood DEF Fields
  <2>2. "panel" \in Writers BY DEF Writers
  <2>3. QED BY <1>10, <2>1, <2>2, BeginWriteKeeps DEF PanelWrites
<1>11. ASSUME panel # Unread, NEW n \in DOMAIN NetUrl, SelectNetwork(n) PROVE SetInv'
  <2>1. NetUrl[n] \in AllUrls BY DEF AllUrls
  <2>2. Good([panel EXCEPT !.network = n, !.rpc = NetUrl[n]]) BY <1>11, <2>1 DEF SetInv, Good, Records
  <2>3. {"network", "rpc"} \in SUBSET Fields BY DEF Fields
  <2>4. QED BY <1>10, <1>11, <2>2, <2>3 DEF SelectNetwork
<1>12. ASSUME panel # Unread,
              SaveUrls \/ TrustOrigin \/ UntrustOrigin \/ SetAutoLock \/ AddNetwork \/ DeleteNetwork
       PROVE SetInv'
  <2>1. Good(panel) /\ panel \in Records BY <1>12 DEF SetInv, Good
  <2>2. \A F \in {{"rpc", "proxy"}, {"trusted"}, {"lock"}, {"custom"}, {"custom", "network", "rpc"}} :
          F \in SUBSET Fields
    BY DEF Fields
  <2>3. CASE SaveUrls BY <1>10, <1>12, <2>1, <2>2, <2>3 DEF SaveUrls
  <2>4. CASE TrustOrigin
    <3>1. Client(panel).url \in AllUrls BY <2>1, ClientOfRecord
    <3>2. panel.trusted \cup {Client(panel).url.host} \in SUBSET {u.host : u \in AllUrls}
      BY <2>1, <3>1 DEF Records
    <3>3. Good([panel EXCEPT !.trusted = @ \cup {Client(panel).url.host}]) BY <2>1, <3>2 DEF Good, Records
    <3>4. QED BY <1>10, <1>12, <2>2, <2>4, <3>3 DEF TrustOrigin
  <2>5. CASE UntrustOrigin
    <3>1. PICK o \in panel.trusted : PanelWrites([panel EXCEPT !.trusted = @ \ {o}], {"trusted"})
      BY <2>5 DEF UntrustOrigin
    <3>2. Good([panel EXCEPT !.trusted = @ \ {o}]) BY <2>1 DEF Good, Records
    <3>3. QED BY <1>10, <1>12, <2>2, <3>1, <3>2
  <2>6. CASE SetAutoLock
    <3>1. Good([panel EXCEPT !.lock = 1 - @]) BY <2>1 DEF Good, Records
    <3>2. QED BY <1>10, <1>12, <2>2, <2>6, <3>1 DEF SetAutoLock
  <2>7. CASE AddNetwork
    <3>1. PICK n \in Customs \ panel.custom : PanelWrites([panel EXCEPT !.custom = @ \cup {n}], {"custom"})
      BY <2>7 DEF AddNetwork
    <3>2. Good([panel EXCEPT !.custom = @ \cup {n}]) BY <2>1 DEF Good, Records
    <3>3. QED BY <1>10, <1>12, <2>2, <3>1, <3>2
  <2>8. CASE DeleteNetwork
    <3>1. PICK n \in panel.custom :
            \/ PanelWrites([panel EXCEPT !.custom = @ \ {n}, !.network = "devnet", !.rpc = NetUrl["devnet"]],
                           {"custom", "network", "rpc"})
            \/ PanelWrites([panel EXCEPT !.custom = @ \ {n}], {"custom"})
      BY <2>8 DEF DeleteNetwork
    <3>2. "devnet" \in DOMAIN NetUrl /\ NetUrl["devnet"] \in AllUrls BY DEF AllUrls
    <3>3. /\ Good([panel EXCEPT !.custom = @ \ {n}])
          /\ Good([panel EXCEPT !.custom = @ \ {n}, !.network = "devnet", !.rpc = NetUrl["devnet"]])
      BY <2>1, <3>2 DEF Good, Records
    <3>4. QED BY <1>10, <1>12, <2>2, <3>1, <3>3
  <2>9. QED BY <1>12, <2>3, <2>4, <2>5, <2>6, <2>7, <2>8
<1>13. CASE UNCHANGED set_vars BY <1>13 DEF set_vars, SetInv
<1>14. QED BY <1>1, <1>2, <1>3, <1>4, <1>5, <1>6, <1>7, <1>8, <1>9, <1>11, <1>12, <1>13 DEF SetNext

\* The record, every window's copy of it and the panel's are well-typed.
THEOREM SettingsTyped == SetSpec => []SetTypeOK
<1>1. SetInv => SetTypeOK
  BY DEF SetInv, SetTypeOK, Good, GoodWrite, WriteTypes, Clients
<1>2. QED BY <1>1, SetInitInv, SetStepInv, PTL DEF SetSpec

\* For any writers that interleave: the stored URL is the stored network's or was typed
\* (storage.ts patchSettings, ConnectApp.handleSwitchNetwork).
THEOREM OneNetwork == SetSpec => []EndpointsMoveTogether
<1>1. SetInv => EndpointsMoveTogether BY DEF SetInv, Good, EndpointsMoveTogether
<1>2. QED BY <1>1, SetInitInv, SetStepInv, PTL DEF SetSpec

\* A window's RPC client and the badge about it are those of the settings it shows
\* (wallet-store.ts publishSettings).
THEOREM ClientIsOfSettings == SetSpec => []ClientMatchesSettings
<1>1. SetInv => ClientMatchesSettings BY DEF SetInv, ClientMatchesSettings
<1>2. QED BY <1>1, SetInitInv, SetStepInv, PTL DEF SetSpec

-----------------------------------------------------------------------------
(***************************************************************************)
(* Accounts. Whatever the tabs do with the accounts between each other's   *)
(* transactions, for any accounts, PINs, tabs and number of operations.    *)
(***************************************************************************)

Storing   == {"persist", "create", "derive"}
Listing   == Storing \cup {"watch", "remove", "activate"}  \* operations that change the manifest
OpNames   == Listing \cup {"unlock", "changePin"}
PcNames   == {"own", "default?", "default", "load", "save", "backup", "check", "preflight",
              "watched", "keystore", "root", "find", "list", "seal"}
OpenRecs  == {Closed} \cup [addr : Addrs, keys : BOOLEAN]
BusyRecs  == [op : OpNames, addr : Addrs, pin : Pins \cup {"none"}, pc : PcNames,
              found : OpenRecs, seen : Manifests \cup {"none"}, ids : SUBSET Ids,
              sealed : BOOLEAN, failed : BOOLEAN, alone : BOOLEAN]
TaskRecs  == {Idle} \cup BusyRecs

AcctTyped ==
  /\ keystore \in StoredWallets /\ manifest \in Manifests /\ passkey \in PasskeyUnlocks
  /\ files \in SUBSET [addr : Addrs, pin : Pins] /\ open \in [Tabs -> OpenRecs]
  /\ task \in [Tabs -> TaskRecs] /\ unwanted \in SUBSET Addrs

\* A slot holds an account whose slot it is, or nothing.
OwnSlots == \A a \in Addrs : LET own == keystore[Slot[a]] IN own # NoBlob => Slot[own.addr] = Slot[a]

\* In the store ks, when uw are unwanted: once true of an account this stays, because
\* only its removal takes its keystore, or one who shares the slot.
Kept(a, ks, uw) == OwnSlot(a) => ks[Slot[a]].addr = a \/ a \in uw

\* A manifest, the stored one or one a tab is about to write back.
ListedRight(m, ks, uw) ==
  /\ \A a \in Addrs : m.listed[a] = "keys" => Kept(a, ks, uw)
  /\ m.active # Nobody => m.listed[m.active] # "no"

\* An operation in the middle of what it does.
Right(k, ks, uw) ==
  /\ k.op \in Storing => k.pin \in Pins /\ (k.pc # "own" => Kept(k.addr, ks, uw))
  /\ k.op = "remove" => k.addr \in uw
  /\ k.op = "changePin" => k.pin \in Pins
  /\ k.pc \in {"load", "save"} => k.op \in Listing
  /\ k.pc = "save" => k.seen \in Manifests /\ ListedRight(k.seen, ks, uw)
  /\ k.pc = "save" /\ k.op = "activate" => k.seen.listed[k.addr] # "no"
  /\ k.pc = "backup" => k.op = "create"
  /\ k.op = "activate" /\ k.found # Closed => k.found.addr = k.addr
  /\ k.pc \in {"find", "list", "seal"} => k.op = "changePin"
  /\ k.pc = "seal" => k.ids \subseteq {Slot[k.addr], "default"}

\* A change of PIN that no other tab disturbs, and of which no save has failed, still has
\* every entry that opens with the old PIN to seal.
SealsAll(k, ks) ==
  k.pc = "seal" /\ ~k.failed => \A id \in Ids : ks[id] = [addr |-> k.addr, pin |-> k.pin] => id \in k.ids

AloneRight(t) ==
  task[t].alone => SealsAll(task[t], keystore) /\ \A u \in Tabs \ {t} : task[u] = Idle

AcctInv == /\ AcctTyped /\ OwnSlots /\ ListedRight(manifest, keystore, unwanted)
           /\ \A t \in Tabs : Right(task[t], keystore, unwanted) /\ AloneRight(t)
-----------------------------------------------------------------------------
(* Operations as records, manifests and stores: what a step keeps of them. *)

\* Moving an operation on changes nothing else about it.
LEMMA GotoRec ==
  ASSUME NEW x \in BusyRecs, NEW p \in PcNames, NEW k, k = [x EXCEPT !.pc = p]
  PROVE  /\ k \in BusyRecs /\ k.pc = p /\ k.op = x.op /\ k.addr = x.addr /\ k.pin = x.pin
         /\ k.found = x.found /\ k.seen = x.seen /\ k.ids = x.ids /\ k.alone = x.alone
  BY DEF BusyRecs

\* No operation.
LEMMA IdleRec ==
  /\ Idle \in TaskRecs /\ Idle.op = "none" /\ Idle.pc = "none" /\ ~Idle.alone
  /\ Idle \notin BusyRecs /\ \A x \in BusyRecs : x.pc # "none" /\ x.op # "none"
  /\ Idle.found = Closed /\ Closed \in OpenRecs
  BY DEF Idle, TaskRecs, BusyRecs, PcNames, OpNames, Listing, Storing, OpenRecs

\* Nothing is required of a tab without an operation.
LEMMA IdleRight == \A ks, uw : Right(Idle, ks, uw)
  BY IdleRec DEF Right, Storing, Listing

\* What is kept in one store is kept in the next: so are the manifests and the operations
\* that rely on it.
LEMMA ListStays ==
  ASSUME NEW m \in Manifests, NEW ks, NEW uw, NEW ks2, NEW uw2, ListedRight(m, ks, uw),
         \A a \in Addrs : Kept(a, ks, uw) => Kept(a, ks2, uw2)
  PROVE  ListedRight(m, ks2, uw2)
  BY DEF ListedRight

\* An operation relies on what is kept.
LEMMA RightStays ==
  ASSUME NEW k \in BusyRecs, NEW ks, NEW uw, NEW ks2, NEW uw2, Right(k, ks, uw),
         \A a \in Addrs : Kept(a, ks, uw) => Kept(a, ks2, uw2),
         k.op = "remove" => k.addr \in uw2
  PROVE  Right(k, ks2, uw2)
<1>1. k.addr \in Addrs
  BY DEF BusyRecs
<1>2. k.pc = "save" => ListedRight(k.seen, ks2, uw2)
  BY ListStays DEF Right
<1> QED
  BY <1>1, <1>2 DEF Right

-----------------------------------------------------------------------------
(* The kinds of step.                                                      *)

\* A step of a tab in the middle of an operation, which becomes k: the operations of the
\* other tabs find what they rely on, and none of them was alone.
LEMMA TabMoves ==
  ASSUME AcctInv, NEW t \in Tabs, NEW k \in TaskRecs, task[t] # Idle,
         task' = [task EXCEPT ![t] = k], k.alone => task[t].alone,
         keystore' \in StoredWallets, manifest' \in Manifests, passkey' \in PasskeyUnlocks,
         files' \in SUBSET [addr : Addrs, pin : Pins], open' \in [Tabs -> OpenRecs],
         unwanted' \in SUBSET Addrs, OwnSlots',
         \A a \in Addrs : Kept(a, keystore, unwanted) => Kept(a, keystore', unwanted'),
         \A u \in Tabs \ {t} : task[u].op = "remove" => task[u].addr \in unwanted',
         ListedRight(manifest', keystore', unwanted'), Right(k, keystore', unwanted'),
         k.alone => SealsAll(k, keystore')
  PROVE  AcctInv'
<1>1. AcctTyped'
  BY DEF AcctInv, AcctTyped
<1>2. task'[t] = k /\ \A u \in Tabs \ {t} : task'[u] = task[u] /\ task[u] \in TaskRecs
  BY DEF AcctInv, AcctTyped
<1>3. ASSUME NEW u \in Tabs
      PROVE  Right(task'[u], keystore', unwanted')
  <2>1. CASE u = t
    BY <1>2, <2>1
  <2>2. CASE u # t /\ task[u] = Idle
    BY <1>2, <2>2, IdleRight
  <2>3. CASE u # t /\ task[u] # Idle
    <3>1. task[u] \in BusyRecs /\ Right(task[u], keystore, unwanted)
      BY <1>2, <2>3 DEF TaskRecs, AcctInv
    <3> QED
      BY <1>2, <2>3, <3>1, RightStays
  <2> QED
    BY <2>1, <2>2, <2>3
<1>4. ASSUME NEW u \in Tabs
      PROVE  AloneRight(u)'
  <2>1. CASE u = t
    BY <1>2, <2>1 DEF AcctInv, AloneRight
  <2>2. CASE u # t
    <3>1. ~task[u].alone
      BY <2>2 DEF AcctInv, AloneRight
    <3> QED
      BY <1>2, <2>2, <3>1 DEF AloneRight
  <2> QED
    BY <2>1, <2>2
<1> QED
  BY <1>1, <1>3, <1>4 DEF AcctInv

\* A step that writes neither a keystore nor the list of what is unwanted.
LEMMA TabLooks ==
  ASSUME AcctInv, NEW t \in Tabs, NEW k \in TaskRecs, task[t] # Idle,
         task' = [task EXCEPT ![t] = k], k.alone => task[t].alone,
         UNCHANGED <<keystore, manifest, passkey, files, unwanted>>,
         open' \in [Tabs -> OpenRecs],
         Right(k, keystore, unwanted), k.alone => SealsAll(k, keystore)
  PROVE  AcctInv'
<1>1. /\ keystore' \in StoredWallets /\ manifest' \in Manifests
      /\ passkey' \in PasskeyUnlocks /\ files' \in SUBSET [addr : Addrs, pin : Pins]
      /\ unwanted' \in SUBSET Addrs
  BY DEF AcctInv, AcctTyped
<1>2. OwnSlots' /\ ListedRight(manifest', keystore', unwanted')
  BY DEF AcctInv, OwnSlots
<1>3. \A u \in Tabs : task[u].op = "remove" => task[u].addr \in unwanted'
  BY DEF AcctInv, Right
<1> QED
  BY <1>1, <1>2, <1>3, TabMoves

\* A step that moves the operation to p, where it relies on nothing new.
LEMMA TabGoes ==
  ASSUME AcctInv, NEW t \in Tabs, NEW p \in PcNames \ {"save", "seal"}, task[t] # Idle,
         Goto(t, p), UNCHANGED <<keystore, manifest, passkey, files, open, unwanted>>,
         task[t].op \in Storing => task[t].pc # "own",
         p = "load" => task[t].op \in Listing, p = "backup" => task[t].op = "create",
         p \in {"find", "list"} => task[t].op = "changePin"
  PROVE  AcctInv'
<1>1. task[t] \in BusyRecs /\ task \in [Tabs -> TaskRecs] /\ open' \in [Tabs -> OpenRecs]
  BY DEF AcctInv, AcctTyped, TaskRecs
<1>2. PICK k : k = [task[t] EXCEPT !.pc = p]
  OBVIOUS
<1>3. /\ k \in BusyRecs /\ k.pc = p /\ k.op = task[t].op /\ k.addr = task[t].addr
      /\ k.pin = task[t].pin /\ k.found = task[t].found /\ k.alone = task[t].alone
  BY <1>1, <1>2, GotoRec
<1>4. task' = [task EXCEPT ![t] = k]
  BY <1>1, <1>2 DEF Goto
<1>5. Right(task[t], keystore, unwanted)
  BY DEF AcctInv
<1>6. Right(k, keystore, unwanted) /\ SealsAll(k, keystore)
  BY <1>3, <1>5 DEF Right, SealsAll
<1> QED
  BY <1>1, <1>3, <1>4, <1>6, TabLooks DEF TaskRecs

\* A step that ends the operation and writes nothing: the tab may open a wallet or lock.
LEMMA TabStops ==
  ASSUME AcctInv, NEW t \in Tabs, task[t] # Idle, Stop(t),
         UNCHANGED <<keystore, manifest, passkey, files, unwanted>>,
         open' \in [Tabs -> OpenRecs]
  PROVE  AcctInv'
<1>1. task' = [task EXCEPT ![t] = Idle]
  BY DEF Stop
<1> QED
  BY <1>1, IdleRec, IdleRight, TabLooks

\* A step between operations.
LEMMA QuietAcct ==
  ASSUME AcctInv, UNCHANGED <<keystore, manifest, task, unwanted>>,
         passkey' \in PasskeyUnlocks, files' \in SUBSET [addr : Addrs, pin : Pins],
         open' \in [Tabs -> OpenRecs]
  PROVE  AcctInv'
<1>1. AcctTyped' /\ OwnSlots' /\ ListedRight(manifest, keystore, unwanted)'
  BY DEF AcctInv, AcctTyped, OwnSlots
<1>2. ASSUME NEW t \in Tabs PROVE Right(task[t], keystore, unwanted)' /\ AloneRight(t)'
  BY DEF AcctInv, AloneRight
<1> QED
  BY <1>1, <1>2 DEF AcctInv

\* An operation begins: the other tabs' are no longer alone.
LEMMA TabBegins ==
  ASSUME AcctInv, NEW t \in Tabs, task[t] = Idle, NEW op \in OpNames, NEW a \in Addrs,
         NEW pin \in Pins \cup {"none"}, NEW pc \in PcNames \ {"save", "seal", "backup"},
         task' = Begun(t, op, a, pin, pc), UNCHANGED <<keystore, manifest, passkey, files>>,
         open' \in [Tabs -> OpenRecs],
         unwanted' \in SUBSET Addrs, unwanted \subseteq unwanted',
         op \in Storing => pin \in Pins /\ pc = "own", op = "remove" => a \in unwanted',
         op = "changePin" => pin \in Pins, pc = "load" => op \in Listing,
         pc \in {"find", "list"} => op = "changePin"
  PROVE  AcctInv'
<1>1. PICK k : k = [Idle EXCEPT !.op = op, !.addr = a, !.pin = pin, !.pc = pc,
                                !.alone = \A v \in Tabs \ {t} : task[v] = Idle]
  OBVIOUS
<1>2. /\ k \in BusyRecs /\ k.op = op /\ k.addr = a /\ k.pin = pin /\ k.pc = pc
      /\ k.found = Closed /\ (k.alone => \A v \in Tabs \ {t} : task[v] = Idle)
  BY <1>1 DEF BusyRecs, Idle, OpenRecs
<1>3. task \in [Tabs -> TaskRecs]
  BY DEF AcctInv, AcctTyped
<1>4. task'[t] = k /\ \A u \in Tabs \ {t} : task'[u] = [task[u] EXCEPT !.alone = FALSE]
  BY <1>1 DEF Begun
<1>5. ASSUME NEW u \in Tabs \ {t}
      PROVE  /\ task'[u] \in TaskRecs /\ ~task'[u].alone
             /\ task[u] = Idle => task'[u] = Idle
             /\ Right(task'[u], keystore', unwanted')
  <2>1. CASE task[u] = Idle
    <3>1. [Idle EXCEPT !.alone = FALSE] = Idle
      <4>1. PICK c : c = Closed
        OBVIOUS
      <4>2. PICK f \in BOOLEAN : f = FALSE
        OBVIOUS
      <4>3. Idle = [op |-> "none", addr |-> Nobody, pin |-> "none", pc |-> "none",
                    found |-> c, seen |-> "none", ids |-> {}, sealed |-> f, failed |-> f,
                    alone |-> f]
        BY <4>1, <4>2 DEF Idle
      <4>4. [Idle EXCEPT !.alone = f] = Idle
        BY <4>3
      <4> QED
        BY <4>2, <4>4
    <3> QED
      BY <1>4, <2>1, <3>1, IdleRec, IdleRight
  <2>2. CASE task[u] # Idle
    <3>1. task[u] \in BusyRecs
      BY <1>3, <2>2 DEF TaskRecs
    <3>pick. PICK f \in BOOLEAN : f = FALSE
      OBVIOUS
    <3>cleared. task'[u] = [task[u] EXCEPT !.alone = f]
      BY <1>4, <3>pick
    <3>2. /\ task'[u] \in BusyRecs /\ ~task'[u].alone /\ task'[u].op = task[u].op
          /\ task'[u].addr = task[u].addr /\ task'[u].pin = task[u].pin
          /\ task'[u].pc = task[u].pc /\ task'[u].found = task[u].found
          /\ task'[u].seen = task[u].seen /\ task'[u].ids = task[u].ids
      BY <3>pick, <3>1, <3>cleared DEF BusyRecs
    <3>3. Right(task[u], keystore, unwanted)
      BY DEF AcctInv
    <3>4. Right(task'[u], keystore, unwanted)
      BY <3>2, <3>3 DEF Right
    <3>5. \A b \in Addrs : Kept(b, keystore, unwanted) => Kept(b, keystore', unwanted')
      BY DEF Kept
    <3>6. task'[u].op = "remove" => task'[u].addr \in unwanted'
      BY <3>4 DEF Right
    <3>7. Right(task'[u], keystore', unwanted')
      BY <3>2, <3>4, <3>5, <3>6, RightStays
    <3> QED
      BY <2>2, <3>2, <3>7 DEF TaskRecs
  <2> QED
    BY <2>1, <2>2
<1>6. AcctTyped'
  <2>1. task' \in [Tabs -> TaskRecs]
    <3>1. task' = [u \in Tabs |-> task'[u]]
      BY DEF Begun
    <3> QED
      BY <1>2, <1>4, <1>5, <3>1 DEF TaskRecs
  <2> QED
    BY <2>1 DEF AcctInv, AcctTyped
<1>7. OwnSlots' /\ ListedRight(manifest', keystore', unwanted')
  <2>1. \A b \in Addrs : Kept(b, keystore, unwanted) => Kept(b, keystore', unwanted')
    BY DEF Kept
  <2> QED
    BY <2>1, ListStays DEF AcctInv, AcctTyped, OwnSlots
<1>8. Right(k, keystore', unwanted') /\ SealsAll(k, keystore')
  BY <1>2 DEF Right, SealsAll
<1>9. ASSUME NEW u \in Tabs PROVE Right(task[u], keystore, unwanted)' /\ AloneRight(u)'
  BY <1>2, <1>4, <1>5, <1>8 DEF AloneRight
<1> QED
  BY <1>6, <1>7, <1>9 DEF AcctInv
-----------------------------------------------------------------------------
(* The steps that write.                                                   *)

\* An account's slot is not `default'.
LEMMA SlotIs ==
  ASSUME NEW a \in Addrs PROVE Slot[a] \in Ids /\ Slot[a] # "default"
  BY AccountsAssumption DEF Ids

\* A busy tab's operation, and what is known of it.
LEMMA BusyTab ==
  ASSUME AcctInv, NEW t \in Tabs, task[t].pc # "none"
  PROVE  /\ task[t] # Idle /\ task[t] \in BusyRecs /\ Right(task[t], keystore, unwanted)
         /\ task[t].addr \in Addrs /\ task[t].addr # Nobody
         /\ task \in [Tabs -> TaskRecs]
  BY IdleRec, AccountsAssumption DEF AcctInv, AcctTyped, TaskRecs, BusyRecs

\* persistImportedWallet and deriveNewHdAccount store an account under its own address:
\* from then on it is kept.
LEMMA PutOwnKeeps ==
  ASSUME AcctInv, NEW t \in Tabs, PutOwn(t)
  PROVE  AcctInv'
<1> DEFINE a == task[t].addr
           p == IF task[t].op = "derive" THEN "load" ELSE "default?"
<1>1. /\ task[t] # Idle /\ task[t] \in BusyRecs /\ Right(task[t], keystore, unwanted)
      /\ a \in Addrs /\ a # Nobody /\ task \in [Tabs -> TaskRecs]
      /\ task[t].op \in Storing /\ task[t].pin \in Pins
  BY BusyTab DEF PutOwn, Storing, Right
<1>2. PICK k : k = [task[t] EXCEPT !.pc = p]
  OBVIOUS
<1>3. /\ k \in BusyRecs /\ k.pc = p /\ k.op = task[t].op /\ k.addr = a
      /\ k.pin = task[t].pin /\ k.found = task[t].found /\ k.alone = task[t].alone
  BY <1>1, <1>2, GotoRec DEF PcNames
<1>4. task' = [task EXCEPT ![t] = k]
  BY <1>1, <1>2 DEF Goto, PutOwn
<1>5. PICK w \in [addr : Addrs, pin : Pins] : w.addr = a /\ keystore' = [keystore EXCEPT ![Slot[a]] = w]
  BY <1>1 DEF PutOwn
<1>6. keystore \in StoredWallets /\ unwanted \in SUBSET Addrs
  BY DEF AcctInv, AcctTyped
<1>7. /\ keystore' \in StoredWallets /\ keystore'[Slot[a]].addr = a
      /\ \A b \in Addrs : Slot[b] # Slot[a] => keystore'[Slot[b]] = keystore[Slot[b]]
  BY <1>1, <1>5, <1>6, SlotIs DEF StoredWallets
<1>8. /\ unwanted' \in SUBSET Addrs /\ unwanted \ {a} \subseteq unwanted'
      /\ \A u \in Tabs : task[u].op = "remove" => task[u].addr \in unwanted'
  BY <1>6 DEF PutOwn, Wanted, AcctInv, Right
<1>9. \A b \in Addrs : Kept(b, keystore, unwanted) => Kept(b, keystore', unwanted')
  BY <1>1, <1>7, <1>8 DEF Kept, OwnSlot
<1>10. OwnSlots'
  BY <1>7 DEF AcctInv, OwnSlots
<1>11. manifest \in Manifests /\ ListedRight(manifest, keystore', unwanted')
  BY <1>9, ListStays DEF AcctInv, AcctTyped
<1>12. Right(k, keystore', unwanted') /\ SealsAll(k, keystore')
  <2>1. Kept(k.addr, keystore', unwanted')
    BY <1>3, <1>7 DEF Kept
  <2> QED
    BY <1>1, <1>3, <2>1 DEF Right, SealsAll, Storing, Listing
<1>13. /\ passkey' \in PasskeyUnlocks /\ files' \in SUBSET [addr : Addrs, pin : Pins]
       /\ open' \in [Tabs -> OpenRecs] /\ UNCHANGED manifest
  BY DEF PutOwn, AcctInv, AcctTyped
<1> HIDE DEF a, p
<1> QED
  BY <1>1, <1>3, <1>4, <1>7, <1>8, <1>9, <1>10, <1>11, <1>12, <1>13, TabMoves DEF TaskRecs

\* The copy under `default', written or deleted: no account's own entry is touched.
LEMMA DefaultKeeps ==
  ASSUME AcctInv, NEW t \in Tabs, PutDefault(t) \/ DeleteDefault(t)
  PROVE  AcctInv'
<1>1. /\ task[t] # Idle /\ task[t] \in BusyRecs /\ Right(task[t], keystore, unwanted)
      /\ task[t].addr \in Addrs /\ task \in [Tabs -> TaskRecs]
      /\ task[t].op \in {"persist", "create", "remove"} /\ task[t].pc = "default"
  BY BusyTab DEF PutDefault, DeleteDefault
<1>2. PICK k : k = [task[t] EXCEPT !.pc = "load"]
  OBVIOUS
<1>3. /\ k \in BusyRecs /\ k.pc = "load" /\ k.op = task[t].op /\ k.addr = task[t].addr
      /\ k.pin = task[t].pin /\ k.found = task[t].found /\ k.alone = task[t].alone
  BY <1>1, <1>2, GotoRec DEF PcNames
<1>4. task' = [task EXCEPT ![t] = k]
  BY <1>1, <1>2 DEF Goto, PutDefault, DeleteDefault
<1>5. PICK w \in {NoBlob} \cup [addr : Addrs, pin : Pins] :
        keystore' = [keystore EXCEPT !["default"] = w]
  BY <1>1 DEF PutDefault, DeleteDefault, Right, Storing
<1>6. keystore \in StoredWallets
  BY DEF AcctInv, AcctTyped
<1>7. keystore' \in StoredWallets /\ \A b \in Addrs : keystore'[Slot[b]] = keystore[Slot[b]]
  BY <1>5, <1>6, SlotIs DEF StoredWallets, Ids
<1>8. /\ passkey' \in PasskeyUnlocks /\ files' \in SUBSET [addr : Addrs, pin : Pins]
      /\ open' \in [Tabs -> OpenRecs] /\ UNCHANGED <<manifest, unwanted>>
      /\ unwanted \in SUBSET Addrs /\ manifest \in Manifests
  BY DEF PutDefault, DeleteDefault, AcctInv, AcctTyped
<1>9. \A b \in Addrs : Kept(b, keystore, unwanted) => Kept(b, keystore', unwanted')
  BY <1>7, <1>8 DEF Kept
<1>10. OwnSlots'
  BY <1>7 DEF AcctInv, OwnSlots
<1>11. ListedRight(manifest, keystore', unwanted')
  BY <1>8, <1>9, ListStays DEF AcctInv
<1>12. \A u \in Tabs : task[u].op = "remove" => task[u].addr \in unwanted'
  BY <1>8 DEF AcctInv, Right
<1>13. Right(k, keystore', unwanted') /\ SealsAll(k, keystore')
  <2>1. Right(k, keystore, unwanted)
    BY <1>1, <1>3 DEF Right, Storing, Listing
  <2> QED
    BY <1>3, <1>8, <1>9, <1>12, <1>1, <2>1, RightStays DEF SealsAll
<1> QED
  BY <1>1, <1>3, <1>4, <1>7, <1>8, <1>9, <1>10, <1>11, <1>12, <1>13, TabMoves DEF TaskRecs

\* removeAccount deletes the keystore of the account the user no longer wants, no other.
LEMMA DeleteOwnKeeps ==
  ASSUME AcctInv, NEW t \in Tabs, DeleteOwn(t)
  PROVE  AcctInv'
<1>1. /\ task[t] # Idle /\ task[t] \in BusyRecs /\ Right(task[t], keystore, unwanted)
      /\ task[t].addr \in Addrs /\ task \in [Tabs -> TaskRecs]
      /\ task[t].op = "remove" /\ task[t].pc = "own" /\ task[t].addr \in unwanted
  BY BusyTab DEF DeleteOwn, Right
<1>2. PICK k : k = [task[t] EXCEPT !.pc = "default?"]
  OBVIOUS
<1>3. /\ k \in BusyRecs /\ k.pc = "default?" /\ k.op = "remove" /\ k.addr = task[t].addr
      /\ k.pin = task[t].pin /\ k.found = task[t].found /\ k.alone = task[t].alone
  BY <1>1, <1>2, GotoRec DEF PcNames
<1>4. task' = [task EXCEPT ![t] = k]
  BY <1>1, <1>2 DEF Goto, DeleteOwn
<1>5. keystore \in StoredWallets
  BY DEF AcctInv, AcctTyped
<1>6. /\ keystore' \in StoredWallets /\ keystore'[Slot[task[t].addr]] = NoBlob
      /\ \A b \in Addrs : Slot[b] # Slot[task[t].addr] => keystore'[Slot[b]] = keystore[Slot[b]]
  BY <1>1, <1>5, SlotIs DEF DeleteOwn, StoredWallets
<1>7. /\ passkey' \in PasskeyUnlocks /\ files' \in SUBSET [addr : Addrs, pin : Pins]
      /\ open' \in [Tabs -> OpenRecs] /\ UNCHANGED <<manifest, unwanted>>
      /\ unwanted \in SUBSET Addrs /\ manifest \in Manifests
  BY DEF DeleteOwn, AcctInv, AcctTyped
<1>8. \A b \in Addrs : Kept(b, keystore, unwanted) => Kept(b, keystore', unwanted')
  BY <1>1, <1>6, <1>7 DEF Kept, OwnSlot
<1>9. OwnSlots'
  BY <1>6 DEF AcctInv, OwnSlots
<1>10. ListedRight(manifest, keystore', unwanted')
  BY <1>7, <1>8, ListStays DEF AcctInv
<1>11. \A u \in Tabs : task[u].op = "remove" => task[u].addr \in unwanted'
  BY <1>7 DEF AcctInv, Right
<1>12. Right(k, keystore', unwanted') /\ SealsAll(k, keystore')
  BY <1>1, <1>3, <1>7 DEF Right, SealsAll, Storing, Listing
<1> QED
  BY <1>1, <1>3, <1>4, <1>6, <1>7, <1>8, <1>9, <1>10, <1>11, <1>12, TabMoves DEF TaskRecs

\* changePin picks another PIN.
LEMMA AnotherPin == \A p \in Pins : OtherPin(p) \in Pins /\ OtherPin(p) # p
  BY AccountsAssumption DEF OtherPin

\* Sealing an entry again: it holds the same account, and unless the save failed one entry
\* fewer opens with the old PIN.
LEMMA SealKeeps ==
  ASSUME AcctInv, NEW t \in Tabs, NEW id \in Ids, NEW lands \in BOOLEAN,
         SealKeystore(t, id, lands)
  PROVE  AcctInv'
<1> DEFINE a == task[t].addr
<1>1. /\ task[t] # Idle /\ task[t] \in BusyRecs /\ Right(task[t], keystore, unwanted)
      /\ a \in Addrs /\ task \in [Tabs -> TaskRecs]
      /\ task[t].op = "changePin" /\ task[t].pin \in Pins
      /\ task[t].ids \subseteq {Slot[a], "default"}
      /\ task[t].pc = "seal" /\ id \in task[t].ids
  BY BusyTab DEF SealKeystore, Right
<1>2. PICK w : w = [addr |-> a, pin |-> OtherPin(task[t].pin)]
  OBVIOUS
<1>3. /\ w \in [addr : Addrs, pin : Pins] /\ w.addr = a /\ w.pin # task[t].pin
      /\ keystore' = IF lands THEN [keystore EXCEPT ![id] = w] ELSE keystore
  BY <1>1, <1>2, AnotherPin DEF SealKeystore
<1>4. keystore \in StoredWallets /\ unwanted \in SUBSET Addrs
  BY DEF AcctInv, AcctTyped
<1>5. /\ keystore' \in StoredWallets /\ (lands => keystore'[id] = w)
      /\ \A i \in Ids : i # id \/ ~lands => keystore'[i] = keystore[i]
  BY <1>3, <1>4 DEF StoredWallets
<1>6. \A b \in Addrs : Slot[b] = id => id = Slot[a]
  BY <1>1, SlotIs
<1>7. \A b \in Addrs : OwnSlot(b) /\ keystore[Slot[b]].addr = b => keystore'[Slot[b]].addr = b
  <2> SUFFICES ASSUME NEW b \in Addrs, OwnSlot(b), keystore[Slot[b]].addr = b
               PROVE  keystore'[Slot[b]].addr = b
    OBVIOUS
  <2>1. CASE Slot[b] = id /\ lands
    BY <1>1, <1>3, <1>5, <1>6, <2>1 DEF OwnSlot
  <2>2. CASE ~(Slot[b] = id /\ lands)
    BY <1>5, <2>2, SlotIs
  <2> QED
    BY <2>1, <2>2
<1>8. OwnSlots'
  <2> SUFFICES ASSUME NEW b \in Addrs, keystore'[Slot[b]] # NoBlob
               PROVE  Slot[keystore'[Slot[b]].addr] = Slot[b]
    BY DEF OwnSlots
  <2>1. CASE Slot[b] = id /\ lands
    BY <1>3, <1>5, <1>6, <2>1
  <2>2. CASE ~(Slot[b] = id /\ lands)
    BY <1>5, <2>2, SlotIs DEF AcctInv, OwnSlots
  <2> QED
    BY <2>1, <2>2
<1>9. /\ passkey' \in PasskeyUnlocks /\ files' \in SUBSET [addr : Addrs, pin : Pins]
      /\ open' \in [Tabs -> OpenRecs] /\ UNCHANGED <<manifest, unwanted>>
      /\ manifest \in Manifests
  BY DEF SealKeystore, AcctInv, AcctTyped
<1>10. \A b \in Addrs : Kept(b, keystore, unwanted) => Kept(b, keystore', unwanted')
  BY <1>7, <1>9 DEF Kept
<1>11. ListedRight(manifest, keystore', unwanted')
  BY <1>9, <1>10, ListStays DEF AcctInv
<1>12. \A u \in Tabs : task[u].op = "remove" => task[u].addr \in unwanted'
  BY <1>9 DEF AcctInv, Right
<1>13. PICK f \in BOOLEAN : f = (task[t].failed \/ ~lands)
  OBVIOUS
<1>14. PICK z \in BOOLEAN : z = (task[t].sealed \/ lands)
  OBVIOUS
<1>15. PICK k : k = [task[t] EXCEPT !.ids = task[t].ids \ {id}, !.sealed = z, !.failed = f]
  OBVIOUS
<1>16. /\ k \in BusyRecs /\ k.pc = "seal" /\ k.op = "changePin" /\ k.addr = a
       /\ k.pin = task[t].pin /\ k.found = task[t].found /\ k.alone = task[t].alone
       /\ k.ids = task[t].ids \ {id} /\ k.failed = f
  BY <1>1, <1>15 DEF BusyRecs
<1>17. task' = [task EXCEPT ![t] = k]
  BY <1>1, <1>13, <1>14, <1>15 DEF SealKeystore
<1>18. Right(k, keystore', unwanted')
  BY <1>1, <1>16 DEF Right, Storing, Listing
<1>19. k.alone => SealsAll(k, keystore')
  <2> SUFFICES ASSUME task[t].alone, ~f, NEW i \in Ids,
                      keystore'[i] = [addr |-> a, pin |-> task[t].pin]
               PROVE  i \in task[t].ids /\ i # id
    BY <1>16 DEF SealsAll
  <2>1. lands /\ ~task[t].failed
    BY <1>13
  <2>2. i # id
    BY <1>3, <1>5, <2>1
  <2>3. SealsAll(task[t], keystore)
    BY DEF AcctInv, AloneRight
  <2> QED
    BY <1>1, <1>5, <2>1, <2>2, <2>3 DEF SealsAll
<1> HIDE DEF a
<1> QED
  BY <1>1, <1>4, <1>5, <1>8, <1>9, <1>10, <1>11, <1>12, <1>16, <1>17, <1>18, <1>19, TabMoves
     DEF TaskRecs
-----------------------------------------------------------------------------
(* The manifest.                                                           *)

\* Writing back a manifest in which an account is stored before it is listed gives such a
\* manifest again, and one of its accounts is active.
LEMMA ChangedRight ==
  ASSUME NEW k \in BusyRecs, NEW ks, NEW uw, Right(k, ks, uw), k.pc = "save",
         NEW m \in Changed(k.op, k.addr, k.seen)
  PROVE  m \in Manifests /\ ListedRight(m, ks, uw)
<1> DEFINE old == k.seen
           a == k.addr
<1>1. /\ old \in Manifests /\ ListedRight(old, ks, uw) /\ a \in Addrs /\ k.op \in Listing
      /\ Nobody \notin Addrs
  BY AccountsAssumption DEF Right, BusyRecs
<1>2. CASE k.op = "remove"
  <2> DEFINE left == {b \in Addrs \ {a} : old.listed[b] # "no"}
  <2>1. PICK b \in IF old.active # a THEN {old.active} ELSE IF left = {} THEN {Nobody} ELSE left :
          m = [listed |-> [old.listed EXCEPT ![a] = "no"], active |-> b]
    BY <1>2 DEF Changed
  <2>2. b \in Addrs \cup {Nobody} /\ (b # Nobody => b # a /\ b \in Addrs /\ old.listed[b] # "no")
    BY <1>1, <2>1 DEF Manifests, ListedRight
  <2>3. /\ m.active = b /\ m.listed[a] = "no"
        /\ \A x \in Addrs \ {a} : m.listed[x] = old.listed[x]
    BY <1>1, <2>1 DEF Manifests
  <2>4. m \in Manifests
    BY <1>1, <2>1, <2>2 DEF Manifests
  <2> HIDE DEF left, old, a
  <2> QED
    BY <1>1, <2>2, <2>3, <2>4 DEF ListedRight
<1>3. CASE k.op = "activate"
  <2>1. m = [old EXCEPT !.active = a] /\ old.listed[a] # "no"
    BY <1>2, <1>3 DEF Changed, Right
  <2> QED
    BY <1>1, <2>1 DEF ListedRight, Manifests
<1>4. CASE k.op \notin {"remove", "activate"}
  <2>1. PICK how \in {"keys", "watch"} :
          /\ how = "keys" => k.op \in Storing
          /\ m = [old EXCEPT !.listed[a] = how, !.active = IF @ = Nobody THEN a ELSE @]
    BY <1>1, <1>4 DEF Changed, Listing
  <2>2. how = "keys" => Kept(a, ks, uw)
    BY <2>1 DEF Right
  <2>3. /\ m.listed[a] = how /\ \A x \in Addrs \ {a} : m.listed[x] = old.listed[x]
        /\ m.active \in {a, old.active} /\ (m.active = Nobody => old.active = Nobody)
        /\ m \in Manifests
    BY <1>1, <2>1 DEF Manifests
  <2> HIDE DEF old, a
  <2> QED
    BY <1>1, <2>2, <2>3 DEF ListedRight, Manifests
<1> HIDE DEF old, a
<1> QED
  BY <1>2, <1>3, <1>4

\* What is read is what the stored manifest says, and it holds when it is written back.
LEMMA ManifestKeeps ==
  ASSUME AcctInv, NEW t \in Tabs, LoadManifest(t) \/ SaveManifest(t)
  PROVE  AcctInv'
<1>1. CASE LoadManifest(t)
  <2>1. /\ task[t] # Idle /\ task[t] \in BusyRecs /\ Right(task[t], keystore, unwanted)
        /\ task \in [Tabs -> TaskRecs] /\ task[t].pc = "load" /\ task[t].op \in Listing
        /\ open' \in [Tabs -> OpenRecs] /\ manifest \in Manifests
        /\ UNCHANGED <<keystore, manifest, passkey, files, unwanted>>
    BY <1>1, BusyTab DEF LoadManifest, AcctInv, AcctTyped, Right
  <2>2. CASE task[t].op = "activate" /\ manifest.listed[task[t].addr] = "no"
    BY <1>1, <2>1, <2>2, TabStops DEF LoadManifest
  <2>3. CASE ~(task[t].op = "activate" /\ manifest.listed[task[t].addr] = "no")
    <3>1. PICK k : k = [task[t] EXCEPT !.pc = "save", !.seen = manifest]
      OBVIOUS
    <3>2. /\ k \in BusyRecs /\ k.pc = "save" /\ k.op = task[t].op /\ k.addr = task[t].addr
          /\ k.pin = task[t].pin /\ k.found = task[t].found /\ k.alone = task[t].alone
          /\ k.seen = manifest
      BY <2>1, <3>1 DEF BusyRecs, PcNames
    <3>3. task' = [task EXCEPT ![t] = k]
      BY <1>1, <2>1, <2>3, <3>1 DEF LoadManifest
    <3>4. Right(k, keystore, unwanted) /\ SealsAll(k, keystore)
      BY <2>1, <2>3, <3>2 DEF Right, SealsAll, AcctInv
    <3> QED
      BY <2>1, <3>2, <3>3, <3>4, TabLooks DEF TaskRecs
  <2> QED
    BY <2>2, <2>3
<1>2. CASE SaveManifest(t)
  <2>1. /\ task[t] # Idle /\ task[t] \in BusyRecs /\ Right(task[t], keystore, unwanted)
        /\ task \in [Tabs -> TaskRecs] /\ task[t].pc = "save"
        /\ manifest' \in Changed(task[t].op, task[t].addr, task[t].seen)
        /\ UNCHANGED <<keystore, passkey, files, unwanted>>
    BY <1>2, BusyTab DEF SaveManifest
  <2>2. manifest' \in Manifests /\ ListedRight(manifest', keystore', unwanted')
    BY <2>1, ChangedRight
  <2>3. open' \in [Tabs -> OpenRecs]
    <3>1. open \in [Tabs -> OpenRecs]
      BY DEF AcctInv, AcctTyped
    <3>2. /\ task[t].addr \in Addrs /\ task[t].found \in OpenRecs
          /\ [addr |-> task[t].addr, keys |-> TRUE] \in OpenRecs /\ Closed \in OpenRecs
      BY <2>1 DEF BusyRecs, OpenRecs
    <3>3. \/ open' = open \/ open' = [open EXCEPT ![t] = Closed]
          \/ open' = [open EXCEPT ![t] = [addr |-> task[t].addr, keys |-> TRUE]]
          \/ open' = [open EXCEPT ![t] = task[t].found]
      BY <1>2 DEF SaveManifest
    <3> QED
      BY <3>1, <3>2, <3>3
  <2>4. PICK k : k = IF task[t].op = "create" THEN [task[t] EXCEPT !.pc = "backup"] ELSE Idle
    OBVIOUS
  <2>5. task' = [task EXCEPT ![t] = k]
    BY <1>2, <2>1, <2>4 DEF SaveManifest, Goto, Stop
  <2>6. /\ k \in TaskRecs /\ (k.alone => task[t].alone) /\ Right(k, keystore', unwanted')
        /\ SealsAll(k, keystore')
    <3>1. CASE task[t].op = "create"
      <4>1. /\ k \in BusyRecs /\ k.pc = "backup" /\ k.op = "create" /\ k.addr = task[t].addr
            /\ k.pin = task[t].pin /\ k.alone = task[t].alone
        BY <2>1, <2>4, <3>1, GotoRec DEF PcNames
      <4> QED
        BY <2>1, <3>1, <4>1 DEF Right, SealsAll, TaskRecs, Storing, Listing
    <3>2. CASE task[t].op # "create"
      BY <2>4, <3>2, IdleRec, IdleRight DEF SealsAll
    <3> QED
      BY <3>1, <3>2
  <2>7. /\ keystore' \in StoredWallets /\ passkey' \in PasskeyUnlocks
        /\ files' \in SUBSET [addr : Addrs, pin : Pins] /\ unwanted' \in SUBSET Addrs /\ OwnSlots'
        /\ \A a \in Addrs : Kept(a, keystore, unwanted) => Kept(a, keystore', unwanted')
        /\ \A u \in Tabs \ {t} : task[u].op = "remove" => task[u].addr \in unwanted'
    BY <2>1 DEF AcctInv, AcctTyped, OwnSlots, Right
  <2> QED
    BY <2>1, <2>2, <2>3, <2>5, <2>6, <2>7, TabMoves
<1> QED
  BY <1>1, <1>2

-----------------------------------------------------------------------------
(* The steps that read.                                                    *)

\* The looks at `default' and at the manifest, the confirmed backup and the changed PIN.
LEMMA LookKeeps ==
  ASSUME AcctInv, NEW t \in Tabs,
         \/ LookForDefault(t) \/ CheckWatch(t) \/ LookAtDefault(t) \/ Preflight(t)
         \/ FindKeystore(t) \/ ConfirmBackup(t) \/ CloseTab(t) \/ ChangePinEnds(t)
  PROVE  AcctInv'
<1>1. /\ task[t] # Idle /\ Right(task[t], keystore, unwanted) /\ open \in [Tabs -> OpenRecs]
      /\ task[t].addr \in Addrs
  <2>1. CASE CloseTab(t)
    BY <2>1 DEF CloseTab, AcctInv, AcctTyped, TaskRecs, BusyRecs
  <2> QED
    BY <2>1, BusyTab DEF LookForDefault, CheckWatch, LookAtDefault, Preflight,
      FindKeystore, ConfirmBackup, ChangePinEnds, AcctInv, AcctTyped
<1>2. /\ UNCHANGED <<keystore, manifest, passkey, files, unwanted>>
      /\ open' \in [Tabs -> OpenRecs]
  <2>1. Closed \in OpenRecs /\ [addr |-> task[t].addr, keys |-> TRUE] \in OpenRecs
    BY <1>1 DEF OpenRecs
  <2>2. /\ UNCHANGED <<keystore, manifest, passkey, files, unwanted>>
        /\ \/ open' = open \/ open' = [open EXCEPT ![t] = Closed]
           \/ open' = [open EXCEPT ![t] = [addr |-> task[t].addr, keys |-> TRUE]]
    BY DEF LookForDefault, CheckWatch, LookAtDefault, Preflight, FindKeystore,
      ConfirmBackup, CloseTab, ChangePinEnds
  <2> QED
    BY <1>1, <2>1, <2>2
<1>3. CASE Stop(t)
  BY <1>1, <1>2, <1>3, TabStops
<1>4. CASE ~Stop(t)
  <2>1. open' = open
    BY <1>4 DEF LookForDefault, CheckWatch, LookAtDefault, Preflight, FindKeystore,
      ConfirmBackup, CloseTab, ChangePinEnds
  <2>2. PICK p \in {"default", "load", "watched", "keystore", "list"} :
          /\ Goto(t, p) /\ (task[t].op \in Storing => task[t].pc # "own")
          /\ p = "load" => task[t].op \in Listing
          /\ p = "list" => task[t].op = "changePin"
    <3>1. CASE LookForDefault(t)
      BY <3>1 DEF LookForDefault, Listing, Storing
    <3>2. CASE CheckWatch(t)
      BY <1>4, <3>2 DEF CheckWatch, Listing, Storing
    <3>3. CASE LookAtDefault(t)
      BY <3>3 DEF LookAtDefault, Listing, Storing
    <3>4. CASE Preflight(t)
      BY <1>4, <3>4 DEF Preflight
    <3>5. CASE FindKeystore(t)
      BY <1>1, <1>4, <3>5 DEF FindKeystore, Right
    <3> QED
      BY <1>4, <3>1, <3>2, <3>3, <3>4, <3>5 DEF ConfirmBackup, CloseTab, ChangePinEnds
  <2>3. p \in PcNames \ {"save", "seal"} /\ p # "backup" /\ p # "find"
    BY DEF PcNames
  <2> QED
    BY <1>1, <1>2, <2>1, <2>2, <2>3, TabGoes
<1> QED
  BY <1>3, <1>4

\* unlockAccount finds the wallet of the account asked for, or the operation ends.
LEMMA UnlockKeeps ==
  ASSUME AcctInv, NEW t \in Tabs, OpenWatched(t) \/ OwnKeystore(t) \/ RootKeystore(t)
  PROVE  AcctInv'
<1>1. /\ task[t] # Idle /\ task[t] \in BusyRecs /\ task \in [Tabs -> TaskRecs]
      /\ task[t].pc \in {"watched", "keystore", "root"} /\ Right(task[t], keystore, unwanted)
      /\ UNCHANGED <<keystore, manifest, passkey, files, open, unwanted>>
      /\ open' \in [Tabs -> OpenRecs]
  BY BusyTab DEF OpenWatched, OwnKeystore, RootKeystore, AcctInv, AcctTyped
<1>2. CASE Stop(t)
  BY <1>1, <1>2, TabStops
<1>3. CASE Goto(t, "root")
  BY <1>1, <1>3, TabGoes DEF PcNames
<1>4. ASSUME NEW b \in BOOLEAN, Found(t, [addr |-> task[t].addr, keys |-> b]) PROVE AcctInv'
  <2>1. PICK w : w = [addr |-> task[t].addr, keys |-> b]
    OBVIOUS
  <2>2. PICK k : k = [task[t] EXCEPT !.op = "activate", !.pc = "load", !.found = w]
    OBVIOUS
  <2>3. w \in OpenRecs /\ w.addr = task[t].addr
    BY <1>1, <2>1 DEF BusyRecs, OpenRecs
  <2>4. /\ k \in BusyRecs /\ k.pc = "load" /\ k.op = "activate" /\ k.addr = task[t].addr
        /\ k.found = w /\ k.alone = task[t].alone
    BY <1>1, <2>2, <2>3 DEF BusyRecs, OpNames, Listing, PcNames
  <2>5. task' = [task EXCEPT ![t] = k]
    BY <1>1, <1>4, <2>1, <2>2 DEF Found
  <2>6. Right(k, keystore, unwanted) /\ SealsAll(k, keystore)
    BY <2>3, <2>4 DEF Right, SealsAll, Storing, Listing
  <2> QED
    BY <1>1, <2>4, <2>5, <2>6, TabLooks DEF TaskRecs
<1>5. \/ Stop(t) \/ Goto(t, "root")
      \/ \E b \in BOOLEAN : Found(t, [addr |-> task[t].addr, keys |-> b])
  BY DEF OpenWatched, OwnKeystore, RootKeystore
<1> QED
  BY <1>2, <1>3, <1>4, <1>5

\* changePin collects every entry that holds the account and opens with the old PIN.
LEMMA ListKeeps ==
  ASSUME AcctInv, NEW t \in Tabs, ListKeystores(t)
  PROVE  AcctInv'
<1> DEFINE all == {id \in Ids : keystore[id] = [addr |-> task[t].addr, pin |-> task[t].pin]}
<1>1. /\ task[t] # Idle /\ task[t] \in BusyRecs /\ Right(task[t], keystore, unwanted)
      /\ task \in [Tabs -> TaskRecs] /\ task[t].pc = "list" /\ task[t].op = "changePin"
      /\ task[t].addr \in Addrs
      /\ UNCHANGED <<keystore, manifest, passkey, files, open, unwanted>>
      /\ open' \in [Tabs -> OpenRecs]
  BY BusyTab DEF ListKeystores, AcctInv, AcctTyped, Right
<1>2. PICK i \in SUBSET Ids : i = all
  OBVIOUS
<1>3. i \subseteq {Slot[task[t].addr], "default"}
  <2> SUFFICES ASSUME NEW b \in Addrs, Slot[b] \in i PROVE Slot[b] = Slot[task[t].addr]
    BY DEF Ids
  <2>1. keystore[Slot[b]].addr = task[t].addr /\ keystore[Slot[b]] # NoBlob
    BY <1>1, <1>2, AccountsAssumption DEF NoBlob
  <2> QED
    BY <2>1 DEF AcctInv, OwnSlots
<1>4. PICK k : k = [task[t] EXCEPT !.pc = "seal", !.ids = i]
  OBVIOUS
<1>5. /\ k \in BusyRecs /\ k.pc = "seal" /\ k.op = "changePin" /\ k.addr = task[t].addr
      /\ k.pin = task[t].pin /\ k.found = task[t].found /\ k.alone = task[t].alone
      /\ k.ids = i
  BY <1>1, <1>4 DEF BusyRecs, PcNames
<1>6. task' = [task EXCEPT ![t] = k]
  BY <1>2, <1>4 DEF ListKeystores
<1>7. Right(k, keystore, unwanted)
  BY <1>1, <1>3, <1>5 DEF Right, Storing, Listing
<1>8. SealsAll(k, keystore)
  BY <1>2, <1>5 DEF SealsAll
<1> HIDE DEF all
<1> QED
  BY <1>1, <1>5, <1>6, <1>7, <1>8, TabLooks DEF TaskRecs

-----------------------------------------------------------------------------
(* The steps of a tab that is not busy.                                    *)

\* The user starts an operation.
LEMMA StartKeeps ==
  ASSUME AcctInv, NEW t \in Tabs, NEW a \in Addrs, NEW pin \in Pins,
         \/ BeginWatch(t, a) \/ BeginRemove(t, a) \/ ImportPhrase(t, a, pin)
         \/ ImportKey(t, a, pin) \/ CreateWallet(t, a, pin) \/ BeginDerive(t, a, pin)
         \/ BeginUnlock(t, a, pin) \/ \E f \in files : ImportFile(t, f, pin)
  PROVE  AcctInv'
<1>1. open \in [Tabs -> OpenRecs] /\ unwanted \in SUBSET Addrs /\ \A f \in files : f.addr \in Addrs
  BY DEF AcctInv, AcctTyped
<1>2. CASE BeginWatch(t, a)
  BY <1>1, <1>2, TabBegins DEF BeginWatch, Begin, OpNames, Listing, Storing, PcNames
<1>3. CASE BeginRemove(t, a)
  BY <1>1, <1>3, TabBegins DEF BeginRemove, Begin, OpNames, Listing, Storing, PcNames
<1>4. CASE BeginUnlock(t, a, pin)
  BY <1>1, <1>4, TabBegins DEF BeginUnlock, Begin, OpNames, Listing, Storing, PcNames
<1>5. ASSUME NEW b \in Addrs, NEW op \in Storing, Begin(t, op, b, pin, "own"), UNCHANGED unwanted
      PROVE  AcctInv'
  <2>1. op \in OpNames /\ op \notin {"remove", "changePin"} /\ "own" \in PcNames
    BY DEF OpNames, Listing, Storing, PcNames
  <2> QED
    BY <1>1, <1>5, <2>1, TabBegins DEF Begin
<1>6. CASE \/ ImportPhrase(t, a, pin) \/ ImportKey(t, a, pin) \/ CreateWallet(t, a, pin)
           \/ BeginDerive(t, a, pin)
  BY <1>5, <1>6 DEF ImportPhrase, ImportKey, CreateWallet, BeginDerive, Storing
<1>7. CASE \E f \in files : ImportFile(t, f, pin)
  BY <1>1, <1>5, <1>7 DEF ImportFile, Storing
<1> QED
  BY <1>2, <1>3, <1>4, <1>6, <1>7

\* The user starts to change the PIN, or unlocks a closed wallet.
LEMMA StartHereKeeps ==
  ASSUME AcctInv, NEW t \in Tabs, NEW pin \in Pins,
         BeginChangePin(t, pin) \/ \E id \in Ids : UnlockScreen(t, id, pin)
  PROVE  AcctInv'
<1>1. open \in [Tabs -> OpenRecs] /\ unwanted \in SUBSET Addrs /\ keystore \in StoredWallets
  BY DEF AcctInv, AcctTyped
<1>2. CASE BeginChangePin(t, pin)
  <2>1. open[t].addr \in Addrs
    BY <1>1, <1>2 DEF BeginChangePin, OpenRecs, Closed
  <2> QED
    BY <1>1, <1>2, <2>1, TabBegins
       DEF BeginChangePin, Begin, OpNames, Listing, Storing, PcNames
<1>3. ASSUME NEW id \in Ids, UnlockScreen(t, id, pin) PROVE AcctInv'
  <2>1. keystore[id].addr \in Addrs
    BY <1>1, <1>3 DEF UnlockScreen, StoredWallets
  <2>2. [addr |-> keystore[id].addr, keys |-> TRUE] \in OpenRecs
    BY <2>1 DEF OpenRecs
  <2>3. open' \in [Tabs -> OpenRecs]
    BY <1>1, <1>3, <2>2 DEF UnlockScreen
  <2>4. PICK a \in Addrs : a = keystore[id].addr
    BY <2>1
  <2>5. /\ task[t] = Idle /\ task' = Begun(t, "activate", a, pin, "load")
        /\ UNCHANGED <<keystore, manifest, passkey, files, unwanted>>
    BY <1>3, <2>4 DEF UnlockScreen
  <2>6. "activate" \in Listing \ Storing /\ "activate" \in OpNames /\ "load" \in PcNames
    BY DEF OpNames, Listing, Storing, PcNames
  <2> QED
    BY <1>1, <2>3, <2>5, <2>6, TabBegins
<1> QED
  BY <1>2, <1>3

\* Files, the passkey and the lock leave keystores and manifest alone.
LEMMA BesideKeeps ==
  ASSUME AcctInv, NEW t \in Tabs,
         \/ \E pin \in Pins : ExportFile(t, pin)
         \/ EnablePasskey(t) \/ UnlockWithPasskey(t) \/ Lock(t) \/ DisablePasskey
  PROVE  AcctInv'
<1>1. /\ open \in [Tabs -> OpenRecs] /\ passkey \in PasskeyUnlocks
      /\ files \in SUBSET [addr : Addrs, pin : Pins]
  BY DEF AcctInv, AcctTyped
<1>2. open[t].keys => open[t].addr \in Addrs
  BY <1>1 DEF OpenRecs, Closed
<1>3. UNCHANGED <<keystore, manifest, task, unwanted>>
  BY DEF ExportFile, EnablePasskey, UnlockWithPasskey, Lock, DisablePasskey
<1>4. passkey' \in PasskeyUnlocks
  BY <1>1, <1>2 DEF ExportFile, EnablePasskey, UnlockWithPasskey, Lock, DisablePasskey,
    PasskeyUnlocks
<1>5. files' \in SUBSET [addr : Addrs, pin : Pins]
  BY <1>1, <1>2 DEF ExportFile, EnablePasskey, UnlockWithPasskey, Lock, DisablePasskey
<1>6. open' \in [Tabs -> OpenRecs]
  <2>1. Closed \in OpenRecs /\ (passkey # Nobody => [addr |-> passkey, keys |-> TRUE] \in OpenRecs)
    BY <1>1 DEF OpenRecs, PasskeyUnlocks
  <2> QED
    BY <1>1, <2>1 DEF ExportFile, EnablePasskey, UnlockWithPasskey, Lock, DisablePasskey
<1> QED
  BY <1>3, <1>4, <1>5, <1>6, QuietAcct
-----------------------------------------------------------------------------
(* The theorems.                                                           *)

\* What earlier sessions left is stored before it is listed.
LEMMA AcctInitInv == AcctInit => AcctInv
<1> SUFFICES ASSUME AcctInit PROVE AcctInv
  OBVIOUS
<1> PICK S \in Earlier :
      LET first == IF S = {} THEN Nobody ELSE CHOOSE a \in S : HdIndex[a] = 0
          pin   == CHOOSE p \in Pins : TRUE
          owner(id) == IF id = "default" THEN first
                       ELSE IF \E a \in S : Slot[a] = id THEN CHOOSE a \in S : Slot[a] = id
                       ELSE Nobody
      IN
      /\ keystore = [id \in Ids |-> IF owner(id) \in S THEN [addr |-> owner(id), pin |-> pin]
                                    ELSE NoBlob]
      /\ manifest = [listed |-> [a \in Addrs |-> IF a \in S THEN "keys" ELSE "no"],
                     active |-> first]
  BY DEF AcctInit
<1> DEFINE first == IF S = {} THEN Nobody ELSE CHOOSE a \in S : HdIndex[a] = 0
           pin   == CHOOSE p \in Pins : TRUE
           owner(id) == IF id = "default" THEN first
                        ELSE IF \E a \in S : Slot[a] = id THEN CHOOSE a \in S : Slot[a] = id
                        ELSE Nobody
<1>1. S \subseteq Addrs /\ Nobody \notin Addrs /\ \A a \in Addrs : Slot[a] # "default"
  BY AccountsAssumption
<1>2. pin \in Pins /\ (S = {} => first = Nobody) /\ (S # {} => first \in S)
  BY AccountsAssumption
<1>3. /\ keystore = [id \in Ids |-> IF owner(id) \in S THEN [addr |-> owner(id), pin |-> pin]
                                    ELSE NoBlob]
      /\ manifest = [listed |-> [a \in Addrs |-> IF a \in S THEN "keys" ELSE "no"],
                     active |-> first]
  OBVIOUS
<1> HIDE DEF first, pin
<1>4. keystore \in StoredWallets
  <2> SUFFICES ASSUME NEW id \in Ids PROVE keystore[id] \in {NoBlob} \cup [addr : Addrs, pin : Pins]
    BY <1>3 DEF StoredWallets
  <2> QED
    BY <1>1, <1>2, <1>3
<1>5. manifest \in Manifests
  BY <1>1, <1>2, <1>3 DEF Manifests
<1>6. ASSUME NEW a \in Addrs
      PROVE  /\ keystore[Slot[a]] # NoBlob => Slot[keystore[Slot[a]].addr] = Slot[a]
             /\ a \in S => /\ Slot[keystore[Slot[a]].addr] = Slot[a]
                           /\ keystore[Slot[a]].addr \in Addrs
  <2>1. /\ Slot[a] \in Ids /\ Slot[a] # "default"
        /\ keystore[Slot[a]] = IF owner(Slot[a]) \in S
                                 THEN [addr |-> owner(Slot[a]), pin |-> pin] ELSE NoBlob
    BY <1>3, SlotIs
  <2>2. CASE \E b \in S : Slot[b] = Slot[a]
    <3>1. owner(Slot[a]) \in S /\ Slot[owner(Slot[a])] = Slot[a]
      BY <2>1, <2>2
    <3> QED
      BY <1>1, <2>1, <3>1
  <2>3. CASE ~\E b \in S : Slot[b] = Slot[a]
    <3>1. owner(Slot[a]) = Nobody /\ Nobody \notin S /\ a \notin S
      BY <1>1, <2>1, <2>3
    <3> QED
      BY <2>1, <3>1
  <2> QED
    BY <2>2, <2>3
<1>7. OwnSlots
  BY <1>6 DEF OwnSlots
<1>8. ListedRight(manifest, keystore, unwanted)
  <2>1. ASSUME NEW a \in Addrs, manifest.listed[a] = "keys", OwnSlot(a)
        PROVE  keystore[Slot[a]].addr = a
    <3>1. a \in S
      BY <1>3, <2>1
    <3> QED
      BY <1>6, <2>1, <3>1 DEF OwnSlot
  <2>2. \A a \in Addrs : manifest.listed[a] = "keys" => Kept(a, keystore, unwanted)
    BY <2>1 DEF Kept
  <2>3. manifest.active # Nobody => manifest.listed[manifest.active] # "no"
    BY <1>1, <1>2, <1>3
  <2> QED
    BY <2>2, <2>3 DEF ListedRight
<1>9. AcctTyped
  BY <1>4, <1>5, IdleRec DEF AcctInit, AcctTyped, PasskeyUnlocks
<1>10. \A t \in Tabs : task[t] = Idle
  BY DEF AcctInit
<1> QED
  BY <1>7, <1>8, <1>9, <1>10, IdleRec, IdleRight DEF AcctInv, AloneRight

\* Every step of every tab keeps AcctInv.
LEMMA AcctStepInv == AcctInv /\ [AcctNext]_acct_vars => AcctInv'
<1> SUFFICES ASSUME AcctInv, [AcctNext]_acct_vars PROVE AcctInv'
  OBVIOUS
<1>1. CASE UNCHANGED acct_vars
  BY <1>1, QuietAcct DEF acct_vars, AcctInv, AcctTyped
<1>2. ASSUME NEW t \in Tabs, TaskStep(t) PROVE AcctInv'
  BY <1>2, ManifestKeeps, PutOwnKeeps, DefaultKeeps, DeleteOwnKeeps, LookKeeps, UnlockKeeps,
     ListKeeps, SealKeeps DEF TaskStep
<1>3. ASSUME NEW t \in Tabs, NEW a \in Addrs, BeginWatch(t, a) \/ BeginRemove(t, a)
      PROVE  AcctInv'
  <2>1. PICK pin \in Pins : TRUE
    BY AccountsAssumption
  <2> QED
    BY <1>3, <2>1, StartKeeps
<1>4. ASSUME NEW t \in Tabs, NEW f \in files, NEW pin \in Pins, ImportFile(t, f, pin)
      PROVE  AcctInv'
  <2>1. f.addr \in Addrs
    BY DEF AcctInv, AcctTyped
  <2> QED
    BY <1>4, <2>1, StartKeeps
<1>5. ASSUME AcctNext PROVE AcctInv'
  BY <1>2, <1>3, <1>4, <1>5, StartKeeps, StartHereKeeps, BesideKeeps, LookKeeps DEF AcctNext
<1> QED
  BY <1>1, <1>5

\* Whatever the tabs do with the accounts, and wherever one is closed: each keystore is in
\* its own account's slot, an account is stored before it is listed, and the account
\* of an operation is the one it was started for.
THEOREM AccountsKept == AcctSpec => []AcctInv
  BY AcctInitInv, AcctStepInv, PTL DEF AcctSpec

\* An account listed with keys, that nobody asked to remove, can be opened with some PIN,
\* and the active account is a listed one (saveWallet and saveAccountManifest).
THEOREM ListedOpens == AcctSpec => []ListedAccountOpens
<1>1. AcctInv => ListedAccountOpens
  BY DEF AcctInv, ListedRight, Kept, ListedAccountOpens
<1> QED
  BY <1>1, AccountsKept, PTL

\* The operations that open or lock a wallet.
OpensOrLocks(u) ==
  \/ SaveManifest(u) \/ ConfirmBackup(u) \/ UnlockWithPasskey(u) \/ Lock(u) \/ CloseTab(u)
  \/ \E id \in Ids, pin \in Pins : UnlockScreen(u, id, pin)

\* The other operations leave the open wallet alone.
LEMMA OthersOpenNothing ==
  ASSUME AcctNext
  PROVE  \E u \in Tabs : open' = open \/ OpensOrLocks(u)
<1>1. ASSUME NEW u \in Tabs, TaskStep(u)
      PROVE  open' = open \/ OpensOrLocks(u)
  <2>1. CASE LoadManifest(u) \/ SaveManifest(u) \/ LookForDefault(u) \/ CheckWatch(u)
    BY <2>1 DEF LoadManifest, LookForDefault, CheckWatch, OpensOrLocks
  <2>2. CASE PutOwn(u) \/ PutDefault(u) \/ DeleteOwn(u) \/ DeleteDefault(u)
    BY <2>2 DEF PutOwn, PutDefault, DeleteOwn, DeleteDefault
  <2>3. CASE LookAtDefault(u) \/ Preflight(u) \/ OpenWatched(u) \/ OwnKeystore(u)
    BY <2>3 DEF LookAtDefault, Preflight, OpenWatched, OwnKeystore
  <2>4. CASE \/ RootKeystore(u) \/ FindKeystore(u) \/ ListKeystores(u) \/ ChangePinEnds(u)
             \/ \E id \in Ids, lands \in BOOLEAN : SealKeystore(u, id, lands)
    BY <2>4 DEF RootKeystore, FindKeystore, ListKeystores, ChangePinEnds, SealKeystore
  <2> QED
    BY <1>1, <2>1, <2>2, <2>3, <2>4 DEF TaskStep
<1>2. ASSUME NEW u, NEW a, NEW pin, NEW f,
             \/ BeginWatch(u, a) \/ BeginRemove(u, a) \/ ImportPhrase(u, a, pin)
             \/ ImportKey(u, a, pin) \/ CreateWallet(u, a, pin) \/ BeginDerive(u, a, pin)
             \/ BeginUnlock(u, a, pin) \/ BeginChangePin(u, pin) \/ ExportFile(u, pin)
             \/ ImportFile(u, f, pin) \/ EnablePasskey(u) \/ DisablePasskey
      PROVE  open' = open
  BY <1>2 DEF BeginWatch, BeginRemove, ImportPhrase, ImportKey, CreateWallet, BeginDerive,
    BeginUnlock, BeginChangePin, ExportFile, ImportFile, Begin, EnablePasskey, DisablePasskey
<1> QED
  BY <1>1, <1>2 DEF AcctNext, OpensOrLocks

\* The keys that unlockAccount puts in memory are those of the address it was asked for.
THEOREM OpensAskedFor == AcctSpec => OpensTheAccountAsked
<1> DEFINE A == \A t \in Tabs :
                  task[t].op = "activate" /\ open'[t] # open[t] /\ open'[t] # Closed
                    => open'[t].addr = task[t].addr
<1>1. AcctInv /\ [AcctNext]_acct_vars => [A]_acct_vars
  <2> SUFFICES ASSUME AcctInv, AcctNext, NEW t \in Tabs, task[t].op = "activate",
                      open'[t] # open[t], open'[t] # Closed
               PROVE  open'[t].addr = task[t].addr
    BY DEF acct_vars
  <2>1. /\ open \in [Tabs -> OpenRecs] /\ task[t] # Idle
        /\ task[t].found # Closed => task[t].found.addr = task[t].addr
        /\ task[t].pc # "backup"
    BY IdleRec DEF AcctInv, AcctTyped, Right
  <2>2. PICK u \in Tabs : OpensOrLocks(u)
    BY OthersOpenNothing
  <2>3. SaveManifest(t)
    BY <2>1, <2>2 DEF OpensOrLocks, SaveManifest, ConfirmBackup, UnlockWithPasskey, Lock, CloseTab,
      UnlockScreen
  <2> QED
    BY <2>1, <2>3 DEF SaveManifest
<1> QED
  BY <1>1, AccountsKept, PTL DEF AcctSpec, OpensTheAccountAsked

\* After changePin, with no other tab busy and no save failed, no stored copy of the account
\* opens with the old PIN: each entry that did was sealed again, `default' too.
THEOREM OldPinGone == AcctSpec => []OldPinOpensNothing
<1>1. AcctInv => OldPinOpensNothing
  <2> SUFFICES ASSUME AcctInv, NEW t \in Tabs, task[t].pc = "seal", task[t].ids = {},
                      ~task[t].failed, task[t].alone, NEW id \in Ids
               PROVE  keystore[id] # [addr |-> task[t].addr, pin |-> task[t].pin]
    BY DEF OldPinOpensNothing, PinChanged, OldPinIsUseless
  <2>1. SealsAll(task[t], keystore)
    BY DEF AcctInv, AloneRight
  <2> QED
    BY <2>1 DEF SealsAll
<1> QED
  BY <1>1, AccountsKept, PTL

\* A step starts no operation or one of those left.
Startable == started \in 0..MaxTasks

LEMMA StartedStep == Startable /\ [AcctNext]_acct_vars => Startable'
<1> SUFFICES ASSUME started \in 0..MaxTasks, [AcctNext]_acct_vars PROVE started' \in 0..MaxTasks
  BY DEF Startable
<1>1. MaxTasks \in Nat
  BY AccountsAssumption
<1>2. ASSUME NEW t \in Tabs, TaskStep(t) PROVE started' = started
  BY <1>2 DEF TaskStep, LoadManifest, SaveManifest, PutOwn, LookForDefault, PutDefault, CheckWatch, DeleteOwn,
     LookAtDefault, DeleteDefault, Preflight, OpenWatched, OwnKeystore, RootKeystore, FindKeystore,
     ListKeystores, SealKeystore, ChangePinEnds
<1>3. started' = started \/ (started < MaxTasks /\ started' = started + 1)
  BY <1>2 DEF AcctNext, acct_vars, BeginWatch, BeginRemove, ImportPhrase, ImportKey, CreateWallet, BeginDerive,
     BeginUnlock, ConfirmBackup, BeginChangePin, ExportFile, ImportFile, UnlockScreen, EnablePasskey,
     UnlockWithPasskey, Lock, CloseTab, DisablePasskey, Begin
<1> QED
  BY <1>1, <1>3

LEMMA AcctWholeInit == AcctInit => AcctInv /\ Startable
<1> SUFFICES ASSUME AcctInit PROVE AcctInv /\ started \in 0..MaxTasks
  BY DEF Startable
<1>1. started = 0
  BY DEF AcctInit
<1>2. MaxTasks \in Nat
  BY AccountsAssumption
<1>3. started \in 0..MaxTasks
  BY <1>1, <1>2
<1> QED
  BY <1>3, AcctInitInv

LEMMA AcctWholeTypes == AcctInv /\ Startable => AcctTypeOK
<1> SUFFICES ASSUME AcctInv, started \in 0..MaxTasks PROVE AcctTypeOK
  BY DEF Startable
<1>1. open \in [Tabs -> [addr : Addrs \cup {Nobody}, keys : BOOLEAN]]
  <2>1. OpenRecs \subseteq [addr : Addrs \cup {Nobody}, keys : BOOLEAN]
    <3>1. Closed \in [addr : Addrs \cup {Nobody}, keys : BOOLEAN]
      BY DEF Closed
    <3>2. \A r \in [addr : Addrs, keys : BOOLEAN] : r \in [addr : Addrs \cup {Nobody}, keys : BOOLEAN]
      OBVIOUS
    <3> QED
      BY <3>1, <3>2 DEF OpenRecs
  <2>2. open \in [Tabs -> OpenRecs]
    BY DEF AcctInv, AcctTyped
  <2> QED
    BY <2>1, <2>2
<1> QED
  BY <1>1 DEF AcctInv, AcctTyped, AcctTypeOK

-----------------------------------------------------------------------------
(***************************************************************************)
(* UnlockScreen. However the two screens interleave, guesses are paced.    *)
(***************************************************************************)

\* What makes the pacing inductive: an attempt of the burst is an attempt of the count, so
\* a count that has reached the limit refuses before the burst passes it, and a count that
\* starts again does so only after a pause that ends the burst, unless a wrong PIN was
\* swallowed.  One more is counted at each pause of exactly Lockout, so the count is bounded
\* by the ticks it took.
InStep(w) ==
  /\ attemptLog[w].count \in Nat /\ attemptLog[w].last \in 0..clock
  /\ attemptLog[w].count <= MaxAttempts + attemptLog[w].last
  /\ burst[w].count \in 0..(MaxAttempts + 1) /\ burst[w].last \in 0..clock
  /\ attemptLog[w].count = 0 \/ attemptLog[w].last = burst[w].last
  /\ w \notin unpaced => burst[w].count <= attemptLog[w].count /\ burst[w].count <= MaxAttempts

AttemptRecs == [count : Nat, last : Nat]

PinInv == /\ clock \in 0..MaxClock
          /\ attemptLog \in [Askers -> AttemptRecs] /\ burst \in [Askers -> AttemptRecs]
          /\ unpaced \subseteq Askers
          /\ \A w \in Askers : InStep(w)

-----------------------------------------------------------------------------
LEMMA NoAttemptsIs == NoAttempts \in AttemptRecs /\ NoAttempts.count = 0 /\ NoAttempts.last = 0
BY DEF NoAttempts, AttemptRecs

\* recordPinAttempt keeps the count and the burst of who asks in step.
LEMMA RecordKeepsPace ==
  ASSUME PinInv, NEW w \in Askers, RecordPinAttempt(w), UNCHANGED clock
  PROVE  PinInv'
<1> DEFINE entry  == [count |-> Counted(w), last |-> clock]
           paused == clock - burst[w].last >= Lockout
           n      == IF paused THEN 1 ELSE burst[w].count + 1
           m      == IF n > MaxAttempts THEN MaxAttempts + 1 ELSE n
           run    == [count |-> m, last |-> clock]
<1>1. /\ attemptLog' = [attemptLog EXCEPT ![w] = entry] /\ burst' = [burst EXCEPT ![w] = run]
      /\ unpaced' = IF paused THEN unpaced \ {w} ELSE unpaced
      /\ ~LockedOut(w)
  BY DEF RecordPinAttempt
<1>2. InStep(w) /\ clock \in Nat /\ MaxAttempts \in Nat \ {0} /\ Lockout \in Nat \ {0}
  BY PinAssumption DEF PinInv
<1>3. /\ attemptLog[w].count \in Nat /\ attemptLog[w].last \in Nat /\ attemptLog[w].last <= clock
      /\ attemptLog[w].count <= MaxAttempts + attemptLog[w].last
      /\ burst[w].count \in Nat /\ burst[w].count <= MaxAttempts + 1
      /\ burst[w].last \in Nat /\ burst[w].last <= clock
  BY <1>2 DEF InStep
<1>4. Counted(w) \in Nat /\ Counted(w) >= 1 /\ Counted(w) <= MaxAttempts + clock
  <2>1. CASE attemptLog[w].count = 0 \/ Since(w) > Lockout
    BY <1>2, <2>1 DEF Counted
  <2>2. CASE ~(attemptLog[w].count = 0 \/ Since(w) > Lockout)
    <3>1. Counted(w) = attemptLog[w].count + 1 BY <2>2 DEF Counted
    <3>2. CASE attemptLog[w].last < clock BY <1>2, <1>3, <3>1, <3>2
    <3>3. CASE attemptLog[w].last = clock
      <4>1. attemptLog[w].count < MaxAttempts
        BY <1>1, <1>2, <1>3, <3>3 DEF LockedOut, Since
      <4> QED BY <1>2, <1>3, <3>1, <4>1
    <3> QED BY <1>2, <1>3, <3>2, <3>3
  <2> QED BY <2>1, <2>2
<1>5. m \in 0..(MaxAttempts + 1) BY <1>2, <1>3
<1>6. ASSUME w \notin unpaced' PROVE m <= Counted(w) /\ m <= MaxAttempts
  <2>1. CASE paused BY <1>2, <1>4, <2>1
  <2>2. CASE ~paused
    <3>1. w \notin unpaced BY <1>1, <1>6, <2>2
    <3>2. burst[w].count <= attemptLog[w].count BY <1>2, <3>1 DEF InStep
    <3>3. n = burst[w].count + 1 BY <2>2
    <3>4. CASE attemptLog[w].count = 0 BY <1>2, <1>3, <1>4, <3>2, <3>3, <3>4
    <3>5. CASE attemptLog[w].count # 0
      <4>1. Since(w) < Lockout BY <1>2, <1>3, <2>2, <3>5 DEF InStep, Since
      <4>2. attemptLog[w].count < MaxAttempts BY <1>1, <1>2, <1>3, <4>1 DEF LockedOut
      <4>3. Counted(w) = attemptLog[w].count + 1
        BY <1>2, <1>3, <3>5, <4>1 DEF Counted, Since
      <4> QED BY <1>2, <1>3, <3>2, <3>3, <4>2, <4>3
    <3> QED BY <3>4, <3>5
  <2> QED BY <2>1, <2>2
<1>7. /\ entry \in AttemptRecs /\ entry.count = Counted(w) /\ entry.last = clock
      /\ run \in AttemptRecs /\ run.count = m /\ run.last = clock
  BY <1>2, <1>4, <1>5 DEF AttemptRecs
<1>8. unpaced' \subseteq Askers /\ \A v \in Askers \ {w} : v \in unpaced' <=> v \in unpaced
  BY <1>1 DEF PinInv
<1> HIDE DEF entry, run, paused, n, m
<1>9. attemptLog'[w] = entry /\ burst'[w] = run
  BY <1>1 DEF PinInv
<1>10. InStep(w)'
  BY <1>2, <1>4, <1>5, <1>6, <1>7, <1>9 DEF InStep
<1>11. ASSUME NEW v \in Askers, v # w PROVE InStep(v)'
  BY <1>1, <1>8, <1>11 DEF PinInv, InStep
<1> QED
  BY <1>1, <1>7, <1>8, <1>10, <1>11 DEF PinInv

\* resetPinAttempts starts both again.
LEMMA ResetKeepsPace ==
  ASSUME PinInv, NEW w \in Askers, ResetPinAttempts(w), UNCHANGED clock
  PROVE  PinInv'
<1>1. /\ attemptLog' = [attemptLog EXCEPT ![w] = NoAttempts]
      /\ burst' = [burst EXCEPT ![w] = NoAttempts] /\ unpaced' = unpaced \ {w}
  BY DEF ResetPinAttempts, NoCount
<1>2. attemptLog'[w] = NoAttempts /\ burst'[w] = NoAttempts
  BY <1>1 DEF PinInv
<1>3. InStep(w)'
  BY <1>2, NoAttemptsIs, PinAssumption DEF InStep, PinInv
<1>4. ASSUME NEW v \in Askers, v # w PROVE InStep(v)'
  BY <1>1, <1>4 DEF PinInv, InStep
<1> QED
  BY <1>1, <1>3, <1>4, NoAttemptsIs DEF PinInv

\* A count that starts again although the PIN was wrong is marked.
LEMMA SwallowIsMarked ==
  ASSUME PinInv, NEW w \in Askers, NoCount(w), unpaced' = unpaced \cup {w}, UNCHANGED <<clock, burst>>
  PROVE  PinInv'
<1>1. attemptLog' = [attemptLog EXCEPT ![w] = NoAttempts] /\ burst' = burst
  BY DEF NoCount
<1>2. attemptLog'[w] = NoAttempts /\ w \in unpaced'
  BY <1>1 DEF PinInv
<1>3. InStep(w)'
  BY <1>1, <1>2, NoAttemptsIs, PinAssumption DEF InStep, PinInv
<1>4. ASSUME NEW v \in Askers, v # w PROVE InStep(v)'
  BY <1>1, <1>4 DEF PinInv, InStep
<1> QED
  BY <1>1, <1>3, <1>4, NoAttemptsIs DEF PinInv

\* Every other step but a tick leaves the limiter alone.
LEMMA QuietPin == ASSUME PinInv, UNCHANGED <<clock, limit_vars>> PROVE PinInv'
BY DEF PinInv, InStep, limit_vars

\* Every step of the two screens keeps the pace.
LEMMA PinNextInv == ASSUME PinInv, [PinNext]_pin_vars PROVE PinInv'
<1>0. "unlock" \in Askers /\ "pin-modal" \in Askers
  BY DEF Askers
<1>1. CASE PinTick
  <2>1. clock' \in 0..MaxClock /\ clock' = clock + 1 /\ clock \in Nat
    BY <1>1, PinAssumption DEF PinTick, PinInv
  <2> QED
    BY <1>1, <2>1 DEF PinTick, PinInv, InStep, limit_vars
<1>2. CASE HandleUnlock
  BY <1>0, <1>2, RecordKeepsPace DEF HandleUnlock
<1>3. CASE SubmitPin
  BY <1>0, <1>3, RecordKeepsPace DEF SubmitPin
<1>4. CASE PinOpens \/ PasskeyOpens
  BY <1>0, <1>4, ResetKeepsPace DEF PinOpens, PasskeyOpens
<1>5. CASE PinAccepted
  BY <1>0, <1>5, ResetKeepsPace DEF PinAccepted
<1>6. ASSUME NEW w \in strays, StrayEnds(w) PROVE PinInv'
  BY <1>0, <1>6, ResetKeepsPace, QuietPin DEF StrayEnds
<1>7. CASE \/ ProbeEnds \/ RetryProbe \/ PinFails \/ HandlePasskeyUnlock \/ PasskeyFails
           \/ CreateInstead \/ ShowUnlock \/ OpenPinModal \/ CancelPinModal
  BY <1>7, QuietPin
     DEF ProbeEnds, RetryProbe, PinFails, HandlePasskeyUnlock, PasskeyFails, CreateInstead,
         ShowUnlock, OpenPinModal, CancelPinModal
<1>8. CASE PinRefused
  BY <1>0, <1>8, QuietPin, SwallowIsMarked DEF PinRefused
<1>9. CASE UNCHANGED pin_vars
  BY <1>9, QuietPin DEF pin_vars
<1> QED
  BY <1>1, <1>2, <1>3, <1>4, <1>5, <1>6, <1>7, <1>8, <1>9 DEF PinNext

LEMMA PinInitInv == PinInit => PinInv
<1> SUFFICES ASSUME PinInit PROVE PinInv
  OBVIOUS
<1> QED
  BY NoAttemptsIs, PinAssumption DEF PinInit, PinInv, InStep

\* recordPinAttempt paces every asker: whatever its attempts, lockouts and successes were,
\* no more than MaxAttempts pass without a success or a pause of Lockout between two, unless
\* one of them was a wrong PIN that a caller of the dialog swallowed (PinModal.tsx:73-75).
THEOREM AttemptsPaced == PinSpec => []GuessesArePaced
<1>1. PinInit => PinInv
  BY PinInitInv
<1>2. PinInv /\ [PinNext]_pin_vars => PinInv'
  BY PinNextInv
<1>3. PinInv => GuessesArePaced
  BY DEF PinInv, InStep, GuessesArePaced
<1> QED
  BY <1>1, <1>2, <1>3, PTL DEF PinSpec

\* What the two screens show.
SavedRecs == [what : {"unknown", "some", "none"}, failed : BOOLEAN]

ScreensTyped ==
  /\ page \in {"locked", "open", "create"} /\ saved \in SavedRecs
  /\ probing \in BOOLEAN /\ unlocking \in BOOLEAN /\ passkeyBusy \in BOOLEAN
  /\ pinModal \in {"closed", "open", "busy"} /\ swallows \in BOOLEAN

LEMMA SavedIs ==
  /\ \A w \in {"unknown", "some", "none"} : [what |-> w, failed |-> FALSE] \in SavedRecs
  /\ [what |-> "unknown", failed |-> TRUE] \in SavedRecs
BY DEF SavedRecs

LEMMA ScreensInit == PinInit => ScreensTyped
<1> SUFFICES ASSUME PinInit PROVE ScreensTyped
  OBVIOUS
<1>1. saved \in SavedRecs
  BY SavedIs, Zenon DEF PinInit
<1> QED
  BY <1>1 DEF PinInit, ScreensTyped

LEMMA ScreensStep == ScreensTyped /\ [PinNext]_pin_vars => ScreensTyped'
<1> SUFFICES ASSUME ScreensTyped, [PinNext]_pin_vars PROVE ScreensTyped'
  OBVIOUS
<1>0. CASE ProbeEnds
  <2>1. saved' \in SavedRecs
    BY <1>0, SavedIs DEF ProbeEnds
  <2> QED
    BY <1>0, <2>1 DEF ScreensTyped, ProbeEnds
<1>1. CASE \/ RetryProbe \/ HandleUnlock \/ PinFails \/ HandlePasskeyUnlock \/ PasskeyFails
  BY <1>1 DEF ScreensTyped, RetryProbe, HandleUnlock, PinFails, HandlePasskeyUnlock, PasskeyFails
<1>2. CASE \/ PinOpens \/ PasskeyOpens \/ CreateInstead \/ \E w \in strays : StrayEnds(w)
  BY <1>2 DEF ScreensTyped, PinOpens, PasskeyOpens, CreateInstead, StrayEnds, WalletOpens
<1>3. CASE \/ OpenPinModal \/ SubmitPin \/ PinAccepted \/ PinRefused \/ CancelPinModal
  BY <1>3 DEF ScreensTyped, OpenPinModal, SubmitPin, PinAccepted, PinRefused, CancelPinModal
<1>4. CASE PinTick \/ UNCHANGED pin_vars
  BY <1>4 DEF ScreensTyped, PinTick, screen_vars, pin_vars
<1>5. CASE ShowUnlock
  <2>1. saved' \in SavedRecs
    BY <1>5, SavedIs, Zenon DEF ShowUnlock
  <2> QED
    BY <1>5, <2>1 DEF ScreensTyped, ShowUnlock
<1> QED
  BY <1>0, <1>1, <1>2, <1>3, <1>4, <1>5 DEF PinNext

LEMMA PinTypes == PinInv /\ ScreensTyped => PinTypeOK
<1> SUFFICES ASSUME PinInv, ScreensTyped PROVE PinTypeOK
  OBVIOUS
<1> DEFINE Recs == [count : 0..(MaxAttempts + MaxClock), last : 0..MaxClock]
           Bursts == [count : 0..(MaxAttempts + 1), last : 0..MaxClock]
<1>1. ASSUME NEW w \in Askers PROVE attemptLog[w] \in Recs /\ burst[w] \in Bursts
  <2>1. /\ attemptLog[w] \in AttemptRecs /\ burst[w] \in AttemptRecs
        /\ InStep(w) /\ clock \in 0..MaxClock
    BY DEF PinInv
  <2>2. /\ attemptLog[w].count \in 0..(MaxAttempts + MaxClock) /\ attemptLog[w].last \in 0..MaxClock
        /\ burst[w].count \in 0..(MaxAttempts + 1) /\ burst[w].last \in 0..MaxClock
    BY <2>1, PinAssumption DEF InStep
  <2> QED
    BY <2>1, <2>2 DEF AttemptRecs
<1> HIDE DEF Recs, Bursts
<1>2. attemptLog \in [Askers -> Recs] /\ burst \in [Askers -> Bursts] /\ unpaced \subseteq Askers
  BY <1>1 DEF PinInv
<1> QED
  BY <1>2 DEF Recs, Bursts, ScreensTyped, SavedRecs, PinTypeOK
=============================================================================
