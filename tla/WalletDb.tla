------------------------------ MODULE WalletDb ------------------------------
(***************************************************************************)
(* How a page gets its connection to the wallet database                   *)
(* (wallet/storage.ts: openRequest, openDbWithTimeout, openWithRetry,      *)
(* getDb, closeDb) and the copy of the database's predecessor that the     *)
(* first opening makes (migrateLegacyDatabase).                            *)
(*                                                                         *)
(* An open request cannot be cancelled: it stays queued in the browser     *)
(* until it lands or fails, whoever still waits for it.  getDb starts an   *)
(* attempt, which waits for the one request there is under a deadline, up  *)
(* to DbAttempts times.  Deadlines and pauses are timers: they may run out *)
(* at any time.  Another tab may hold the database at the old version, or  *)
(* want to upgrade it past ours.                                           *)
(***************************************************************************)
EXTENDS Naturals, FiniteSets

CONSTANTS
  MaxGets,       \* bound: calls of getDb that find no cached connection
  DbAttempts,    \* DB_OPEN_ATTEMPTS
  DbStores       \* the stores there are: "wallets", and "manifest" for the others,
                 \* which are copied after it in the same way

Gets     == 1..MaxGets
Requests == 1..(MaxGets * DbAttempts)   \* enough for every try of every call

ASSUME DbAssumption ==
  /\ MaxGets \in Nat /\ DbAttempts \in Nat \ {0}
  /\ DbStores \in {{"wallets"}, {"wallets", "manifest"}}

VARIABLES
  version,      \* of the database: "old", "current" (DB_VERSION) or "newer"
  request,      \* open requests: the state of each, and of its connection
  doomed,       \* requests that closeDb closes when they land
  pendingOpen,  \* pendingOpen, with the openToken that goes with it: 0 = null
  openBlocked,
  dbPromise,    \* the attempt that is cached: 0 = null
  attempt,      \* the attempts of getDb
  elsewhere,    \* another tab: "none", it "holds" the old version or "upgrades"
  holds         \* what each store holds: "nothing", the "legacy" row, the "user"'s

db_vars == <<version, request, doomed, pendingOpen, openBlocked, dbPromise, attempt,
             elsewhere, holds>>

Versions  == {"old", "current", "newer"}
Contents  == [DbStores -> {"nothing", "legacy", "user"}]
NoAttempt == [pc |-> "free", tries |-> 0, req |-> 0, copy |-> "none", closes |-> FALSE]

DbInit ==
  /\ version \in {"old", "current"}
  /\ elsewhere = IF version = "old" THEN "holds" ELSE "none"
  /\ request = [r \in Requests |-> "free"]
  /\ doomed = {}
  /\ pendingOpen = 0
  /\ openBlocked = FALSE
  /\ dbPromise = 0
  /\ attempt = [a \in Gets |-> NoAttempt]
  /\ holds = [s \in DbStores |-> "nothing"]

-----------------------------------------------------------------------------
(* The request.                                                            *)

\* Nobody waits for r or holds its connection.
Unused(r) ==
  /\ request[r] = "free"
  /\ \A a \in Gets : attempt[a].req # r

\* openRequest: join the request in flight, or start one.
OpenRequest(r) ==
  \/ /\ pendingOpen # 0 /\ r = pendingOpen
     /\ UNCHANGED <<request, pendingOpen, openBlocked>>
  \/ /\ pendingOpen = 0
     /\ Unused(r) /\ \A q \in Requests : q < r => ~Unused(q)
     /\ request' = [request EXCEPT ![r] = "queued"]
     /\ pendingOpen' = r
     /\ openBlocked' = FALSE

\* clear: only the bookkeeping of this request itself.
Cleared(r) == IF pendingOpen = r THEN 0 ELSE pendingOpen

\* The attempts that wait for r; the others have met their deadline.
Waiting(r) == {a \in Gets : attempt[a].pc = "opening" /\ attempt[a].req = r}

\* Mutant: a failure does not count.
GiveUpNever(A) ==
  /\ attempt' = [a \in Gets |-> IF a \in A THEN [attempt[a] EXCEPT !.pc = "pause", !.tries = 1]
                                ELSE attempt[a]]
  /\ UNCHANGED dbPromise

\* The attempts in A failed: each pauses and tries again, or rejects, and then
\* it is no longer cached.
GiveUp(A) ==
  LET last == {a \in A : attempt[a].tries = DbAttempts} IN
  /\ attempt' = [a \in Gets |-> IF a \in last THEN [NoAttempt EXCEPT !.pc = "rejected"]
                                ELSE IF a \in A THEN [attempt[a] EXCEPT !.pc = "pause", !.req = 0]
                                ELSE attempt[a]]
  /\ dbPromise' = IF dbPromise \in last THEN 0 ELSE dbPromise

\* The browser reports that an older connection is in the way.
RequestBlocked(r) ==
  /\ request[r] = "queued" /\ version = "old" /\ elsewhere = "holds"
  /\ openBlocked' = TRUE
  /\ UNCHANGED <<version, request, doomed, pendingOpen, dbPromise, attempt, elsewhere, holds>>

\* The request lands; ensureStores runs if this is the upgrade.
RequestLands(r) ==
  /\ request[r] = "queued"
  /\ version # "newer" /\ (version = "old" => elsewhere # "holds")
  /\ version' = "current"
  /\ request' = [request EXCEPT ![r] = IF r \in doomed THEN "free" ELSE "open"]
  /\ pendingOpen' = Cleared(r)
  /\ attempt' = [a \in Gets |-> IF a \in Waiting(r)
                                  THEN [attempt[a] EXCEPT !.pc = "migrating", !.copy = "count"]
                                  ELSE attempt[a]]
  /\ doomed' = doomed \ {r}
  /\ UNCHANGED <<openBlocked, dbPromise, elsewhere, holds>>

\* The request fails, as it must when another tab has upgraded past us.
RequestFails(r) ==
  /\ request[r] = "queued"
  /\ request' = [request EXCEPT ![r] = "free"]
  /\ pendingOpen' = Cleared(r)
  /\ GiveUp(Waiting(r))
  /\ doomed' = doomed \ {r}
  /\ UNCHANGED <<version, openBlocked, elsewhere, holds>>

\* Mutant: it only forgets its own request.
BlockingKeepsCache(r) ==
  /\ request[r] = "open" /\ elsewhere = "upgrades"
  /\ request' = [request EXCEPT ![r] = "free"]
  /\ pendingOpen' = Cleared(r)
  /\ UNCHANGED <<version, doomed, openBlocked, dbPromise, attempt, elsewhere, holds>>

\* Mutant: it forgets the connection and leaves it open.
BlockingLeavesOpen(r) ==
  /\ request[r] = "open" /\ elsewhere = "upgrades"
  /\ dbPromise' = 0
  /\ pendingOpen' = Cleared(r)
  /\ UNCHANGED <<version, request, doomed, openBlocked, attempt, elsewhere, holds>>

\* blocking: another tab wants to upgrade, and this connection gives way.
Blocking(r) ==
  /\ request[r] = "open" /\ elsewhere = "upgrades"
  /\ dbPromise' = 0
  /\ pendingOpen' = Cleared(r)
  /\ request' = [request EXCEPT ![r] = "free"]
  /\ UNCHANGED <<version, doomed, openBlocked, attempt, elsewhere, holds>>

\* terminated: the browser dropped the connection; forgetDb.
Terminated(r) ==
  /\ request[r] = "open"
  /\ request' = [request EXCEPT ![r] = "free"]
  /\ dbPromise' = 0
  /\ pendingOpen' = 0
  /\ UNCHANGED <<version, doomed, openBlocked, attempt, elsewhere, holds>>

-----------------------------------------------------------------------------
(* getDb and its attempts.                                                 *)

GetDb(a, r) ==
  /\ dbPromise = 0
  /\ attempt[a].pc = "free" /\ \A b \in Gets : b < a => attempt[b].pc # "free"
  /\ OpenRequest(r)
  /\ attempt' = [attempt EXCEPT ![a] = [NoAttempt EXCEPT !.pc = "opening", !.tries = 1, !.req = r]]
  /\ dbPromise' = a
  /\ UNCHANGED <<version, doomed, elsewhere, holds>>

\* openDbWithTimeout's deadline.  A blocked upgrade is not tried again.
OpenDeadline(a) ==
  /\ attempt[a].pc = "opening"
  /\ IF openBlocked
       THEN /\ attempt' = [attempt EXCEPT ![a] = [NoAttempt EXCEPT !.pc = "rejected"]]
            /\ dbPromise' = IF dbPromise = a THEN 0 ELSE dbPromise
       ELSE GiveUp({a})
  /\ UNCHANGED <<version, request, doomed, pendingOpen, openBlocked, elsewhere, holds>>

\* The pause between two attempts is over.
OpenAgain(a, r) ==
  /\ attempt[a].pc = "pause"
  /\ OpenRequest(r)
  /\ attempt' = [attempt EXCEPT ![a].pc = "opening", ![a].tries = @ + 1, ![a].req = r]
  /\ UNCHANGED <<version, doomed, dbPromise, elsewhere, holds>>

\* The race of the migration and its deadline is over: getDb resolves, and a
\* closeDb that waits for it closes the connection.
Resolve(a, copy) ==
  /\ attempt' = [attempt EXCEPT ![a].pc = IF @ = "migrating" THEN "resolved" ELSE @,
                                ![a].copy = copy]
  /\ request' = IF attempt[a].closes THEN [request EXCEPT ![attempt[a].req] = "free"]
                ELSE request

MigrationDeadline(a) ==
  /\ attempt[a].pc = "migrating"
  /\ Resolve(a, attempt[a].copy)
  /\ UNCHANGED <<version, doomed, pendingOpen, openBlocked, dbPromise, elsewhere, holds>>

Connected(a) == request[attempt[a].req] = "open"

\* migrateLegacyDatabase looks whether there is anything to do; an error in it,
\* as of a connection that was closed, ends it silently.
CountWallets(a) ==
  /\ attempt[a].copy = "count"
  /\ IF Connected(a) /\ holds["wallets"] = "nothing"
       THEN /\ attempt' = [attempt EXCEPT ![a].copy = "probe"]
            /\ UNCHANGED request
       ELSE Resolve(a, "done")
  /\ UNCHANGED <<version, doomed, pendingOpen, openBlocked, dbPromise, elsewhere, holds>>

\* databaseExists: the list, or a probing open; after DB_PROBE_TIMEOUT_MS the answer is yes.
\* With no legacy database there is nothing to copy.
DatabaseExists(a) ==
  /\ attempt[a].copy = "probe"
  /\ \/ attempt' = [attempt EXCEPT ![a].copy = "wallets"] /\ UNCHANGED request
     \/ Resolve(a, "done")
  /\ UNCHANGED <<version, doomed, pendingOpen, openBlocked, dbPromise, elsewhere, holds>>

\* It copies one store, in a transaction of its own.
CopyStore(a) ==
  LET s == attempt[a].copy IN
  /\ s \in DbStores
  /\ IF Connected(a)
       THEN /\ holds' = [holds EXCEPT ![s] = "legacy"]
            /\ IF s = "wallets" /\ "manifest" \in DbStores
                 THEN attempt' = [attempt EXCEPT ![a].copy = "manifest"] /\ UNCHANGED request
                 ELSE Resolve(a, "done")
       ELSE Resolve(a, "done") /\ UNCHANGED holds
  /\ UNCHANGED <<version, doomed, pendingOpen, openBlocked, dbPromise, elsewhere>>

\* closeDb: whatever is cached or in flight is forgotten, and closed as soon as
\* there is something to close.
CloseDb ==
  LET a == dbPromise
      landed == a # 0 /\ attempt[a].pc = "resolved"
  IN
  /\ dbPromise # 0 \/ pendingOpen # 0
  /\ dbPromise' = 0
  /\ pendingOpen' = 0
  /\ doomed' = IF pendingOpen = 0 THEN doomed ELSE doomed \cup {pendingOpen}
  /\ request' = IF landed THEN [request EXCEPT ![attempt[a].req] = "free"] ELSE request
  /\ attempt' = IF a # 0 /\ ~landed THEN [attempt EXCEPT ![a].closes = TRUE] ELSE attempt
  /\ UNCHANGED <<version, openBlocked, elsewhere, holds>>

-----------------------------------------------------------------------------
(* What a page does with its connection, and what other tabs do.           *)

Ready == dbPromise # 0 /\ attempt[dbPromise].pc = "resolved" /\ Connected(dbPromise)

\* An account is created, or a setting saved; the last account is removed.
UserWrites(s, row) ==
  /\ Ready
  /\ holds[s] # row
  /\ holds' = [holds EXCEPT ![s] = row]
  /\ UNCHANGED <<version, request, doomed, pendingOpen, openBlocked, dbPromise, attempt, elsewhere>>

ElsewhereMoves ==
  /\ \/ elsewhere = "holds" /\ elsewhere' = "none" /\ UNCHANGED version
     \/ elsewhere = "none" /\ version = "current" /\ elsewhere' = "upgrades" /\ UNCHANGED version
  /\ UNCHANGED <<request, doomed, pendingOpen, openBlocked, dbPromise, attempt, holds>>

ElsewhereUpgrades ==
  /\ elsewhere = "upgrades"
  /\ \A r \in Requests : request[r] # "open"
  /\ elsewhere' = "none"
  /\ version' = "newer"
  /\ UNCHANGED <<request, doomed, pendingOpen, openBlocked, dbPromise, attempt, holds>>

AttemptStep(a) ==
  \/ OpenDeadline(a) \/ MigrationDeadline(a)
  \/ \E r \in Requests : OpenAgain(a, r)

DbNext ==
  \/ \E r \in Requests : RequestBlocked(r) \/ RequestLands(r) \/ RequestFails(r)
                         \/ Blocking(r) \/ Terminated(r)
  \/ \E a \in Gets, r \in Requests : GetDb(a, r)
  \/ \E a \in Gets : AttemptStep(a) \/ CountWallets(a) \/ DatabaseExists(a) \/ CopyStore(a)
  \/ CloseDb
  \/ \E s \in DbStores, row \in {"user", "nothing"} : UserWrites(s, row)
  \/ ElsewhereMoves
  \/ ElsewhereUpgrades

\* Timers run out.  The browser tells every open connection that it is in the
\* way of an upgrade, and serves the upgrade once none is left.
DbFairness ==
  /\ \A a \in Gets : WF_db_vars(AttemptStep(a))
  /\ \A r \in Requests : WF_db_vars(Blocking(r))
  /\ WF_db_vars(ElsewhereUpgrades)

DbSpec == DbInit /\ [][DbNext]_db_vars /\ DbFairness

-----------------------------------------------------------------------------
(* Properties.                                                             *)

AttemptRec ==
  [pc : {"free", "opening", "pause", "migrating", "resolved", "rejected"},
   tries : 0..DbAttempts, req : {0} \cup Requests,
   copy : {"none", "count", "probe", "done"} \cup DbStores, closes : BOOLEAN]

DbTypeOK ==
  /\ version \in Versions
  /\ request \in [Requests -> {"free", "queued", "open"}]
  /\ doomed \subseteq Requests
  /\ pendingOpen \in {0} \cup Requests
  /\ openBlocked \in BOOLEAN
  /\ dbPromise \in {0} \cup Gets
  /\ attempt \in [Gets -> AttemptRec]
  /\ elsewhere \in {"none", "holds", "upgrades"}
  /\ holds \in Contents

\* An attempt that closeDb forgot goes on, may come to share the request of a
\* newer attempt, and then closes that one's connection too when it resolves.
ClosedByForgotten(a) ==
  \E b \in Gets : b # a /\ attempt[b].closes /\ attempt[b].req = attempt[a].req

\* "Let a later call retry instead of caching the rejection forever": what later
\* calls of getDb will be given is never a failure, and once it has resolved
\* never a connection that was closed under it, but for that one case.
CacheIsUsable ==
  dbPromise # 0 =>
    /\ attempt[dbPromise].pc \notin {"free", "rejected"}
    /\ attempt[dbPromise].pc = "resolved" =>
         Connected(dbPromise) \/ ClosedByForgotten(dbPromise)

\* Every call of getDb is answered, whatever other tabs do to the database.
GetDbSettles ==
  \A a \in Gets : attempt[a].pc \in {"opening", "pause", "migrating"}
                    ~> attempt[a].pc \in {"resolved", "rejected"}

\* This tab is never what keeps the next build's upgrade waiting forever.
GivesWayToUpgrade == elsewhere = "upgrades" ~> version = "newer"

\* "It is idempotent and put-based, so letting it finish in the background is
\* safe": the migration never replaces what the user has stored since, also
\* when it is slow.
MigrationKeepsWrites ==
  [][\A s \in DbStores : holds[s] = "user" => holds'[s] # "legacy"]_db_vars

=============================================================================
