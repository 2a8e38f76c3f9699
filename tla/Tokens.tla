------------------------------- MODULE Tokens -------------------------------
(***************************************************************************)
(* OCS01 tokens of one address on one endpoint: the rows kept of them, the *)
(* sweep over all contracts that finds them (discoverTokens), the refresh  *)
(* of the known ones, adding by address and removing; and below it the     *)
(* batched JSON-RPC client, whose answers may be reordered, incomplete,    *)
(* throttled or not come at all.                                           *)
(*                                                                         *)
(* A contract is read by a sequence of calls [contract, key], key          *)
(* "symbol" standing for all the metadata keys.  A balance of 0 stands for *)
(* an absent entry too: parseU128 makes both 0.  The writes of one loop of *)
(* awaited saves are one step: they touch different rows and depend on     *)
(* nothing stored meanwhile.                                               *)
(***************************************************************************)
EXTENDS Naturals, Sequences, SequencesExt, Filters

CONSTANTS
  Contracts,       \* what octra_listContracts lists, a sequence
  Deployed,        \* those of them this address deployed
  Symbols,         \* those that answer the symbol key
  StartBalance,    \* the balance of each at the start
  MaxBalance,      \* bound: what a contract may come to hold for the address
  ProbeChunk,      \* PROBE_CHUNK and BATCH_MAX, scaled down
  MaxRetries,      \* MAX_CHUNK_RETRIES, scaled down
  MaxChunkFailures, \* MAX_CONSECUTIVE_CHUNK_FAILURES, scaled down
  TokenJobs,       \* sweeps and refreshes in flight at once, of all windows
  MaxJobs,         \* bound: jobs begun
  MaxHad           \* bound: the balances a contract comes to have

Listed == ToSet(Contracts)

ASSUME TokensAssumption ==
  /\ Contracts \in Seq(Listed) /\ Deployed \subseteq Listed /\ Symbols \subseteq Listed
  /\ MaxBalance \in Nat /\ StartBalance \in [Listed -> 0..MaxBalance]
  /\ ProbeChunk \in Nat \ {0} /\ MaxRetries \in Nat /\ MaxChunkFailures \in Nat \ {0}

VARIABLES
  chain,    \* the balances on chain
  had,      \* history: the balances each contract has had
  rows,     \* token-holdings: contract -> [raw, symbol, deployed], or NoHolding
  custom,   \* token-custom
  registry, \* token-registry: the cached list, or <<>>
  scanned,  \* token-scans: whether a complete sweep is on record
  unread,   \* history: rows written by an add whose balance read failed
  jobs,     \* the jobs in flight
  jobsBegun \* bound: jobs begun

tok_vars == <<chain, had, rows, custom, registry, scanned, unread, jobs, jobsBegun>>

NoHolding == [none |-> TRUE]
Holding == [raw : 0..MaxBalance, symbol : BOOLEAN, deployed : BOOLEAN]
CustomTokens == SUBSET Listed
RegistryLists == {<<>>, Contracts}
TokenScans == BOOLEAN \* is the last complete sweep recent enough

-----------------------------------------------------------------------------
(* rpc/client.ts: one batch.                                               *)

Result(ok, value) == [ok |-> ok, value |-> value]
Failed == Result(FALSE, 0)

\* What the node may send back for a chunk: an answer or an error for some of the
\* calls in any order, or a failure of the whole batch (no array, no JSON, a timeout,
\* a throttled request), here a reply without entries.
Entries(n) == UNION {[1..k -> [id : 1..n, ok : BOOLEAN]] : k \in 0..n}
Replies(n) ==
  [throttled : {FALSE}, entries : {e \in Entries(n) : \A i, j \in DOMAIN e : i # j => e[i].id # e[j].id}]
    \cup [throttled : {TRUE}, entries : {<<>>}]

Value(call) ==
  IF call.key = "balance" THEN chain[call.contract] ELSE IF call.contract \in Symbols THEN 1 ELSE 0

Answered(reply) == {reply.entries[i].id : i \in {k \in DOMAIN reply.entries : reply.entries[k].ok}}

\* Mutant: the answers are taken in the order in which they came.
BatchChunkInOrder(calls, reply) ==
  [i \in DOMAIN calls |->
     IF i <= Len(reply.entries) /\ reply.entries[i].ok
     THEN Result(TRUE, Value(calls[reply.entries[i].id])) ELSE Failed]

\* Mutant: a call that was not answered counts as an empty answer.
BatchChunkCoerced(calls, reply) ==
  [i \in DOMAIN calls |->
     IF i \in Answered(reply) THEN Result(TRUE, Value(calls[i]))
     ELSE Result(reply.entries # <<>>, 0)]

\* batchChunk: one result per call in the order of the calls, found by its id; no entry
\* for an id is an error, as is the failure of the batch for every call of it.
BatchChunk(calls, reply) ==
  [i \in DOMAIN calls |-> IF i \in Answered(reply) THEN Result(TRUE, Value(calls[i])) ELSE Failed]

AllFailed(results) == \A i \in DOMAIN results : ~results[i].ok

-----------------------------------------------------------------------------
(* api/tokens.ts: paced batches.  A job runs one at a time; `out' are its  *)
(* results so far.                                                         *)

NoJob == [op |-> "idle"]

Balances(contracts) == [i \in DOMAIN contracts |-> [contract |-> contracts[i], key |-> "balance"]]

\* readTokensAt reads the metadata and then the balance of each contract.
TokenCalls(contracts) ==
  [k \in 1..(2 * Len(contracts)) |->
     [contract |-> contracts[(k + 1) \div 2], key |-> IF k % 2 = 1 THEN "symbol" ELSE "balance"]]

\* The contracts of a list that are in S.
Among(list, S) == Filtered(list, {i \in DOMAIN list : list[i] \in S})

Batch(job, stage, calls) ==
  [job EXCEPT !.stage = stage, !.calls = calls, !.out = <<>>, !.attempt = 0, !.failures = 0]

NextChunk(job) == SubSeq(job.calls, Len(job.out) + 1, Min({Len(job.out) + ProbeChunk, Len(job.calls)}))
BatchDone(job) == Len(job.out) = Len(job.calls)

\* After repeated failures the rest is padded: one result per call, whatever happens.
Padded(job) ==
  IF job.failures < MaxChunkFailures THEN job
  ELSE [job EXCEPT !.out = job.out \o [i \in 1..(Len(job.calls) - Len(job.out)) |-> Failed]]

\* pacedBatch with batchWithRetry: one answer from the node.
Paced(job, reply, results) ==
  IF reply.throttled /\ job.attempt < MaxRetries THEN [job EXCEPT !.attempt = job.attempt + 1]
  ELSE Padded([job EXCEPT !.out = job.out \o results, !.attempt = 0,
                          !.failures = IF AllFailed(results) THEN job.failures + 1 ELSE 0])

Answer(j) ==
  /\ jobs[j] # NoJob /\ jobs[j].stage # "registry" /\ ~BatchDone(jobs[j]) /\ ~jobs[j].aborted
  /\ LET chunk == NextChunk(jobs[j])
     IN \E reply \in Replies(Len(chunk)) :
          jobs' = [jobs EXCEPT ![j] =
            [Paced(jobs[j], reply, BatchChunk(chunk, reply)) EXCEPT
               !.read = @ \cup {chunk[i].contract : i \in {k \in Answered(reply) : chunk[k].key = "balance"}}]]
  /\ UNCHANGED <<chain, had, rows, custom, registry, scanned, unread, jobsBegun>>

\* throwIfAborted and pause: a cancelled sweep ends before its next chunk or retry.
Cancelled(j) ==
  /\ jobs[j] # NoJob /\ jobs[j].aborted
  /\ jobs[j].stage = "registry" \/ ~BatchDone(jobs[j])
  /\ jobs' = [jobs EXCEPT ![j] = NoJob]
  /\ UNCHANGED <<chain, had, rows, custom, registry, scanned, unread, jobsBegun>>

-----------------------------------------------------------------------------
(* Reads of a token.                                                       *)

\* parseTokenSlice: a balance that was not read is not a balance of zero.
TokenRead(job, i) ==
  LET symbol == job.out[2 * i - 1]  balance == job.out[2 * i]
  IN [contract |-> job.calls[2 * i].contract,
      symbol   |-> symbol.ok /\ symbol.value > 0,
      balanceOk |-> balance.ok, raw |-> balance.value]
TokenReads(job) == [i \in 1..(Len(job.calls) \div 2) |-> TokenRead(job, i)]

LooksLikeToken(read) == read.symbol \/ (read.balanceOk /\ read.raw > 0)

Job(op, stage) ==
  [op |-> op, stage |-> stage, calls |-> <<>>, out |-> <<>>, attempt |-> 0, failures |-> 0,
   aborted |-> FALSE, prior |-> rows, list |-> <<>>, probed |-> [c \in {} |-> 0],
   unreadable |-> FALSE, read |-> {}, held |-> {c \in Listed : chain[c] > 0}, removed |-> {}]

Start(j, job) ==
  /\ jobs[j] = NoJob /\ jobsBegun < MaxJobs
  /\ jobs' = [jobs EXCEPT ![j] = job] /\ jobsBegun' = jobsBegun + 1
  /\ UNCHANGED <<chain, had, rows, custom, registry, scanned, unread>>

Replace(j, job) == jobs' = [jobs EXCEPT ![j] = job]

-----------------------------------------------------------------------------
(* discoverTokens                                                          *)

Discover(j) == Start(j, Job("sweep", "registry"))

Abort(j) ==
  /\ jobs[j] # NoJob /\ jobs[j].op = "sweep" /\ ~jobs[j].aborted
  /\ Replace(j, [jobs[j] EXCEPT !.aborted = TRUE])
  /\ UNCHANGED <<chain, had, rows, custom, registry, scanned, unread, jobsBegun>>

\* Phase 1 reads what the address deployed; with nothing deployed phase 2 comes at once.
Probes(job, deployed) ==
  Batch(job, "probe", Balances(Among(job.list, Listed \ deployed)))
Phase1(job, deployed) ==
  IF deployed = {} THEN Probes(job, {})
  ELSE Batch(job, "deployed", TokenCalls(Among(job.list, deployed)))

\* getContractRegistry: the fresh cache; else the node's list; else an older one; else
\* the sweep fails.  A cache of before the `owners' field has no deployers.
GetContractRegistry(j) ==
  /\ jobs[j] # NoJob /\ jobs[j].stage = "registry" /\ ~jobs[j].aborted
  /\ \/ /\ registry # <<>>
        /\ \E deployed \in {{}, Deployed \cap ToSet(registry)} :
             Replace(j, Phase1([jobs[j] EXCEPT !.list = registry, !.prior = rows], deployed))
        /\ UNCHANGED registry
     \/ /\ registry' = Contracts
        /\ Replace(j, Phase1([jobs[j] EXCEPT !.list = Contracts, !.prior = rows], Deployed))
     \/ /\ registry = <<>> /\ Replace(j, NoJob) /\ UNCHANGED registry
  /\ UNCHANGED <<chain, had, rows, custom, scanned, unread, jobsBegun>>

\* Mutant: what was not read is recorded as nothing held.
PersistRawZero(job, read) == {IF read.balanceOk THEN read.raw ELSE 0}
\* Mutant: the balance the probe has proved is forgotten.
PersistRawWithoutProbe(job, read) ==
  IF read.balanceOk THEN {read.raw}
  ELSE {h.raw : h \in {job.prior[read.contract]} \ {NoHolding}}

\* This read, else the probe's, else the last known balance, and never zero by default;
\* without any of them nothing is written.
PersistRaw(job, read) ==
  IF read.balanceOk THEN {read.raw}
  ELSE IF read.contract \in DOMAIN job.probed THEN {job.probed[read.contract]}
  ELSE {h.raw : h \in {job.prior[read.contract]} \ {NoHolding}}

\* The rows persistRow may write for the reads of c there are.
NewRows(job, deployed, c) ==
  LET reads == {x \in ToSet(TokenReads(job)) : x.contract = c /\ (deployed => LooksLikeToken(x))}
      was   == job.prior[c] # NoHolding /\ job.prior[c].deployed
  IN UNION {{[raw |-> raw, symbol |-> x.symbol, deployed |-> deployed \/ was] :
               raw \in PersistRaw(job, x)} : x \in reads}

Persisted(job, deployed) ==
  [c \in Listed |-> IF NewRows(job, deployed, c) = {} THEN rows[c]
                    ELSE CHOOSE h \in NewRows(job, deployed, c) : TRUE]

PersistDeployed(j) ==
  /\ jobs[j] # NoJob /\ jobs[j].stage = "deployed" /\ BatchDone(jobs[j])
  /\ rows' = Persisted(jobs[j], TRUE)
  /\ Replace(j, Probes([jobs[j] EXCEPT !.unreadable = \E r \in ToSet(TokenReads(jobs[j])) : ~r.balanceOk],
                       {r.contract : r \in ToSet(TokenReads(jobs[j]))}))
  /\ UNCHANGED <<chain, had, custom, registry, scanned, unread, jobsBegun>>

\* A lost probe is counted, a positive one is a hit whose metadata is read next.
ReadHits(j) ==
  /\ jobs[j] # NoJob /\ jobs[j].stage = "probe" /\ BatchDone(jobs[j])
  /\ LET job  == jobs[j]
         hits == {i \in DOMAIN job.calls : job.out[i].ok /\ job.out[i].value > 0}
         asked == [i \in DOMAIN job.calls |-> job.calls[i].contract]
     IN Replace(j, Batch([job EXCEPT !.unreadable = @ \/ \E i \in DOMAIN job.out : ~job.out[i].ok,
                                     !.probed = [c \in {asked[i] : i \in hits} |->
                                                   job.out[CHOOSE i \in hits : asked[i] = c].value]],
                         "hits", TokenCalls(Filtered(asked, hits))))
  /\ UNCHANGED <<chain, had, rows, custom, registry, scanned, unread, jobsBegun>>

\* The sweep's record: complete only when everything was read.
PersistHits(j) ==
  /\ jobs[j] # NoJob /\ jobs[j].stage = "hits" /\ BatchDone(jobs[j])
  /\ rows' = Persisted(jobs[j], FALSE)
  /\ scanned' = (scanned \/ ~jobs[j].unreadable)
  /\ Replace(j, NoJob)
  /\ UNCHANGED <<chain, had, custom, registry, unread, jobsBegun>>

-----------------------------------------------------------------------------
(* refreshHoldings, addTokenByAddress, removeToken                         *)

KnownRows == Among(Contracts, {c \in Listed : rows[c] # NoHolding})

RefreshHoldings(j) ==
  /\ KnownRows # <<>>
  /\ Start(j, Batch(Job("refresh", "refresh"), "refresh", Balances(KnownRows)))

\* Mutant: a read that failed is taken for an empty balance.
RefreshedZero(job, i) == [job.prior[job.calls[i].contract] EXCEPT !.raw = job.out[i].value]
\* A failed read keeps the last known value; the rest of the row is as it was read.
Refreshed(job, i) ==
  IF ~job.out[i].ok THEN rows[job.calls[i].contract]
  ELSE [job.prior[job.calls[i].contract] EXCEPT !.raw = job.out[i].value]

SaveRefreshed(j) ==
  /\ jobs[j] # NoJob /\ jobs[j].stage = "refresh" /\ BatchDone(jobs[j])
  /\ rows' = [c \in Listed |->
                LET at == {i \in DOMAIN jobs[j].calls : jobs[j].calls[i].contract = c}
                IN IF at = {} THEN rows[c] ELSE Refreshed(jobs[j], CHOOSE i \in at : TRUE)]
  /\ Replace(j, NoJob)
  /\ UNCHANGED <<chain, had, custom, registry, scanned, unread, jobsBegun>>

AddTokenByAddress(j) ==
  \E c \in Listed : Start(j, Batch(Job("add", "add"), "add", TokenCalls(<<c>>)))

\* The new row starts at zero when the balance could not be read.
SaveAdded(j) ==
  /\ jobs[j] # NoJob /\ jobs[j].stage = "add" /\ BatchDone(jobs[j])
  /\ LET read == TokenRead(jobs[j], 1)
         zero == IF read.balanceOk THEN {} ELSE {read.contract}
     IN IF LooksLikeToken(read)
        THEN /\ rows' = [rows EXCEPT ![read.contract] =
                           [raw |-> read.raw, symbol |-> read.symbol, deployed |-> FALSE]]
             /\ custom' = custom \cup {read.contract}
             /\ unread' = unread \cup zero
        ELSE UNCHANGED <<rows, custom, unread>>
  /\ Replace(j, NoJob)
  /\ UNCHANGED <<chain, had, registry, scanned, jobsBegun>>

\* A job that began before may bring the row back as it was.
RemoveToken(c) ==
  /\ rows[c] # NoHolding
  /\ rows' = [rows EXCEPT ![c] = NoHolding] /\ custom' = custom \ {c}
  /\ unread' = IF \E j \in TokenJobs : jobs[j] # NoJob /\ jobs[j].prior[c] # NoHolding
               THEN unread ELSE unread \ {c}
  /\ jobs' = [j \in TokenJobs |->
                IF jobs[j] = NoJob THEN NoJob ELSE [jobs[j] EXCEPT !.removed = @ \cup {c}]]
  /\ UNCHANGED <<chain, had, registry, scanned, jobsBegun>>

\* Someone sends the address a token.
Receive(c) ==
  /\ c \in Symbols /\ chain[c] < MaxBalance /\ Cardinality(had[c]) < MaxHad
  /\ chain' = [chain EXCEPT ![c] = MaxBalance] /\ had' = [had EXCEPT ![c] = @ \cup {MaxBalance}]
  /\ UNCHANGED <<rows, custom, registry, scanned, unread, jobs, jobsBegun>>

\* The address sends all it has of a token, from this wallet or another of the user's.
Spend(c) ==
  /\ chain[c] > 0 /\ Cardinality(had[c]) < MaxHad
  /\ chain' = [chain EXCEPT ![c] = 0] /\ had' = [had EXCEPT ![c] = @ \cup {0}]
  /\ jobs' = [j \in TokenJobs |->
                IF jobs[j] = NoJob THEN NoJob ELSE [jobs[j] EXCEPT !.held = @ \ {c}]]
  /\ UNCHANGED <<rows, custom, registry, scanned, unread, jobsBegun>>

-----------------------------------------------------------------------------
TokensInit ==
  /\ chain = StartBalance /\ had = [c \in Listed |-> {StartBalance[c]}]
  /\ rows = [c \in Listed |-> NoHolding] /\ custom = {} /\ unread = {}
  /\ registry = <<>> /\ scanned = FALSE
  /\ jobs = [j \in TokenJobs |-> NoJob] /\ jobsBegun = 0

TokensNext ==
  \/ \E j \in TokenJobs :
       \/ Discover(j) \/ Abort(j) \/ Cancelled(j) \/ GetContractRegistry(j) \/ Answer(j)
       \/ PersistDeployed(j) \/ ReadHits(j) \/ PersistHits(j)
       \/ RefreshHoldings(j) \/ SaveRefreshed(j)
       \/ AddTokenByAddress(j) \/ SaveAdded(j)
  \/ \E c \in Listed : RemoveToken(c) \/ Receive(c) \/ Spend(c)

TokensSpec == TokensInit /\ [][TokensNext]_tok_vars

-----------------------------------------------------------------------------
TokensTypeOK ==
  /\ chain \in [Listed -> 0..MaxBalance]
  /\ rows \in [Listed -> Holding \cup {NoHolding}]
  /\ custom \in CustomTokens /\ registry \in RegistryLists /\ scanned \in TokenScans
  /\ \A j \in TokenJobs : jobs[j] # NoJob => Len(jobs[j].out) <= Len(jobs[j].calls)

\* A stored balance is one the contract had: throttling, lost, partial or reordered
\* answers never turn into a balance, least of all into zero, and a balance is never
\* filed under another contract.  Only an add by hand may start at a zero nobody read.
StoredWasHeld ==
  \A c \in Listed : rows[c] # NoHolding => rows[c].raw \in had[c] \/ (c \in unread /\ rows[c].raw = 0)

SweepEnds(j) == jobs[j] # NoJob /\ jobs[j].stage = "hits" /\ jobs'[j] = NoJob /\ ~jobs[j].aborted

\* A sweep that goes on record as complete, and so holds back the next one, has had an
\* answer about every contract of its list, and what the address held all the time since
\* before it began is a row now, unless it was removed meanwhile.
CompleteSweepFoundAll ==
  [][\A j \in TokenJobs :
       SweepEnds(j) /\ ~jobs[j].unreadable =>
         /\ ToSet(jobs[j].list) \subseteq jobs[j].read
         /\ \A c \in jobs[j].held \cap ToSet(jobs[j].list) :
              rows'[c] # NoHolding \/ c \in jobs[j].removed]_tok_vars
=============================================================================
