--------------------------- MODULE PrivateBalance ---------------------------
(***************************************************************************)
(* The PVAC bridge and what is done with it: the loading that wallet-store *)
(* starts at every unlock and switch (autoLoadPvac), the one global bridge *)
(* whose keys come from a wallet's private key, and the operations on the  *)
(* encrypted balance (api/encrypt.ts) and stealth sends (StealthPanel).    *)
(*                                                                         *)
(* Loads share one download and, once it is there, run to their end with   *)
(* no event of the user in between.  The node is external: it refuses what *)
(* a wiped key signed, a used nonce, missing funds, and proofs about a     *)
(* ciphertext that is no longer the account's.                             *)
(***************************************************************************)
EXTENDS Naturals, Sequences, FiniteSets

CONSTANTS
  Owners,    \* accounts of the wallet
  NoOne,
  MaxTurns,  \* bound: unlocks and switches
  Funds,     \* public balance of an account at the start
  OpFee,     \* recommendedOu of encrypt, decrypt and stealth
  OpAmounts, \* bound: amounts of operations
  MaxOps     \* bound: operations begun

ASSUME PrivateAssumption ==
  /\ NoOne \notin Owners /\ MaxTurns \in Nat
  /\ OpAmounts \subseteq Nat \ {0} /\ Funds \in Nat /\ OpFee \in Nat /\ MaxOps \in Nat

VARIABLES
  owner,      \* the account in the store, or NoOne while locked
  turns,      \* bound: unlocks and switches so far
  pvacKeys,   \* whose keys the bridge derived, NoOne while there is no initialized one
  pvacStatus, \* pvacStatus and pvacBridgeReady of the store
  loading,    \* autoLoadPvac calls waiting for the module: of which account (NoOne once
              \* its wallet is wiped), and the turn that made that wallet
  ops,        \* [operation -> its progress in the Private or Stealth panel]
  handles,    \* [operation -> ciphertext and proof handles it holds in the WASM heap]
  ledger,     \* node: registered key, encrypted and public balance, nonce of each account
  presumed    \* accounts whose registration the node refused because another key was
              \* there already, which counts as done

priv_vars == <<owner, turns, pvacKeys, pvacStatus, loading, ops, handles, ledger, presumed>>

Ops  == 1..MaxOps
NoOp == [pc |-> "none", kind |-> "none", addr |-> NoOne, amount |-> 0, cipher |-> 0,
         nonce |-> 0, turn |-> 0, wiped |-> FALSE]

PrivInit ==
  /\ owner = NoOne /\ turns = 0 /\ pvacKeys = NoOne /\ pvacStatus = "idle" /\ loading = <<>>
  /\ ops = [i \in Ops |-> NoOp] /\ handles = [i \in Ops |-> {}] /\ presumed = {}
  /\ ledger = [a \in Owners |-> [pvac |-> NoOne, enc |-> 0, under |-> NoOne, pub |-> Funds, nonce |-> 0]]

\* An operation shows ProcessingModal, whose Done and Close work before it is over: the
\* user may switch accounts, or begin another operation, while it goes on.
Working == \E i \in Ops : ops[i].pc \notin {"none", "over"} /\ ~ops[i].wiped

-----------------------------------------------------------------------------
(* setWallet, lock and the loading of the module                           *)

\* autoLoadPvac: nothing to do when the bridge is initialized, for whichever wallet.
AutoLoad(a, turn) ==
  IF pvacKeys # NoOne
    THEN pvacStatus' = "ready" /\ UNCHANGED loading
    ELSE pvacStatus' = "loading" /\ loading' = Append(loading, [of |-> a, turn |-> turn])

SetWallet(a) ==
  /\ turns < MaxTurns /\ a # owner
  /\ owner' = a /\ turns' = turns + 1
  /\ AutoLoad(a, turns + 1)
  /\ UNCHANGED <<pvacKeys, ops, handles, ledger, presumed>>

\* Reload PVAC in Settings, after a failure.
ReloadPvac ==
  /\ owner # NoOne /\ pvacStatus = "unavailable" /\ AutoLoad(owner, turns)
  /\ UNCHANGED <<owner, turns, pvacKeys, ops, handles, ledger, presumed>>

\* loadPvacModule ends for every load that waits for it; each installs a new bridge and
\* derives its wallet's keys, which fails when the wallet was wiped meanwhile: the last one
\* whose wallet was not leaves its keys, the last one of all the status.
ModuleLoaded ==
  LET alive == {i \in DOMAIN loading : loading[i].of # NoOne} IN
  /\ loading # <<>> /\ loading' = <<>>
  /\ \/ alive = {} /\ pvacKeys' = NoOne
     \/ \E i \in alive : pvacKeys' = loading[i].of /\ \A j \in alive : j <= i
  /\ pvacStatus' = IF loading[Len(loading)].of = NoOne THEN "unavailable" ELSE "ready"
  /\ UNCHANGED <<owner, turns, ops, handles, ledger, presumed>>

\* The module is missing, stale or blocked: the shared promise is dropped.
ModuleFails ==
  /\ loading # <<>> /\ loading' = <<>> /\ pvacStatus' = "unavailable"
  /\ UNCHANGED <<owner, turns, pvacKeys, ops, handles, ledger, presumed>>

\* lock(): the wallet is blanked under whoever still holds it; the bridge keeps its keys.
LockPrivate ==
  /\ owner # NoOne /\ owner' = NoOne /\ pvacStatus' = "idle"
  /\ loading' = [i \in DOMAIN loading |-> IF loading[i].turn = turns
                                           THEN [loading[i] EXCEPT !.of = NoOne] ELSE loading[i]]
  /\ ops' = [i \in Ops |-> IF ops[i].pc \notin {"none", "over"} /\ ops[i].turn = turns
                           THEN [ops[i] EXCEPT !.wiped = TRUE] ELSE ops[i]]
  /\ UNCHANGED <<turns, pvacKeys, handles, ledger, presumed>>

-----------------------------------------------------------------------------
(* encryptBalance, decryptBalance and the stealth send, step by step.      *)

\* finally: every handle of the operation is freed, however it ends.
Over(i) == ops' = [ops EXCEPT ![i] = [NoOp EXCEPT !.pc = "over"]] /\ handles' = [handles EXCEPT ![i] = {}]

\* Mutant: the handles are freed at the end of a success only.
OpFailsKeepingHandles(i) ==
  ops' = [ops EXCEPT ![i] = [NoOp EXCEPT !.pc = "over"]] /\ UNCHANGED handles

\* A step throws: the error is shown and the operation is over.
OpFails(i) == Over(i)

Goes(i, pc) == ops' = [ops EXCEPT ![i].pc = pc] /\ UNCHANGED handles

\* requestSubmit, handleSubmit and requireBridge, which takes the bridge as it is; the
\* stealth send uses no bridge.
BeginOp(i, kind, n) ==
  /\ ops[i].pc = "none" /\ \A j \in Ops : j < i => ops[j].pc # "none"
  /\ owner # NoOne
  /\ kind # "stealth" => pvacStatus = "ready"
  /\ ops' = [ops EXCEPT ![i] = [NoOp EXCEPT !.pc = IF kind = "stealth" THEN "pubkey" ELSE "register",
                                            !.kind = kind, !.addr = owner, !.turn = turns, !.amount = n]]
  /\ UNCHANGED <<owner, turns, pvacKeys, pvacStatus, loading, handles, ledger, presumed>>

\* Mutant: a key found on the chain is taken for the wallet's own.
ReadRegisteredTrusting(i) ==
  LET found == ledger[ops[i].addr].pvac IN
  /\ ops[i].pc = "register"
  /\ (found # NoOne /\ Goes(i, "read")) \/ Goes(i, "registering") \/ OpFails(i)
  /\ UNCHANGED <<owner, turns, pvacKeys, pvacStatus, loading, ledger, presumed>>

\* ensurePvacRegistered asks for the key on the chain: the bridge's will do and another
\* throws; with none, or no answer, the bridge's is to be registered.
ReadRegistered(i) ==
  LET found == ledger[ops[i].addr].pvac IN
  /\ ops[i].pc = "register"
  /\ (found = pvacKeys /\ Goes(i, "read")) \/ Goes(i, "registering") \/ OpFails(i)
  /\ UNCHANGED <<owner, turns, pvacKeys, pvacStatus, loading, ledger, presumed>>

\* registerPvacPubkey, signed: the node takes a first key, though its answer may be lost; that
\* one is "already registered" counts as success, whichever it is.
RegisterKey(i) ==
  LET me == ops[i].addr IN
  /\ ops[i].pc = "registering"
  /\ \/ /\ ledger[me].pvac = NoOne /\ ~ops[i].wiped
        /\ ledger' = [ledger EXCEPT ![me].pvac = pvacKeys] /\ (Goes(i, "read") \/ OpFails(i))
        /\ UNCHANGED presumed
     \/ /\ ledger[me].pvac # NoOne /\ Goes(i, "read") /\ UNCHANGED ledger
        /\ presumed' = IF ledger[me].pvac = pvacKeys THEN presumed ELSE presumed \cup {me}
     \/ OpFails(i) /\ UNCHANGED <<ledger, presumed>>
  /\ UNCHANGED <<owner, turns, pvacKeys, pvacStatus, loading>>

\* readEncryptedCipher, signed, and tryGetBalance: null under other keys than its own.
ReadCipher(i) ==
  LET c == ledger[ops[i].addr] IN
  /\ ops[i].pc = "read"
  /\ \/ /\ ~ops[i].wiped /\ c.under \in {NoOne, pvacKeys}
        /\ ops[i].kind = "decrypt" => c.enc >= ops[i].amount
        /\ ops' = [ops EXCEPT ![i].pc = "nonce", ![i].cipher = c.enc] /\ UNCHANGED handles
     \/ OpFails(i)
  /\ UNCHANGED <<owner, turns, pvacKeys, pvacStatus, loading, ledger, presumed>>

\* StealthPanel: getPublicKey of the recipient, then prepareStealthSend.
FetchRecipientKey(i) ==
  /\ ops[i].pc = "pubkey" /\ (Goes(i, "nonce") \/ OpFails(i))
  /\ UNCHANGED <<owner, turns, pvacKeys, pvacStatus, loading, ledger, presumed>>

\* What the public balance has to cover; the stealth send does not look.
Needed(o) == CASE o.kind = "encrypt" -> o.amount + OpFee
               [] o.kind = "decrypt" -> OpFee
               [] OTHER -> 0

\* nonceAndBalance, fetchNextNonce
ReadNonce(i) ==
  LET c == ledger[ops[i].addr] IN
  /\ ops[i].pc = "nonce"
  /\ \/ /\ c.pub >= Needed(ops[i])
        /\ ops' = [ops EXCEPT ![i].pc = IF ops[i].kind = "stealth" THEN "submit" ELSE "build",
                              ![i].nonce = c.nonce + 1]
        /\ UNCHANGED handles
     \/ OpFails(i)
  /\ UNCHANGED <<owner, turns, pvacKeys, pvacStatus, loading, ledger, presumed>>

\* The handles made one after the other: the ciphertext of the amount and its zero proof; to
\* decrypt, between them the current ciphertext and the difference, and last the range proof.
HandlesOf(kind) == IF kind = "encrypt" THEN <<"ct", "zkp">>
                ELSE <<"ct", "currentCt", "newBalCt", "zkp", "rpBal">>

BuildPayload(i) ==
  LET w == HandlesOf(ops[i].kind)
      k == Cardinality(handles[i]) IN
  /\ ops[i].pc = "build"
  /\ \/ /\ k < Len(w)
        /\ handles' = [handles EXCEPT ![i] = @ \cup {w[k + 1]}] /\ UNCHANGED ops
     \/ k = Len(w) /\ Goes(i, "submit")
     \/ OpFails(i)
  /\ UNCHANGED <<owner, turns, pvacKeys, pvacStatus, loading, ledger, presumed>>

\* What an accepted transaction does to the account.
Applied(c, o) ==
  CASE o.kind = "encrypt" -> [c EXCEPT !.enc = @ + o.amount, !.under = pvacKeys,
                                       !.pub = @ - o.amount - OpFee, !.nonce = o.nonce]
    [] o.kind = "decrypt" -> [c EXCEPT !.enc = @ - o.amount, !.pub = (@ + o.amount) - OpFee,
                                       !.nonce = o.nonce]
    [] OTHER -> [c EXCEPT !.pub = @ - o.amount - OpFee, !.nonce = o.nonce]

\* submitTx: sign, submit, and the transaction into the local history.
SubmitPrivate(i) ==
  LET me == ops[i].addr
      c  == ledger[me] IN
  /\ ops[i].pc = "submit"
  /\ \/ /\ ~ops[i].wiped /\ ops[i].nonce = c.nonce + 1
        /\ ops[i].kind = "decrypt" => ops[i].cipher = c.enc
        /\ c.pub >= OpFee + (IF ops[i].kind = "decrypt" THEN 0 ELSE ops[i].amount)
        /\ ledger' = [ledger EXCEPT ![me] = Applied(c, ops[i])] /\ Over(i)
     \/ OpFails(i) /\ UNCHANGED ledger
  /\ UNCHANGED <<owner, turns, pvacKeys, pvacStatus, loading, presumed>>

\* Another device of the same owner, where the bridge has the right keys, registers them or
\* encrypts an amount while an operation is under way here.
OtherDevice(a) ==
  LET c == ledger[a] IN
  /\ Working /\ c.pvac \in {NoOne, a} /\ c.under \in {NoOne, a}
  /\ ledger' = [ledger EXCEPT ![a] =
       IF c.pvac = NoOne THEN [c EXCEPT !.pvac = a]
       ELSE [c EXCEPT !.enc = 1, !.under = a, !.pub = @ - 1 - OpFee, !.nonce = @ + 1]]
  /\ c.pvac # NoOne => c.enc = 0 /\ c.pub > OpFee
  /\ UNCHANGED <<owner, turns, pvacKeys, pvacStatus, loading, ops, handles, presumed>>

OpStep(i) ==
  \/ ReadRegistered(i) \/ RegisterKey(i) \/ ReadCipher(i) \/ FetchRecipientKey(i) \/ ReadNonce(i)
  \/ BuildPayload(i) \/ SubmitPrivate(i)

PrivNext ==
  \/ \E a \in Owners : SetWallet(a) \/ OtherDevice(a)
  \/ ReloadPvac \/ ModuleLoaded \/ ModuleFails \/ LockPrivate
  \/ \E i \in Ops, kind \in {"encrypt", "decrypt", "stealth"}, n \in OpAmounts : BeginOp(i, kind, n)
  \/ \E i \in Ops : OpStep(i)

PrivSpec == PrivInit /\ [][PrivNext]_priv_vars

-----------------------------------------------------------------------------
PrivTypeOK ==
  /\ owner \in Owners \cup {NoOne} /\ turns \in 0..MaxTurns
  /\ pvacKeys \in Owners \cup {NoOne} /\ \A i \in DOMAIN loading : loading[i].of \in Owners \cup {NoOne} /\ loading[i].turn \in 1..turns
  /\ pvacStatus \in {"idle", "loading", "ready", "unavailable"}
  /\ \A i \in Ops :
       /\ ops[i].pc \in {"none", "register", "registering", "pubkey", "read", "nonce", "build", "submit", "over"}
       /\ handles[i] \subseteq {"ct", "zkp", "currentCt", "newBalCt", "rpBal"}
  /\ \A a \in Owners : ledger[a].enc \in Nat /\ ledger[a].pub \in Nat
  /\ presumed \subseteq Owners

\* However loads, locks, switches and the other device interleave with an operation, the
\* ciphertext of an account is under the key registered for it: the keys that were compared
\* are the keys that encrypt (api/encrypt.ts ensurePvacRegistered). Only a registration that
\* came after another's, and counts as done, breaks it.
CipherUnderRegisteredKey ==
  \A a \in Owners \ presumed : ledger[a].under \in {NoOne, ledger[a].pvac}

\* Not so: an operation that goes on has found the registered key to be the bridge's, "if the
\* node already has a key, it must equal ours" (ensurePvacRegistered).
RegisteredIsOurs ==
  \A i \in Ops : ops[i].kind \in {"encrypt", "decrypt"} /\ ops[i].pc \in {"read", "nonce", "build", "submit"}
                => ledger[ops[i].addr].pvac = pvacKeys

\* No handle in the WASM heap outlives its operation, at whichever step that failed
\* (the finally blocks of encryptBalance and decryptBalance).
HandlesFreed == \A i \in Ops : ops[i].pc \notin {"build", "submit"} => handles[i] = {}

\* The key registered for an account is derived from that account's key: the bridge an
\* operation gets is "initialized for this wallet" (api/encrypt.ts requireBridge).
RegistersOwnKey == \A a \in Owners : ledger[a].pvac \in {a, NoOne}
=============================================================================
