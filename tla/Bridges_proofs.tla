--------------------------- MODULE Bridges_proofs ---------------------------
(***************************************************************************)
(* The encrypted balance, the bridge it is computed in, the provider that  *)
(* bridges a dApp's page and the wallet, the two windows in which what the *)
(* page asks is put before the user, the pages that use the bridge, and    *)
(* the names of the methods that a dApp may call.                          *)
(***************************************************************************)
EXTENDS PrivateBalance, WasmBridge, Provider, Protocol, PromptWindows, PrivatePanels,
        Lists_proofs

-----------------------------------------------------------------------------
(***************************************************************************)
(* PrivateBalance, for any set of accounts and amounts and any number of   *)
(* loads and operations.                                                   *)
(*                                                                         *)
(* An operation compares the bridge's key with the registered one at its   *)
(* start and encrypts several awaits later, with whatever keys the one     *)
(* bridge has by then. What makes that safe is that a bridge that has keys *)
(* keeps them: nothing is loading while it does, so no load can end and    *)
(* derive others between the comparison and the encryption.                *)
(***************************************************************************)

CipherKinds == {"encrypt", "decrypt"}
OpPCs       == {"none", "register", "registering", "pubkey", "read", "nonce", "build", "submit", "over"}
Keyed       == {"read", "nonce", "build", "submit"}  \* past the comparison of the keys
HandleNames == {"ct", "zkp", "currentCt", "newBalCt", "rpBal"}
LoadRecs    == [of : Owners \cup {NoOne}, turn : Nat]
OpRecs      == [pc : OpPCs, kind : CipherKinds \cup {"none", "stealth"}, addr : Owners \cup {NoOne},
                amount : Nat, cipher : Nat, nonce : Nat, turn : Nat, wiped : BOOLEAN]
LedgerRecs  == [pvac : Owners \cup {NoOne}, enc : Nat, under : Owners \cup {NoOne},
                pub : Nat, nonce : Nat]

PrivTyped ==
  /\ owner \in Owners \cup {NoOne} /\ turns \in Nat /\ pvacKeys \in Owners \cup {NoOne}
  /\ pvacStatus \in {"idle", "loading", "ready", "unavailable"}
  /\ loading \in Seq(LoadRecs) /\ ops \in [Ops -> OpRecs]
  /\ handles \in [Ops -> SUBSET HandleNames] /\ ledger \in [Owners -> LedgerRecs]
  /\ presumed \subseteq Owners

\* A bridge with keys has nothing loading over it, and one that is ready has keys.
KeysStay == /\ pvacKeys # NoOne => loading = <<>>
            /\ pvacStatus = "ready" => pvacKeys # NoOne

\* An operation with handles h, on the ledger l: under way it has an account; one that uses
\* the bridge has found keys in it and, past their comparison, they are the registered ones
\* or presumed to be.
OpSafe(o, h, l) ==
  /\ o.pc \notin {"none", "over"} => o.addr \in Owners /\ o.kind # "none"
  /\ o.pc \in {"register", "registering", "read", "build"} => o.kind \in CipherKinds
  /\ o.pc = "pubkey" => o.kind = "stealth"
  /\ o.kind \in CipherKinds /\ o.pc \notin {"none", "over"} => pvacKeys # NoOne
  /\ o.kind \in CipherKinds /\ o.pc \in Keyed => l[o.addr].pvac = pvacKeys \/ o.addr \in presumed
  /\ o.kind = "decrypt" /\ o.pc \in Keyed \ {"read"} => o.amount <= o.cipher
  /\ o.pc \notin {"build", "submit"} => h = {}

PrivInv == /\ PrivTyped /\ KeysStay /\ CipherUnderRegisteredKey
           /\ \A i \in Ops : OpSafe(ops[i], handles[i], ledger)
-----------------------------------------------------------------------------
\* The operation that is over, and the one that has begun.
LEMMA OverIsSafe ==
  LET over == [NoOp EXCEPT !.pc = "over"] IN
  over \in OpRecs /\ NoOp \in OpRecs /\ \A l : OpSafe(over, {}, l) /\ OpSafe(NoOp, {}, l)
<1> DEFINE over == [NoOp EXCEPT !.pc = "over"]
<1>1. /\ NoOp \in OpRecs /\ NoOp.pc = "none" /\ NoOp.kind = "none"
  BY DEF NoOp, OpRecs, OpPCs
<1>2. over \in OpRecs /\ over.pc = "over" /\ over.kind = "none"
  BY <1>1 DEF OpRecs, OpPCs
<1> HIDE DEF over
<1>3. \A l : OpSafe(over, {}, l)
  BY <1>2 DEF OpSafe, CipherKinds, Keyed
<1>4. \A l : OpSafe(NoOp, {}, l)
  BY <1>1 DEF OpSafe, CipherKinds, Keyed
<1> QED
  BY <1>1, <1>2, <1>3, <1>4 DEF over

\* Nothing is loaded and nothing under way at first.
LEMMA PrivInitInv == PrivInit => PrivInv
<1> SUFFICES ASSUME PrivInit PROVE PrivInv
  OBVIOUS
<1> DEFINE fresh == [pvac |-> NoOne, enc |-> 0, under |-> NoOne, pub |-> Funds, nonce |-> 0]
<1>1. fresh \in LedgerRecs /\ fresh.under = NoOne
  BY PrivateAssumption DEF LedgerRecs
<1>2. ledger = [a \in Owners |-> fresh]
  BY DEF PrivInit
<1> HIDE DEF fresh
<1>3. ledger \in [Owners -> LedgerRecs] /\ CipherUnderRegisteredKey
  BY <1>1, <1>2 DEF CipherUnderRegisteredKey
<1>4. /\ owner \in Owners \cup {NoOne} /\ turns \in Nat /\ pvacKeys \in Owners \cup {NoOne}
      /\ pvacStatus = "idle" /\ loading \in Seq(LoadRecs) /\ pvacKeys = NoOne
      /\ presumed = {} /\ ops = [i \in Ops |-> NoOp] /\ handles = [i \in Ops |-> {}]
  BY DEF PrivInit
<1>5. ops \in [Ops -> OpRecs] /\ handles \in [Ops -> SUBSET HandleNames]
  BY <1>4, OverIsSafe
<1>6. \A i \in Ops : OpSafe(ops[i], handles[i], ledger)
  BY <1>4, OverIsSafe
<1> QED
  BY <1>3, <1>4, <1>5, <1>6 DEF PrivInv, PrivTyped, KeysStay

-----------------------------------------------------------------------------
(* The ledger, an operation, and the bridge, each moving on its own.       *)

\* The node's accounts change: a registered key stays what it is.
LEMMA LedgerMoves ==
  ASSUME PrivInv, NEW a \in Owners, NEW c \in LedgerRecs, ledger' = [ledger EXCEPT ![a] = c],
         ledger[a].pvac # NoOne => c.pvac = ledger[a].pvac, c.under \in {NoOne, c.pvac} \/ a \in presumed
  PROVE  /\ ledger' \in [Owners -> LedgerRecs] /\ ledger'[a] = c
         /\ \A b \in Owners \ presumed : ledger'[b].under \in {NoOne, ledger'[b].pvac}
         /\ \A i \in Ops : OpSafe(ops[i], handles[i], ledger')
<1>1. ledger \in [Owners -> LedgerRecs]
  BY DEF PrivInv, PrivTyped
<1>2. ledger' \in [Owners -> LedgerRecs] /\ ledger'[a] = c
  BY <1>1
<1>3. ASSUME NEW b \in Owners \ presumed PROVE ledger'[b].under \in {NoOne, ledger'[b].pvac}
  BY <1>1, <1>2 DEF PrivInv, CipherUnderRegisteredKey
<1>4. ASSUME NEW b \in Owners, ledger[b].pvac # NoOne PROVE ledger'[b].pvac = ledger[b].pvac
  BY <1>1, <1>2, <1>4
<1>5. ASSUME NEW i \in Ops PROVE OpSafe(ops[i], handles[i], ledger')
  <2>1. OpSafe(ops[i], handles[i], ledger)
    BY DEF PrivInv
  <2>2. ASSUME ops[i].kind \in CipherKinds, ops[i].pc \in Keyed
        PROVE  ledger'[ops[i].addr].pvac = pvacKeys \/ ops[i].addr \in presumed
    <3>1. ops[i].pc \notin {"none", "over"}
      BY <2>2 DEF Keyed
    <3>2. /\ pvacKeys # NoOne /\ ops[i].addr \in Owners
          /\ ledger[ops[i].addr].pvac = pvacKeys \/ ops[i].addr \in presumed
      BY <2>1, <2>2, <3>1 DEF OpSafe
    <3> QED
      BY <1>4, <3>2
  <2> QED
    BY <2>1, <2>2 DEF OpSafe
<1> QED
  BY <1>2, <1>3, <1>5

\* One operation moves; the ledger may have moved with it.
LEMMA OpMoves ==
  ASSUME PrivInv, NEW i \in Ops, NEW o \in OpRecs, NEW h \in SUBSET HandleNames,
         ops' = [ops EXCEPT ![i] = o], handles' = [handles EXCEPT ![i] = h],
         OpSafe(o, h, ledger'),
         ledger' \in [Owners -> LedgerRecs],
         \A b \in Owners \ presumed : ledger'[b].under \in {NoOne, ledger'[b].pvac},
         \A j \in Ops : OpSafe(ops[j], handles[j], ledger'),
         UNCHANGED <<owner, turns, pvacKeys, pvacStatus, loading, presumed>>
  PROVE  PrivInv'
<1>1. ops \in [Ops -> OpRecs] /\ handles \in [Ops -> SUBSET HandleNames]
  BY DEF PrivInv, PrivTyped
<1>2. PrivTyped'
  BY <1>1 DEF PrivInv, PrivTyped
<1>3. KeysStay' /\ CipherUnderRegisteredKey'
  BY DEF PrivInv, KeysStay, CipherUnderRegisteredKey
<1>4. ASSUME NEW j \in Ops PROVE OpSafe(ops[j], handles[j], ledger)'
  <2>1. OpSafe(ops'[j], handles'[j], ledger')
    BY <1>1
  <2> QED
    BY <2>1 DEF OpSafe
<1> QED
  BY <1>2, <1>3, <1>4 DEF PrivInv

\* The same on an unchanged ledger.
LEMMA OpMovesAlone ==
  ASSUME PrivInv, NEW i \in Ops, NEW o \in OpRecs, NEW h \in SUBSET HandleNames,
         ops' = [ops EXCEPT ![i] = o], handles' = [handles EXCEPT ![i] = h],
         OpSafe(o, h, ledger),
         UNCHANGED <<owner, turns, pvacKeys, pvacStatus, loading, ledger, presumed>>
  PROVE  PrivInv'
<1>1. /\ ledger' = ledger /\ ledger' \in [Owners -> LedgerRecs]
      /\ \A b \in Owners \ presumed : ledger'[b].under \in {NoOne, ledger'[b].pvac}
      /\ \A j \in Ops : OpSafe(ops[j], handles[j], ledger')
  BY DEF PrivInv, PrivTyped, CipherUnderRegisteredKey
<1> QED
  BY <1>1, OpMoves

\* An operation goes to its next step, which may not be one that compares or checks.
LEMMA OpGoes ==
  ASSUME PrivInv, NEW i \in Ops, NEW pc \in OpPCs, Goes(i, pc),
         OpSafe([ops[i] EXCEPT !.pc = pc], handles[i], ledger),
         UNCHANGED <<owner, turns, pvacKeys, pvacStatus, loading, ledger, presumed>>
  PROVE  PrivInv'
<1>1. ops[i] \in OpRecs /\ handles[i] \in SUBSET HandleNames
  BY DEF PrivInv, PrivTyped
<1>2. [ops[i] EXCEPT !.pc = pc] \in OpRecs
  BY <1>1 DEF OpRecs
<1>3. /\ ops' = [ops EXCEPT ![i] = [ops[i] EXCEPT !.pc = pc]]
      /\ handles' = [handles EXCEPT ![i] = handles[i]]
  BY DEF Goes, PrivInv, PrivTyped
<1> QED
  BY <1>1, <1>2, <1>3, OpMovesAlone

\* An operation is over, at whichever step.
LEMMA OpEnds ==
  ASSUME PrivInv, NEW i \in Ops, Over(i),
         UNCHANGED <<owner, turns, pvacKeys, pvacStatus, loading, ledger, presumed>>
  PROVE  PrivInv'
BY OverIsSafe, OpMovesAlone DEF Over
-----------------------------------------------------------------------------
(* The wallet and the bridge.                                              *)

\* autoLoadPvac loads only where there are no keys, so nothing loads over those there are.
LEMMA AutoLoadKeeps ==
  ASSUME PrivInv, NEW a \in Owners, NEW turn \in Nat, AutoLoad(a, turn), UNCHANGED pvacKeys
  PROVE  /\ loading' \in Seq(LoadRecs) /\ pvacStatus' \in {"loading", "ready"}
         /\ KeysStay'
<1>1. [of |-> a, turn |-> turn] \in LoadRecs
  BY DEF LoadRecs
<1>2. CASE pvacKeys # NoOne
  BY <1>2 DEF AutoLoad, PrivInv, PrivTyped, KeysStay
<1>3. CASE pvacKeys = NoOne
  BY <1>1, <1>3 DEF AutoLoad, PrivInv, PrivTyped, KeysStay
<1> QED
  BY <1>2, <1>3

\* A step that changes neither keys, operations nor ledger.
LEMMA QuietPrivate ==
  ASSUME PrivInv, owner' \in Owners \cup {NoOne}, turns' \in Nat,
         pvacStatus' \in {"idle", "loading", "ready", "unavailable"},
         loading' \in Seq(LoadRecs), KeysStay',
         UNCHANGED <<pvacKeys, ops, handles, ledger, presumed>>
  PROVE  PrivInv'
<1>1. PrivTyped' /\ CipherUnderRegisteredKey'
  BY DEF PrivInv, PrivTyped, CipherUnderRegisteredKey
<1>2. \A i \in Ops : OpSafe(ops[i], handles[i], ledger)'
  BY DEF PrivInv, OpSafe
<1> QED
  BY <1>1, <1>2 DEF PrivInv

\* The bridge loads for the wallet that is set, or its module fails.
LEMMA LoadKeeps ==
  ASSUME PrivInv, NEW a \in Owners, SetWallet(a) \/ ReloadPvac \/ ModuleFails
  PROVE  PrivInv'
<1>1. CASE SetWallet(a)
  <2>1. turns + 1 \in Nat /\ owner' \in Owners /\ turns' = turns + 1
    BY <1>1 DEF SetWallet, PrivInv, PrivTyped
  <2>2. AutoLoad(a, turns + 1) /\ UNCHANGED <<pvacKeys, ops, handles, ledger, presumed>>
    BY <1>1 DEF SetWallet
  <2>3. /\ loading' \in Seq(LoadRecs) /\ pvacStatus' \in {"loading", "ready"} /\ KeysStay'
    BY <2>1, <2>2, AutoLoadKeeps
  <2> QED
    BY <2>1, <2>2, <2>3, QuietPrivate
<1>2. CASE ReloadPvac
  <2>1. owner \in Owners /\ turns \in Nat /\ AutoLoad(owner, turns)
        /\ UNCHANGED <<owner, turns, pvacKeys, ops, handles, ledger, presumed>>
    BY <1>2 DEF ReloadPvac, PrivInv, PrivTyped
  <2>2. /\ loading' \in Seq(LoadRecs) /\ pvacStatus' \in {"loading", "ready"} /\ KeysStay'
    BY <2>1, AutoLoadKeeps
  <2> QED
    BY <2>1, <2>2, QuietPrivate
<1>3. CASE ModuleFails
  <2>1. loading' \in Seq(LoadRecs) /\ pvacStatus' = "unavailable"
    BY <1>3 DEF ModuleFails
  <2>2. KeysStay'
    BY <1>3 DEF ModuleFails, PrivInv, KeysStay
  <2>3. UNCHANGED <<owner, turns, pvacKeys, ops, handles, ledger, presumed>>
    BY <1>3 DEF ModuleFails
  <2> QED
    BY <2>1, <2>2, <2>3, QuietPrivate DEF PrivInv, PrivTyped
<1> QED
  BY <1>1, <1>2, <1>3

\* New keys come only where there were none, so no operation that uses the bridge is under
\* way; a bridge that ends ready has the keys of a wallet that was not wiped.
LEMMA ModuleLoadedKeeps == ASSUME PrivInv, ModuleLoaded PROVE PrivInv'
<1> DEFINE alive == {i \in DOMAIN loading : loading[i].of # NoOne}
<1>1. /\ loading # <<>> /\ loading' = <<>> /\ pvacKeys = NoOne
      /\ UNCHANGED <<owner, turns, ops, handles, ledger, presumed>>
  BY DEF ModuleLoaded, PrivInv, KeysStay
<1>2. loading \in Seq(LoadRecs) /\ Len(loading) \in DOMAIN loading
  BY <1>1 DEF PrivInv, PrivTyped
<1>3. pvacKeys' \in Owners \cup {NoOne} /\ (alive # {} => pvacKeys' # NoOne)
  <2>1. CASE alive = {} /\ pvacKeys' = NoOne
    BY <2>1
  <2>2. CASE \E i \in alive : pvacKeys' = loading[i].of
    <3>1. PICK i \in alive : pvacKeys' = loading[i].of
      BY <2>2
    <3>2. loading[i] \in LoadRecs /\ loading[i].of # NoOne
      BY <1>2
    <3> QED
      BY <3>1, <3>2 DEF LoadRecs
  <2> QED
    BY <2>1, <2>2 DEF ModuleLoaded
<1>4. pvacStatus' \in {"unavailable", "ready"} /\ (pvacStatus' = "ready" => alive # {})
  BY <1>2 DEF ModuleLoaded
<1> HIDE DEF alive
<1>5. PrivTyped' /\ KeysStay' /\ CipherUnderRegisteredKey'
  BY <1>1, <1>3, <1>4 DEF PrivInv, PrivTyped, KeysStay, CipherUnderRegisteredKey
<1>6. ASSUME NEW i \in Ops PROVE OpSafe(ops[i], handles[i], ledger)'
  <2>1. OpSafe(ops[i], handles[i], ledger)
    BY DEF PrivInv
  <2>2. ops[i].kind \in CipherKinds => ops[i].pc \in {"none", "over"}
    BY <1>1, <2>1 DEF OpSafe
  <2> QED
    BY <1>1, <2>1, <2>2 DEF OpSafe, Keyed
<1> QED
  BY <1>5, <1>6 DEF PrivInv

\* lock() blanks the wallets under loads and operations, and leaves the keys.
LEMMA LockPrivateKeeps == ASSUME PrivInv, LockPrivate PROVE PrivInv'
<1>1. /\ owner' = NoOne /\ pvacStatus' = "idle" /\ UNCHANGED <<turns, pvacKeys, handles, ledger, presumed>>
  BY DEF LockPrivate
<1>2. loading' \in Seq(LoadRecs) /\ (loading = <<>> => loading' = <<>>)
  <2>1. Len(loading) \in Nat /\ DOMAIN loading = 1..Len(loading)
        /\ \A i \in DOMAIN loading : loading[i] \in LoadRecs
    BY DEF PrivInv, PrivTyped
  <2>2. \A i \in DOMAIN loading : [loading[i] EXCEPT !.of = NoOne] \in LoadRecs
    BY <2>1 DEF LoadRecs
  <2>3. loading' \in [1..Len(loading) -> LoadRecs]
    BY <2>1, <2>2 DEF LockPrivate
  <2>4. loading' \in Seq(LoadRecs) /\ Len(loading') = Len(loading)
    BY <2>1, <2>3
  <2> QED
    BY <2>4
<1>3. ASSUME NEW i \in Ops
      PROVE  /\ ops'[i] \in OpRecs
             /\ OpSafe(ops[i], handles[i], ledger) => OpSafe(ops'[i], handles[i], ledger)
  <2>1. ops[i] \in OpRecs
    BY DEF PrivInv, PrivTyped
  <2>2. ops'[i] = ops[i] \/ ops'[i] = [ops[i] EXCEPT !.wiped = TRUE]
    BY DEF LockPrivate
  <2>3. /\ ops'[i] \in OpRecs /\ ops'[i].pc = ops[i].pc /\ ops'[i].kind = ops[i].kind
        /\ ops'[i].addr = ops[i].addr /\ ops'[i].amount = ops[i].amount
        /\ ops'[i].cipher = ops[i].cipher
    BY <2>1, <2>2 DEF OpRecs
  <2> QED
    BY <2>3 DEF OpSafe
<1>4. ops' \in [Ops -> OpRecs]
  BY <1>3 DEF LockPrivate
<1>5. PrivTyped' /\ KeysStay' /\ CipherUnderRegisteredKey'
  BY <1>1, <1>2, <1>4 DEF PrivInv, PrivTyped, KeysStay, CipherUnderRegisteredKey
<1>6. ASSUME NEW i \in Ops PROVE OpSafe(ops[i], handles[i], ledger)'
  <2>1. OpSafe(ops'[i], handles[i], ledger)
    BY <1>3 DEF PrivInv
  <2> QED
    BY <1>1, <2>1 DEF OpSafe
<1> QED
  BY <1>5, <1>6 DEF PrivInv

-----------------------------------------------------------------------------
(* The operations.                                                         *)

\* An operation on the encrypted balance begins only on a bridge that is ready.
LEMMA BeginKeeps ==
  ASSUME PrivInv, NEW i \in Ops, NEW kind \in CipherKinds \cup {"stealth"}, NEW n \in OpAmounts,
         BeginOp(i, kind, n)
  PROVE  PrivInv'
<1> DEFINE pc == IF kind = "stealth" THEN "pubkey" ELSE "register"
           o  == [NoOp EXCEPT !.pc = pc, !.kind = kind, !.addr = owner, !.turn = turns,
                              !.amount = n]
<1>1. /\ ops[i].pc = "none" /\ owner \in Owners /\ turns \in Nat /\ n \in Nat
      /\ kind # "stealth" => pvacKeys # NoOne
      /\ ops' = [ops EXCEPT ![i] = o]
      /\ UNCHANGED <<owner, turns, pvacKeys, pvacStatus, loading, handles, ledger, presumed>>
  BY PrivateAssumption DEF BeginOp, PrivInv, PrivTyped, KeysStay
<1>2. handles[i] = {} /\ handles' = [handles EXCEPT ![i] = {}]
  BY <1>1 DEF PrivInv, PrivTyped, OpSafe
<1>3. NoOp \in OpRecs
  BY OverIsSafe
<1>4. o \in OpRecs /\ o.pc = pc /\ o.kind = kind /\ o.addr = owner
  BY <1>1, <1>3 DEF OpRecs, OpPCs, CipherKinds
<1> HIDE DEF o
<1>5. OpSafe(o, {}, ledger)
  BY <1>1, <1>4 DEF OpSafe, CipherKinds, Keyed
<1> QED
  BY <1>1, <1>2, <1>4, <1>5, OpMovesAlone

\* ensurePvacRegistered: the operation goes on when the key it finds is the bridge's.
LEMMA FindKeyKeeps ==
  ASSUME PrivInv, NEW i \in Ops, ReadRegistered(i) PROVE PrivInv'
<1>1. /\ ops[i] \in OpRecs /\ ops[i].pc = "register" /\ OpSafe(ops[i], handles[i], ledger)
      /\ UNCHANGED <<owner, turns, pvacKeys, pvacStatus, loading, ledger, presumed>>
  BY DEF ReadRegistered, PrivInv, PrivTyped
<1>2. CASE OpFails(i)
  BY <1>1, <1>2, OpEnds DEF OpFails
<1>3. ASSUME NEW pc \in {"read", "registering"}, Goes(i, pc),
             pc = "read" => ledger[ops[i].addr].pvac = pvacKeys
      PROVE  PrivInv'
  <2> DEFINE o == [ops[i] EXCEPT !.pc = pc]
  <2>1. /\ o.pc = pc /\ o.kind = ops[i].kind /\ o.addr = ops[i].addr
        /\ o.amount = ops[i].amount /\ o.cipher = ops[i].cipher
    BY <1>1 DEF OpRecs, OpPCs
  <2> HIDE DEF o
  <2>2. OpSafe(o, handles[i], ledger) /\ pc \in OpPCs
    BY <1>1, <1>3, <2>1 DEF OpSafe, OpPCs, Keyed
  <2> QED
    BY <1>1, <1>3, <2>2, OpGoes DEF o
<1> QED
  BY <1>2, <1>3 DEF ReadRegistered

\* The account of an operation is presumed registered, the ledger and the keys stay.
LEMMA PresumedKeeps ==
  ASSUME PrivInv, NEW i \in Ops, ops[i].pc = "registering", Goes(i, "read"),
         presumed' = presumed \cup {ops[i].addr},
         UNCHANGED <<owner, turns, pvacKeys, pvacStatus, loading, ledger>>
  PROVE  PrivInv'
<1> DEFINE o == [ops[i] EXCEPT !.pc = "read"]
<1>1. ops[i] \in OpRecs /\ OpSafe(ops[i], handles[i], ledger)
  BY DEF PrivInv, PrivTyped
<1>2. /\ o \in OpRecs /\ o.pc = "read" /\ o.kind = ops[i].kind /\ o.addr = ops[i].addr
      /\ ops' = [ops EXCEPT ![i] = o] /\ handles' = handles /\ ops \in [Ops -> OpRecs]
  BY <1>1 DEF OpRecs, OpPCs, Goes, PrivInv, PrivTyped
<1>3. o.addr \in Owners /\ o.kind \in CipherKinds /\ pvacKeys # NoOne /\ handles[i] = {}
  BY <1>1, <1>2 DEF OpSafe
<1> HIDE DEF o
<1>4. PrivTyped' /\ KeysStay' /\ CipherUnderRegisteredKey'
  BY <1>2, <1>3 DEF PrivInv, PrivTyped, KeysStay, CipherUnderRegisteredKey
<1>5. ASSUME NEW j \in Ops PROVE OpSafe(ops[j], handles[j], ledger)'
  <2>1. CASE j = i
    BY <1>2, <1>3, <2>1 DEF OpSafe, CipherKinds, Keyed
  <2>2. CASE j # i
    BY <1>2, <2>2 DEF OpSafe, PrivInv
  <2> QED
    BY <2>1, <2>2
<1> QED
  BY <1>4, <1>5 DEF PrivInv

\* The key registered is the bridge's, or the account is presumed to be registered.
LEMMA RegisterKeeps ==
  ASSUME PrivInv, NEW i \in Ops, RegisterKey(i) PROVE PrivInv'
<1> DEFINE me == ops[i].addr
           o  == [ops[i] EXCEPT !.pc = "read"]
<1>1. /\ ops[i] \in OpRecs /\ ops[i].pc = "registering" /\ me \in Owners
      /\ ops[i].kind \in CipherKinds /\ pvacKeys # NoOne /\ handles[i] = {}
      /\ pvacKeys \in Owners \cup {NoOne} /\ ledger \in [Owners -> LedgerRecs]
      /\ UNCHANGED <<owner, turns, pvacKeys, pvacStatus, loading>>
  <2>1. OpSafe(ops[i], handles[i], ledger)
    BY DEF PrivInv
  <2> QED
    BY <2>1 DEF RegisterKey, PrivInv, PrivTyped, OpSafe
<1>2. o \in OpRecs /\ o.pc = "read" /\ o.kind = ops[i].kind /\ o.addr = me
  BY <1>1 DEF OpRecs, OpPCs
<1>3. ASSUME NEW l, l[me].pvac = pvacKeys PROVE OpSafe(o, {}, l)
  BY <1>1, <1>2, <1>3 DEF OpSafe, CipherKinds
<1>4. CASE /\ ledger[me].pvac = NoOne /\ (Goes(i, "read") \/ OpFails(i))
           /\ ledger' = [ledger EXCEPT ![me].pvac = pvacKeys] /\ UNCHANGED presumed
  <2> DEFINE c == [ledger[me] EXCEPT !.pvac = pvacKeys]
             over == [NoOp EXCEPT !.pc = "over"]
  <2>1. c \in LedgerRecs /\ c.pvac = pvacKeys /\ c.under = ledger[me].under
    BY <1>1 DEF LedgerRecs
  <2>2. /\ ledger' = [ledger EXCEPT ![me] = c]
        /\ c.under \in {NoOne, c.pvac} \/ me \in presumed
        /\ ledger[me].pvac # NoOne => c.pvac = ledger[me].pvac
    BY <1>1, <1>4, <2>1 DEF PrivInv, CipherUnderRegisteredKey
  <2> HIDE DEF c
  <2>3. /\ ledger' \in [Owners -> LedgerRecs] /\ ledger'[me] = c
        /\ \A b \in Owners \ presumed : ledger'[b].under \in {NoOne, ledger'[b].pvac}
        /\ \A j \in Ops : OpSafe(ops[j], handles[j], ledger')
    BY <1>1, <1>4, <2>1, <2>2, LedgerMoves
  <2>4. OpSafe(o, {}, ledger') /\ over \in OpRecs /\ OpSafe(over, {}, ledger')
    BY <1>3, <2>1, <2>3, OverIsSafe
  <2>5. /\ ops' = [ops EXCEPT ![i] = o] \/ ops' = [ops EXCEPT ![i] = over]
        /\ handles' = [handles EXCEPT ![i] = {}]
    BY <1>1, <1>4 DEF Goes, OpFails, Over, PrivInv, PrivTyped
  <2> HIDE DEF o, me, over
  <2> QED
    BY <1>1, <1>2, <1>4, <2>3, <2>4, <2>5, OpMoves
<1>5. CASE /\ Goes(i, "read") /\ UNCHANGED ledger
           /\ presumed' = IF ledger[me].pvac = pvacKeys THEN presumed ELSE presumed \cup {me}
  <2>1. CASE ledger[me].pvac = pvacKeys
    <3>1. OpSafe(o, handles[i], ledger) /\ "read" \in OpPCs
      BY <1>1, <1>3, <2>1 DEF OpPCs
    <3> QED
      BY <1>1, <1>5, <2>1, <3>1, OpGoes
  <2>2. CASE ledger[me].pvac # pvacKeys
    BY <1>1, <1>5, <2>2, PresumedKeeps
  <2> QED
    BY <2>1, <2>2
<1>6. CASE OpFails(i) /\ UNCHANGED <<ledger, presumed>>
  BY <1>1, <1>6, OpEnds DEF OpFails
<1> QED
  BY <1>4, <1>5, <1>6 DEF RegisterKey

\* readCipher decrypts with the keys compared before.
LEMMA ReadCipherKeeps ==
  ASSUME PrivInv, NEW i \in Ops, ReadCipher(i) PROVE PrivInv'
<1> DEFINE c == ledger[ops[i].addr]
           o == [ops[i] EXCEPT !.pc = "nonce", !.cipher = c.enc]
<1>1. /\ ops[i] \in OpRecs /\ ops[i].pc = "read" /\ ops[i].addr \in Owners
      /\ ops[i].kind \in CipherKinds /\ handles[i] = {}
      /\ OpSafe(ops[i], handles[i], ledger) /\ c \in LedgerRecs
      /\ UNCHANGED <<owner, turns, pvacKeys, pvacStatus, loading, ledger, presumed>>
  <2>1. OpSafe(ops[i], handles[i], ledger)
    BY DEF PrivInv
  <2> QED
    BY <2>1 DEF ReadCipher, PrivInv, PrivTyped, OpSafe
<1>2. CASE OpFails(i)
  BY <1>1, <1>2, OpEnds DEF OpFails
<1>3. CASE /\ ops[i].kind = "decrypt" => c.enc >= ops[i].amount
           /\ ops' = [ops EXCEPT ![i] = o] /\ UNCHANGED handles
  <2>1. /\ o \in OpRecs /\ o.pc = "nonce" /\ o.kind = ops[i].kind /\ o.addr = ops[i].addr
        /\ o.amount = ops[i].amount /\ o.cipher = c.enc /\ c.enc \in Nat /\ o.amount \in Nat
    BY <1>1 DEF OpRecs, OpPCs, LedgerRecs
  <2>2. o.kind = "decrypt" => o.amount <= o.cipher
    BY <1>3, <2>1
  <2> HIDE DEF o, c
  <2>3. OpSafe(o, {}, ledger)
    BY <1>1, <2>1, <2>2 DEF OpSafe, Keyed
  <2>4. handles' = [handles EXCEPT ![i] = {}]
    BY <1>1, <1>3 DEF PrivInv, PrivTyped
  <2> QED
    BY <1>1, <1>3, <2>1, <2>3, <2>4, OpMovesAlone
<1> QED
  BY <1>2, <1>3 DEF ReadCipher

\* The public key of a stealth recipient is looked up.
LEMMA PrivFetchKeeps ==
  ASSUME PrivInv, NEW i \in Ops, FetchRecipientKey(i) PROVE PrivInv'
<1>1. /\ ops[i] \in OpRecs /\ ops[i].pc = "pubkey" /\ OpSafe(ops[i], handles[i], ledger)
      /\ UNCHANGED <<owner, turns, pvacKeys, pvacStatus, loading, ledger, presumed>>
  BY DEF FetchRecipientKey, PrivInv, PrivTyped
<1>2. CASE OpFails(i)
  BY <1>1, <1>2, OpEnds DEF OpFails
<1>3. CASE Goes(i, "nonce")
  <2> DEFINE o == [ops[i] EXCEPT !.pc = "nonce"]
  <2>1. o.pc = "nonce" /\ o.kind = "stealth" /\ o.addr \in Owners /\ handles[i] = {}
    BY <1>1 DEF OpRecs, OpPCs, OpSafe
  <2> HIDE DEF o
  <2>2. OpSafe(o, handles[i], ledger) /\ "nonce" \in OpPCs
    BY <2>1 DEF OpSafe, OpPCs, CipherKinds
  <2> QED
    BY <1>1, <1>3, <2>2, OpGoes DEF o
<1> QED
  BY <1>2, <1>3 DEF FetchRecipientKey

\* The nonce is read after the ciphertext.
LEMMA ReadNonceKeeps ==
  ASSUME PrivInv, NEW i \in Ops, ReadNonce(i) PROVE PrivInv'
<1> DEFINE pc == IF ops[i].kind = "stealth" THEN "submit" ELSE "build"
           n  == ledger[ops[i].addr].nonce + 1
           o  == [ops[i] EXCEPT !.pc = pc, !.nonce = n]
<1>1. /\ ops[i] \in OpRecs /\ ops[i].pc = "nonce" /\ OpSafe(ops[i], handles[i], ledger)
      /\ ops[i].addr \in Owners /\ handles[i] = {} /\ ledger[ops[i].addr] \in LedgerRecs
      /\ UNCHANGED <<owner, turns, pvacKeys, pvacStatus, loading, ledger, presumed>>
  <2>1. OpSafe(ops[i], handles[i], ledger)
    BY DEF PrivInv
  <2> QED
    BY <2>1 DEF ReadNonce, PrivInv, PrivTyped, OpSafe
<1>2. CASE OpFails(i)
  BY <1>1, <1>2, OpEnds DEF OpFails
<1>3. CASE ops' = [ops EXCEPT ![i] = o] /\ UNCHANGED handles
  <2>1. pc \in {"submit", "build"} /\ (pc = "build" => ops[i].kind # "stealth")
    OBVIOUS
  <2>2. n \in Nat
    BY <1>1 DEF LedgerRecs
  <2> HIDE DEF pc, n
  <2>3. /\ o \in OpRecs /\ o.pc = pc /\ o.kind = ops[i].kind /\ o.addr = ops[i].addr
        /\ o.amount = ops[i].amount /\ o.cipher = ops[i].cipher
    BY <1>1, <2>1, <2>2 DEF OpRecs, OpPCs
  <2>4. ops[i].kind \in CipherKinds \cup {"stealth"}
    BY <1>1 DEF OpRecs, OpSafe
  <2> HIDE DEF o
  <2>5. OpSafe(o, {}, ledger)
    BY <1>1, <2>1, <2>3, <2>4 DEF OpSafe, Keyed
  <2>6. handles' = [handles EXCEPT ![i] = {}]
    BY <1>1, <1>3 DEF PrivInv, PrivTyped
  <2> QED
    BY <1>1, <1>3, <2>3, <2>5, <2>6, OpMovesAlone
<1> QED
  BY <1>2, <1>3 DEF ReadNonce

\* The next handle is one of those HandlesOf names.
LEMMA BuildKeeps ==
  ASSUME PrivInv, NEW i \in Ops, BuildPayload(i) PROVE PrivInv'
<1> DEFINE w == HandlesOf(ops[i].kind)
           k == Cardinality(handles[i])
<1>1. /\ ops[i] \in OpRecs /\ ops[i].pc = "build" /\ OpSafe(ops[i], handles[i], ledger)
      /\ handles[i] \in SUBSET HandleNames
      /\ UNCHANGED <<owner, turns, pvacKeys, pvacStatus, loading, ledger, presumed>>
  BY DEF BuildPayload, PrivInv, PrivTyped
<1>2. CASE OpFails(i)
  BY <1>1, <1>2, OpEnds DEF OpFails
<1>3. CASE Goes(i, "submit")
  <2> DEFINE o == [ops[i] EXCEPT !.pc = "submit"]
  <2>1. /\ o.pc = "submit" /\ o.kind = ops[i].kind /\ o.addr = ops[i].addr
        /\ o.amount = ops[i].amount /\ o.cipher = ops[i].cipher
    BY <1>1 DEF OpRecs, OpPCs
  <2> HIDE DEF o
  <2>2. OpSafe(o, handles[i], ledger) /\ "submit" \in OpPCs
    BY <1>1, <2>1 DEF OpSafe, OpPCs, Keyed
  <2> QED
    BY <1>1, <1>3, <2>2, OpGoes DEF o
<1>4. CASE /\ k < Len(w) /\ UNCHANGED ops
           /\ handles' = [handles EXCEPT ![i] = @ \cup {w[k + 1]}]
  <2>1. k \in Nat
    <3>1. IsFiniteSet(HandleNames)
      <4>1. /\ IsFiniteSet({"ct"}) /\ IsFiniteSet({"zkp"}) /\ IsFiniteSet({"currentCt"})
            /\ IsFiniteSet({"newBalCt"}) /\ IsFiniteSet({"rpBal"})
        BY FS_Singleton
      <4>2. IsFiniteSet({"ct"} \cup {"zkp"}) /\ IsFiniteSet({"currentCt"} \cup {"newBalCt"})
        BY <4>1, FS_Union
      <4>3. IsFiniteSet(({"ct"} \cup {"zkp"}) \cup ({"currentCt"} \cup {"newBalCt"}))
        BY <4>2, FS_Union
      <4>4. IsFiniteSet((({"ct"} \cup {"zkp"}) \cup ({"currentCt"} \cup {"newBalCt"}))
                        \cup {"rpBal"})
        BY <4>1, <4>3, FS_Union
      <4>5. HandleNames = (({"ct"} \cup {"zkp"}) \cup ({"currentCt"} \cup {"newBalCt"}))
                          \cup {"rpBal"}
        BY DEF HandleNames
      <4> QED
        BY <4>4, <4>5
    <3>2. IsFiniteSet(handles[i])
      BY <1>1, <3>1, FS_Subset
    <3> QED
      BY <3>2, FS_CardinalityType
  <2>2. w[k + 1] \in HandleNames
    <3>1. Len(w) \in Nat /\ \A j \in 1..Len(w) : w[j] \in HandleNames
      <4>1. CASE ops[i].kind = "encrypt"
        BY <4>1 DEF HandlesOf, HandleNames
      <4>2. CASE ops[i].kind # "encrypt"
        BY <4>2 DEF HandlesOf, HandleNames
      <4> QED
        BY <4>1, <4>2
    <3>2. k + 1 \in 1..Len(w)
      BY <1>4, <2>1, <3>1
    <3> QED
      BY <3>1, <3>2
  <2> DEFINE h == handles[i] \cup {w[k + 1]}
  <2>3. h \in SUBSET HandleNames
    BY <1>1, <2>2
  <2>4. handles' = [handles EXCEPT ![i] = h]
    BY <1>4
  <2> HIDE DEF h
  <2>5. OpSafe(ops[i], h, ledger)
    BY <1>1 DEF OpSafe
  <2>6. ops' = [ops EXCEPT ![i] = ops[i]]
    BY <1>4 DEF PrivInv, PrivTyped
  <2> QED
    BY <1>1, <2>3, <2>4, <2>5, <2>6, OpMovesAlone
<1> QED
  BY <1>2, <1>3, <1>4 DEF BuildPayload

\* What the node takes is under the registered key, covered by the balance it draws on.
LEMMA SubmitPrivateKeeps ==
  ASSUME PrivInv, NEW i \in Ops, SubmitPrivate(i) PROVE PrivInv'
<1> DEFINE me == ops[i].addr
           c  == ledger[me]
           n  == Applied(c, ops[i])
<1>1. /\ ops[i] \in OpRecs /\ ops[i].pc = "submit" /\ OpSafe(ops[i], handles[i], ledger)
      /\ me \in Owners /\ c \in LedgerRecs /\ pvacKeys \in Owners \cup {NoOne}
      /\ UNCHANGED <<owner, turns, pvacKeys, pvacStatus, loading, presumed>>
  <2>1. OpSafe(ops[i], handles[i], ledger)
    BY DEF PrivInv
  <2> QED
    BY <2>1 DEF SubmitPrivate, PrivInv, PrivTyped, OpSafe
<1>2. CASE OpFails(i) /\ UNCHANGED ledger
  BY <1>1, <1>2, OpEnds DEF OpFails
<1>3. CASE /\ ops[i].kind = "decrypt" => ops[i].cipher = c.enc
           /\ c.pub >= OpFee + (IF ops[i].kind = "decrypt" THEN 0 ELSE ops[i].amount)
           /\ ledger' = [ledger EXCEPT ![me] = n] /\ Over(i)
  <2>1. /\ c.enc \in Nat /\ c.pub \in Nat /\ ops[i].amount \in Nat /\ ops[i].nonce \in Nat
        /\ OpFee \in Nat /\ (c.under \in {NoOne, c.pvac} \/ me \in presumed) /\ c.pvac \in Owners \cup {NoOne}
    BY <1>1, PrivateAssumption DEF OpRecs, LedgerRecs, PrivInv, CipherUnderRegisteredKey
  <2>2. n \in LedgerRecs /\ n.pvac = c.pvac /\ (n.under \in {NoOne, n.pvac} \/ me \in presumed)
    <3>1. CASE ops[i].kind = "encrypt"
      <4>1. c.pvac = pvacKeys \/ me \in presumed
        BY <1>1, <3>1 DEF OpSafe, CipherKinds, Keyed
      <4>2. n = [c EXCEPT !.enc = @ + ops[i].amount, !.under = pvacKeys,
                          !.pub = @ - ops[i].amount - OpFee, !.nonce = ops[i].nonce]
        BY <3>1 DEF Applied
      <4>3. /\ c.enc + ops[i].amount \in Nat /\ c.pub - ops[i].amount - OpFee \in Nat
        BY <1>3, <2>1, <3>1
      <4> QED
        BY <1>1, <2>1, <4>1, <4>2, <4>3 DEF LedgerRecs
    <3>2. CASE ops[i].kind = "decrypt"
      <4>1. ops[i].amount <= c.enc
        BY <1>1, <1>3, <3>2 DEF OpSafe, Keyed
      <4>2. n = [c EXCEPT !.enc = @ - ops[i].amount, !.pub = (@ + ops[i].amount) - OpFee,
                          !.nonce = ops[i].nonce]
        BY <3>2 DEF Applied
      <4>3. c.enc - ops[i].amount \in Nat /\ (c.pub + ops[i].amount) - OpFee \in Nat
        BY <1>3, <2>1, <3>2, <4>1
      <4> QED
        BY <1>1, <2>1, <4>2, <4>3 DEF LedgerRecs
    <3>3. CASE ops[i].kind \notin {"encrypt", "decrypt"}
      <4>1. n = [c EXCEPT !.pub = @ - ops[i].amount - OpFee, !.nonce = ops[i].nonce]
        BY <3>3 DEF Applied
      <4>2. c.pub - ops[i].amount - OpFee \in Nat
        BY <1>3, <2>1, <3>3
      <4> QED
        BY <1>1, <2>1, <4>1, <4>2 DEF LedgerRecs
    <3> QED
      BY <3>1, <3>2, <3>3
  <2> HIDE DEF n
  <2>3. /\ ledger' \in [Owners -> LedgerRecs]
        /\ \A b \in Owners \ presumed : ledger'[b].under \in {NoOne, ledger'[b].pvac}
        /\ \A j \in Ops : OpSafe(ops[j], handles[j], ledger')
    BY <1>1, <1>3, <2>2, LedgerMoves
  <2> DEFINE over == [NoOp EXCEPT !.pc = "over"]
  <2>4. /\ over \in OpRecs /\ OpSafe(over, {}, ledger') /\ {} \in SUBSET HandleNames
        /\ ops' = [ops EXCEPT ![i] = over] /\ handles' = [handles EXCEPT ![i] = {}]
    BY <1>3, OverIsSafe DEF Over
  <2> HIDE DEF me, over
  <2> QED
    BY <1>1, <2>3, <2>4, OpMoves
<1> QED
  BY <1>2, <1>3 DEF SubmitPrivate

\* Another device encrypts under the account's own key, which is registered or none is.
LEMMA OtherDeviceKeeps ==
  ASSUME PrivInv, NEW a \in Owners, OtherDevice(a) PROVE PrivInv'
<1> DEFINE c == ledger[a]
           n == IF c.pvac = NoOne THEN [c EXCEPT !.pvac = a]
                ELSE [c EXCEPT !.enc = 1, !.under = a, !.pub = @ - 1 - OpFee, !.nonce = @ + 1]
<1>1. /\ c \in LedgerRecs /\ c.pvac \in {NoOne, a} /\ c.under \in {NoOne, a}
      /\ (c.under \in {NoOne, c.pvac} \/ a \in presumed) /\ (c.pvac # NoOne => c.pub > OpFee)
      /\ ledger' = [ledger EXCEPT ![a] = n] /\ OpFee \in Nat
      /\ UNCHANGED <<owner, turns, pvacKeys, pvacStatus, loading, ops, handles, presumed>>
  BY PrivateAssumption DEF OtherDevice, PrivInv, PrivTyped, CipherUnderRegisteredKey
<1>2. /\ n \in LedgerRecs /\ (c.pvac # NoOne => n.pvac = c.pvac)
      /\ n.under \in {NoOne, n.pvac} \/ a \in presumed
  <2>1. CASE c.pvac = NoOne
    BY <1>1, <2>1 DEF LedgerRecs
  <2>2. CASE c.pvac # NoOne
    <3>1. c.pub - 1 - OpFee \in Nat /\ c.nonce + 1 \in Nat /\ 1 \in Nat
      BY <1>1, <2>2 DEF LedgerRecs
    <3> QED
      BY <1>1, <2>2, <3>1 DEF LedgerRecs
  <2> QED
    BY <2>1, <2>2
<1> HIDE DEF n
<1>3. /\ ledger' \in [Owners -> LedgerRecs]
      /\ \A b \in Owners \ presumed : ledger'[b].under \in {NoOne, ledger'[b].pvac}
      /\ \A j \in Ops : OpSafe(ops[j], handles[j], ledger')
  BY <1>1, <1>2, LedgerMoves
<1>4. PrivTyped' /\ KeysStay' /\ CipherUnderRegisteredKey'
  BY <1>1, <1>3 DEF PrivInv, PrivTyped, KeysStay, CipherUnderRegisteredKey
<1>5. \A j \in Ops : OpSafe(ops[j], handles[j], ledger)'
  BY <1>1, <1>3 DEF OpSafe
<1> QED
  BY <1>4, <1>5 DEF PrivInv

\* Every step of the bridge, its operations and the node keeps PrivInv.
LEMMA PrivNextInv == ASSUME PrivInv, [PrivNext]_priv_vars PROVE PrivInv'
<1>1. CASE UNCHANGED priv_vars
  <2>1. PrivTyped' /\ KeysStay' /\ CipherUnderRegisteredKey'
    BY <1>1 DEF priv_vars, PrivInv, PrivTyped, KeysStay, CipherUnderRegisteredKey
  <2>2. \A j \in Ops : OpSafe(ops[j], handles[j], ledger)'
    BY <1>1 DEF priv_vars, PrivInv, OpSafe
  <2> QED
    BY <2>1, <2>2 DEF PrivInv
<1>2. ASSUME NEW a \in Owners, SetWallet(a) \/ OtherDevice(a) PROVE PrivInv'
  BY <1>2, LoadKeeps, OtherDeviceKeeps
<1>3. CASE ReloadPvac \/ ModuleFails
  <2>1. CASE ReloadPvac
    <3>1. owner \in Owners
      BY <2>1 DEF ReloadPvac, PrivInv, PrivTyped
    <3> QED
      BY <2>1, <3>1, LoadKeeps
  <2>2. CASE ModuleFails
    <3>1. loading' = <<>> /\ loading' \in Seq(LoadRecs) /\ pvacStatus' = "unavailable"
      BY <2>2 DEF ModuleFails
    <3>2. KeysStay'
      BY <3>1 DEF KeysStay
    <3> QED
      BY <2>2, <3>1, <3>2, QuietPrivate DEF ModuleFails, PrivInv, PrivTyped
  <2> QED
    BY <1>3, <2>1, <2>2
<1>4. CASE ModuleLoaded \/ LockPrivate
  BY <1>4, ModuleLoadedKeeps, LockPrivateKeeps
<1>5. ASSUME NEW i \in Ops, NEW kind \in {"encrypt", "decrypt", "stealth"}, NEW n \in OpAmounts,
             BeginOp(i, kind, n)
      PROVE  PrivInv'
  BY <1>5, BeginKeeps DEF CipherKinds
<1>6. ASSUME NEW i \in Ops, OpStep(i) PROVE PrivInv'
  BY <1>6, FindKeyKeeps, RegisterKeeps, ReadCipherKeeps, PrivFetchKeeps, ReadNonceKeeps, BuildKeeps,
     SubmitPrivateKeeps DEF OpStep
<1> QED
  BY <1>1, <1>2, <1>3, <1>4, <1>5, <1>6 DEF PrivNext

-----------------------------------------------------------------------------
(* What holds of every behaviour.                                          *)

\* A bridge that has keys keeps them while an operation uses them, and no balance of an
\* account is ever drawn below zero.
THEOREM KeysOfOneWallet == PrivSpec => []PrivInv
<1>1. PrivInit => PrivInv
  BY PrivInitInv
<1>2. PrivInv /\ [PrivNext]_priv_vars => PrivInv'
  BY PrivNextInv
<1> QED
  BY <1>1, <1>2, PTL DEF PrivSpec

\* The keys ensurePvacRegistered compared are the keys that encrypt: the ciphertext of an
\* account is under the key registered for it, whatever loads, locks and switches, unless a
\* registration that another's came before counted as done.
THEOREM CiphersReadable == PrivSpec => []CipherUnderRegisteredKey
<1>1. PrivInv => CipherUnderRegisteredKey
  BY DEF PrivInv
<1> QED
  BY <1>1, KeysOfOneWallet, PTL

\* The finally blocks of encryptBalance and decryptBalance free every handle, at whichever
\* step they end.
THEOREM NoHandleKept == PrivSpec => []HandlesFreed
<1>1. PrivInv => HandlesFreed
  BY DEF PrivInv, OpSafe, HandlesFreed
<1> QED
  BY <1>1, KeysOfOneWallet, PTL

\* Every wallet of a load is one of the turns there have been, and a wallet that is open is
\* of the last.
TurnsCount ==
  /\ turns \in 0..MaxTurns /\ (owner # NoOne => turns >= 1)
  /\ \A i \in DOMAIN loading : loading[i].turn \in 1..turns

\* A load that is started waits after those that do.
LEMMA AutoLoadTurn ==
  ASSUME PrivTyped, NEW a \in Owners, NEW n \in Nat, n >= 1, AutoLoad(a, n),
         \A i \in DOMAIN loading : loading[i].turn \in 1..n
  PROVE  \A i \in DOMAIN loading' : loading'[i].turn \in 1..n
<1>1. CASE UNCHANGED loading
  BY <1>1
<1> DEFINE load == [of |-> a, turn |-> n]
<1>2. CASE loading' = Append(loading, load)
  <2>1. loading \in Seq(LoadRecs) /\ load \in LoadRecs
    BY DEF PrivTyped, LoadRecs
  <2>2. load.turn \in 1..n
    OBVIOUS
  <2> HIDE DEF load
  <2>3. \A i \in 1..Len(loading') : loading'[i] = load \/ (i \in 1..Len(loading) /\ loading'[i] = loading[i])
    BY <1>2, <2>1, AppendProperties
  <2>4. DOMAIN loading' = 1..Len(loading') /\ DOMAIN loading = 1..Len(loading)
    BY <1>2, <2>1, AppendProperties, LenProperties
  <2> QED
    BY <2>2, <2>3, <2>4
<1> QED
  BY <1>1, <1>2 DEF AutoLoad

LEMMA TurnsInit == PrivInit => TurnsCount
BY PrivateAssumption DEF PrivInit, TurnsCount

LEMMA TurnsStep == ASSUME PrivInv, TurnsCount, [PrivNext]_priv_vars PROVE TurnsCount'
<1>1. PrivTyped /\ turns \in Nat /\ MaxTurns \in Nat /\ NoOne \notin Owners /\ owner \in Owners \cup {NoOne}
  BY PrivateAssumption DEF PrivInv, PrivTyped
<1>2. CASE UNCHANGED <<turns, owner, loading>>
  BY <1>2 DEF TurnsCount
<1>3. ASSUME NEW a \in Owners, SetWallet(a) PROVE TurnsCount'
  <2>1. turns' = turns + 1 /\ turns < MaxTurns /\ turns + 1 \in Nat /\ turns + 1 >= 1
    BY <1>1, <1>3 DEF SetWallet
  <2>2. \A i \in DOMAIN loading : loading[i].turn \in 1..turns + 1
    BY <1>1 DEF TurnsCount
  <2>3. AutoLoad(a, turns + 1)
    BY <1>3 DEF SetWallet
  <2>4. \A i \in DOMAIN loading' : loading'[i].turn \in 1..turns + 1
    BY <1>1, <2>1, <2>2, <2>3, AutoLoadTurn
  <2> QED
    BY <1>1, <2>1, <2>4 DEF TurnsCount
<1>4. CASE ReloadPvac
  <2>1. \A i \in DOMAIN loading' : loading'[i].turn \in 1..turns
    BY <1>1, <1>4, AutoLoadTurn DEF ReloadPvac, TurnsCount
  <2> QED
    BY <1>4, <2>1 DEF ReloadPvac, TurnsCount
<1>5. CASE ModuleLoaded \/ ModuleFails
  <2>1. UNCHANGED <<turns, owner>> /\ loading' = <<>>
    BY <1>5 DEF ModuleLoaded, ModuleFails
  <2> QED
    BY <2>1 DEF TurnsCount
<1>6. CASE LockPrivate
  <2>1. /\ owner' = NoOne /\ turns' = turns
        /\ loading' = [i \in DOMAIN loading |-> IF loading[i].turn = turns
                                           THEN [loading[i] EXCEPT !.of = NoOne] ELSE loading[i]]
    BY <1>6 DEF LockPrivate
  <2>2. \A i \in DOMAIN loading : loading[i] \in LoadRecs
    BY <1>1, ElementOfSeq, LenProperties DEF PrivTyped
  <2>3. \A i \in DOMAIN loading' : i \in DOMAIN loading /\ loading'[i].turn = loading[i].turn
    BY <2>1, <2>2 DEF LoadRecs
  <2> QED
    BY <2>1, <2>3 DEF TurnsCount
<1> QED
  BY <1>2, <1>3, <1>4, <1>5, <1>6
     DEF PrivNext, priv_vars, OtherDevice, BeginOp, OpStep, ReadRegistered, RegisterKey, ReadCipher, FetchRecipientKey,
         ReadNonce, BuildPayload, SubmitPrivate

LEMMA PrivTypes == PrivInv /\ TurnsCount => PrivTypeOK
<1> SUFFICES ASSUME PrivInv, TurnsCount PROVE PrivTypeOK
  OBVIOUS
<1>1. PrivTyped
  BY DEF PrivInv
<1>2. \A i \in DOMAIN loading : loading[i].of \in Owners \cup {NoOne}
  <2>1. \A i \in DOMAIN loading : loading[i] \in LoadRecs
    BY <1>1, ElementOfSeq, LenProperties DEF PrivTyped
  <2> QED
    BY <2>1 DEF LoadRecs
<1>3. \A i \in Ops : ops[i].pc \in OpPCs /\ handles[i] \subseteq HandleNames
  BY <1>1 DEF PrivTyped, OpRecs
<1>4. \A a \in Owners : ledger[a].enc \in Nat /\ ledger[a].pub \in Nat
  BY <1>1 DEF PrivTyped, LedgerRecs
<1> QED
  BY <1>1, <1>2, <1>3, <1>4 DEF PrivTyped, TurnsCount, PrivTypeOK, OpPCs, HandleNames

-----------------------------------------------------------------------------
(***************************************************************************)
(* WasmBridge. No method leaks, whichever of its calls fails, over any     *)
(* number of calls.                                                        *)
(***************************************************************************)

\* What m allocated until it has made n handles.
Allocated(m, n) == m.buffers \cup {m.makes[i] : i \in 1..n}

\* What does not go into the heap of the running method.
Elsewhere == InFields \cup {ReadsOnly}

\* The `finally' of m names all that it may have by then, and only init makes what is kept in
\* the fields of the bridge.
Covered(m) ==
  /\ Len(m.makes) \in Nat
  /\ m.buffers \subseteq m.frees /\ m.buffers \cap Elsewhere = {}
  /\ \A i \in 1..Len(m.makes) : m.makes[i] \in m.frees \cup m.gives \cup Elsewhere
  /\ \A i \in 1..Len(m.makes) : i < Len(m.makes) => m.makes[i] \in m.frees \cup Elsewhere
  /\ m # InitMethod => \A i \in 1..Len(m.makes) : m.makes[i] \notin InFields

\* The first init fills each field of the bridge once.
FieldsFilledOnce ==
  /\ inits = 0 => wasmFields = {} /\ method # InitMethod
  /\ inits = 1 /\ method = InitMethod => wasmFields \subseteq {InitMethod.makes[i] : i \in 1..step}
  /\ wasmLost # {} => inits > 1

\* While a method runs, nothing is in the heap but what it has allocated; between two
\* methods nothing is.
WasmInv ==
  /\ WasmTypeOK
  /\ heap \cap Elsewhere = {}
  /\ heap \subseteq Allocated(method, step)
  /\ FieldsFilledOnce

-----------------------------------------------------------------------------
\* What is covered of a method by what its `finally' names, for each number of handles.
LEMMA CoveredIf ==
  ASSUME NEW b, NEW f, NEW g, NEW s, Len(s) \in Nat, b \subseteq f, b \cap Elsewhere = {},
         \A i \in 1..Len(s) : s[i] \in f \cup g \cup {ReadsOnly},
         \A i \in 1..Len(s) : i < Len(s) => s[i] \in f \cup {ReadsOnly},
         \A i \in 1..Len(s) : s[i] \notin InFields
  PROVE Covered(Method(b, s, f, g))
<1> DEFINE m == Method(b, s, f, g)
<1>1. m.buffers = b /\ m.makes = s /\ m.frees = f /\ m.gives = g BY DEF Method
<1> HIDE DEF m
<1>2. Covered(m) BY <1>1 DEF Covered, Elsewhere
<1>3. QED BY <1>2 DEF m

LEMMA CoveredOne ==
  ASSUME NEW b, NEW f, NEW g, NEW x, b \subseteq f, b \cap Elsewhere = {},
         x \in f \cup g \cup {ReadsOnly}, x \notin InFields
  PROVE Covered(Method(b, <<x>>, f, g))
<1> DEFINE s == <<x>>
<1>1. Len(s) = 1 /\ s[1] = x OBVIOUS
<1> HIDE DEF s
<1>2. \A i \in 1..Len(s) : s[i] \in f \cup g \cup {ReadsOnly} /\ s[i] \notin InFields BY <1>1
<1>3. Covered(Method(b, s, f, g))
  <2>1. Len(s) \in Nat BY <1>1
  <2>2. \A i \in 1..Len(s) : ~(i < Len(s)) BY <1>1
  <2>3. QED BY <2>1, <2>2, <1>2, CoveredIf
<1>4. QED BY <1>3 DEF s

LEMMA CoveredTwo ==
  ASSUME NEW b, NEW f, NEW x, NEW y, b \subseteq f, b \cap Elsewhere = {},
         {x, y} \subseteq f \cup {ReadsOnly}, {x, y} \cap InFields = {}
  PROVE Covered(Method(b, <<x, y>>, f, {}))
<1> DEFINE s == <<x, y>>
<1>1. Len(s) = 2 /\ s[1] = x /\ s[2] = y OBVIOUS
<1> HIDE DEF s
<1>2. \A i \in 1..Len(s) : s[i] \in f \cup {ReadsOnly} /\ s[i] \notin InFields BY <1>1
<1>3. Covered(Method(b, s, f, {})) BY <1>1, <1>2, CoveredIf
<1>4. QED BY <1>3 DEF s

LEMMA CoveredThree ==
  ASSUME NEW f, NEW x, NEW y, NEW z,
         {x, y, z} \subseteq f \cup {ReadsOnly}, {x, y, z} \cap InFields = {}
  PROVE Covered(Method({}, <<x, y, z>>, f, {}))
<1> DEFINE s == <<x, y, z>>
<1>1. Len(s) = 3 /\ s[1] = x /\ s[2] = y /\ s[3] = z OBVIOUS
<1> HIDE DEF s
<1>2. \A i \in 1..Len(s) : s[i] \in f \cup {ReadsOnly} /\ s[i] \notin InFields BY <1>1
<1>3. Covered(Method({}, s, f, {})) BY <1>1, <1>2, CoveredIf
<1>4. QED BY <1>3 DEF s

LEMMA VerifyZeroProofCovered == Covered(VerifyZeroProof)
<1> DEFINE s == <<"ct", "data", "zp", "commit", ReadsOnly>>
           f == {"zp", "ct", "data", "commit"}
<1>1. /\ Len(s) = 5
      /\ s[1] = "ct" /\ s[2] = "data" /\ s[3] = "zp" /\ s[4] = "commit" /\ s[5] = ReadsOnly
  BY DEF ReadsOnly
<1>2. "ct" \in f /\ "data" \in f /\ "zp" \in f /\ "commit" \in f OBVIOUS
<1>3. f \cap InFields = {} /\ ReadsOnly \notin InFields BY DEF InFields, ReadsOnly
<1> HIDE DEF s, f
<1>4. \A i \in 1..Len(s) : s[i] \in f \cup {ReadsOnly} /\ s[i] \notin InFields BY <1>1, <1>2, <1>3
<1>5. Covered(Method({}, s, f, {})) BY <1>1, <1>4, CoveredIf
<1>6. QED BY <1>5 DEF s, f, VerifyZeroProof

LEMMA CtSubCovered == Covered(CtSub)
<1> DEFINE s == <<"ha", "hb", "hout", ReadsOnly>>
           f == {"hout", "hb", "ha"}
<1>1. Len(s) = 4 /\ s[1] = "ha" /\ s[2] = "hb" /\ s[3] = "hout" /\ s[4] = ReadsOnly
  BY DEF ReadsOnly
<1>2. "ha" \in f /\ "hb" \in f /\ "hout" \in f OBVIOUS
<1>3. f \cap InFields = {} /\ ReadsOnly \notin InFields BY DEF InFields, ReadsOnly
<1> HIDE DEF s, f
<1>4. \A i \in 1..Len(s) : s[i] \in f \cup {ReadsOnly} /\ s[i] \notin InFields BY <1>1, <1>2, <1>3
<1>5. Covered(Method({}, s, f, {})) BY <1>1, <1>4, CoveredIf
<1>6. QED BY <1>5 DEF s, f, CtSub

\* What init makes, in its order.
LEMMA InitMakes ==
  /\ InitMethod.makes = <<"prm", "ptrs", "keys">> /\ Len(InitMethod.makes) = 3
  /\ InitMethod.makes[1] = "prm" /\ InitMethod.makes[2] = "ptrs" /\ InitMethod.makes[3] = "keys"
  /\ InitMethod.frees = {"ptrs"} /\ InitMethod.gives = {} /\ InitMethod.buffers = {}
<1>1. InitMethod.makes = <<"prm", "ptrs", "keys">> BY DEF InitMethod, Method
<1>2. InitMethod.frees = {"ptrs"} /\ InitMethod.gives = {} /\ InitMethod.buffers = {}
  BY DEF InitMethod, Method
<1>3. QED BY <1>1, <1>2

\* init frees the three pointers; the rest goes into fields of the bridge.
LEMMA InitCovered == Covered(InitMethod)
<1>1. \A i \in 1..3 : InitMethod.makes[i] \in {"ptrs"} \cup InFields BY InitMakes DEF InFields
<1>2. QED BY <1>1, InitMakes DEF Covered, Elsewhere

\* Every method of the bridge frees what it makes.
LEMMA EveryMethodCovered == \A m \in Methods : Covered(m)
<1> USE DEF ReadsOnly, InFields, Elsewhere
<1>1. Covered(EncryptHandle) BY CoveredOne DEF EncryptHandle
<1>2. Covered(DecodeCipherHandle) BY CoveredOne DEF DecodeCipherHandle
<1>3. Covered(CtSubHandle) BY CoveredOne DEF CtSubHandle
<1>4. Covered(DecryptHandle) BY CoveredOne DEF DecryptHandle
<1>5. Covered(PedersenCommitBytes) BY CoveredOne DEF PedersenCommitBytes
<1>6. Covered(MakeZeroProofBoundHandle) BY CoveredOne DEF MakeZeroProofBoundHandle
<1>7. Covered(MakeBoundRangeProofHandle) BY CoveredOne DEF MakeBoundRangeProofHandle
<1>8. Covered(VerifyBoundRangeCommitment) BY CoveredOne DEF VerifyBoundRangeCommitment
<1>9. Covered(SerializePtr) BY CoveredTwo DEF SerializePtr
<1>10. Covered(TryGetBalance) BY CoveredTwo DEF TryGetBalance
<1>11. Covered(EncryptBytes) BY CoveredTwo DEF EncryptBytes
<1>12. Covered(EncryptZero) BY CoveredTwo DEF EncryptZero
<1>13. Covered(PubkeyExtendsLocal) BY CoveredThree DEF PubkeyExtendsLocal
<1>14. Covered(DecryptBytes) BY CoveredThree DEF DecryptBytes
<1>15. Covered(MakeZeroProofBound) BY CoveredThree DEF MakeZeroProofBound
<1>16. QED BY <1>1, <1>2, <1>3, <1>4, <1>5, <1>6, <1>7, <1>8, <1>9, <1>10, <1>11, <1>12, <1>13, <1>14, <1>15,
             InitCovered, VerifyZeroProofCovered, CtSubCovered DEF Methods

LEMMA NoMethodAllocatesNothing ==
  /\ Allocated(NoMethod, 0) = {} /\ Len(NoMethod.makes) = 0
  /\ NoMethod # InitMethod
<1>1. NoMethod.makes = <<>> BY DEF NoMethod, Method
<1>2. Len(NoMethod.makes) # Len(InitMethod.makes) BY <1>1, InitMakes
<1>3. QED BY <1>1, <1>2 DEF Allocated, NoMethod, Method

LEMMA WasmInitInv == WasmInit => WasmInv
BY WasmAssumption, NoMethodAllocatesNothing DEF WasmInit, WasmInv, WasmTypeOK, FieldsFilledOnce

\* What is made by step n + 1 is what was made by step n, and one more.
LEMMA OneMoreMade ==
  ASSUME NEW f, NEW n \in Nat
  PROVE  {f[i] : i \in 1..(n + 1)} = {f[i] : i \in 1..n} \cup {f[n + 1]}
<1>1. 1..(n + 1) = 1..n \cup {n + 1}
  OBVIOUS
<1>2. {f[i] : i \in 1..n \cup {n + 1}} = {f[i] : i \in 1..n} \cup {f[n + 1]}
  BY Zenon
<1> QED
  BY <1>1, <1>2, Zenon

\* At a step that comes before its last, a method of the bridge runs.
LEMMA MethodRuns ==
  ASSUME WasmInv, step < Len(method.makes)
  PROVE /\ method \in Methods /\ Covered(method)
        /\ step \in Nat /\ Len(method.makes) \in Nat /\ step + 1 \in 1..Len(method.makes)
<1>1. method \in Methods BY NoMethodAllocatesNothing DEF WasmInv, WasmTypeOK
<1>2. Covered(method) BY <1>1, EveryMethodCovered
<1>3. step \in Nat /\ Len(method.makes) \in Nat BY <1>2 DEF WasmInv, WasmTypeOK, Covered
<1>4. QED BY <1>1, <1>2, <1>3

\* What has gone into a field of the bridge was not there if this is the first init.
LEMMA FieldIsEmpty ==
  ASSUME WasmInv, step < Len(method.makes), method.makes[step + 1] \in InFields, ~(inits > 1)
  PROVE method = InitMethod /\ inits = 1 /\ method.makes[step + 1] \notin wasmFields
<1>1. method = InitMethod BY MethodRuns DEF Covered
<1>2. inits \in Nat BY WasmAssumption DEF WasmInv, WasmTypeOK
<1>3. inits = 1 BY <1>1, <1>2 DEF WasmInv, FieldsFilledOnce
<1>4. wasmFields \subseteq {InitMethod.makes[i] : i \in 1..step}
  BY <1>1, <1>3 DEF WasmInv, FieldsFilledOnce
<1>5. step \in {0, 2}
  <2>1. step \in Nat /\ step < 3 BY <1>1, MethodRuns, InitMakes
  <2>2. step # 1 BY <1>1, InitMakes DEF InFields
  <2>3. QED BY <2>1, <2>2
<1>6. CASE step = 0 BY <1>1, <1>3, <1>4, <1>6
<1>7. CASE step = 2
  <2>1. {InitMethod.makes[i] : i \in 1..step} = {"prm", "ptrs"} BY <1>7, InitMakes
  <2>2. InitMethod.makes[step + 1] = "keys" BY <1>7, InitMakes
  <2>3. QED BY <2>1, <2>2, <1>1, <1>3, <1>4
<1>8. QED BY <1>5, <1>6, <1>7

\* What a method has made by the time that it fails is freed.
LEMMA AllIsFreed ==
  ASSUME WasmInv, step < Len(method.makes)
  PROVE heap \ method.frees = {}
<1>1. \A i \in 1..step : method.makes[i] \in method.frees \cup Elsewhere
  BY MethodRuns DEF Covered
<1>2. method.buffers \subseteq method.frees BY MethodRuns DEF Covered
<1>3. QED BY <1>1, <1>2 DEF Allocated, WasmInv

LEMMA WasmStepInv == WasmInv /\ [WasmNext]_wasm_vars => WasmInv'
<1> SUFFICES ASSUME WasmInv, [WasmNext]_wasm_vars PROVE WasmInv'
  OBVIOUS
<1> USE WasmAssumption, NoMethodAllocatesNothing
<1>0. calls \in Nat /\ inits \in 0..calls BY DEF WasmInv, WasmTypeOK
<1>1. ASSUME NEW m \in Methods, Call(m) PROVE WasmInv'
  <2>1. Covered(m) BY EveryMethodCovered
  <2>2. heap = {} BY <1>1 DEF Call, WasmInv, WasmTypeOK
  <2>3. heap' \subseteq Allocated(method', step') BY <1>1, <2>2 DEF Call, Allocated
  <2>4. inits' = inits + (IF m = InitMethod THEN 1 ELSE 0) BY <1>1 DEF Call
  <2>5. FieldsFilledOnce'
    <3>1. inits' = 0 => inits = 0 /\ m # InitMethod BY <2>4, <1>0
    <3>2. inits' = 1 /\ m = InitMethod => inits = 0 BY <2>4, <1>0
    <3>3. inits > 1 => inits' > 1 BY <2>4, <1>0
    <3>4. QED BY <1>1, <3>1, <3>2, <3>3 DEF Call, WasmInv, FieldsFilledOnce
  <2>6. WasmTypeOK' BY <1>0, <1>1, <2>1, <2>4 DEF Call, WasmInv, WasmTypeOK, Covered
  <2>7. QED BY <1>1, <2>1, <2>2, <2>3, <2>5, <2>6 DEF Call, WasmInv, Covered
<1>2. ASSUME MakeHandle PROVE WasmInv'
  <2>1. method \in Methods /\ step \in Nat /\ step < Len(method.makes) /\ Len(method.makes) \in Nat
    BY <1>2, MethodRuns DEF MakeHandle
  <2>2. Allocated(method, step + 1) = Allocated(method, step) \cup {method.makes[step + 1]}
    <3>1. {method.makes[i] : i \in 1..(step + 1)} = {method.makes[i] : i \in 1..step} \cup {method.makes[step + 1]}
      BY <2>1, OneMoreMade, Zenon
    <3> QED
      BY <3>1, Zenon DEF Allocated
  <2>3. FieldsFilledOnce'
    <3>1. inits' = 0 => wasmFields' = {} /\ method' # InitMethod
      BY <1>2, <2>1, FieldIsEmpty DEF MakeHandle, WasmInv, FieldsFilledOnce
    <3>2. {InitMethod.makes[i] : i \in 1..(step + 1)}
            = {InitMethod.makes[i] : i \in 1..step} \cup {InitMethod.makes[step + 1]}
      BY <2>1, OneMoreMade, Zenon
    <3>3. ASSUME inits' = 1, method' = InitMethod
          PROVE  wasmFields' \subseteq {InitMethod.makes[i] : i \in 1..step'}
      BY <1>2, <3>2, <3>3 DEF MakeHandle, WasmInv, FieldsFilledOnce
    <3>4. wasmLost' # {} => inits' > 1
      <4>1. ASSUME ~(inits > 1) PROVE {method.makes[step + 1]} \cap wasmFields = {}
        BY <2>1, <4>1, FieldIsEmpty DEF WasmInv, WasmTypeOK
      <4>2. QED BY <1>2, <4>1 DEF MakeHandle, WasmInv, FieldsFilledOnce
    <3>5. QED BY <3>1, <3>3, <3>4 DEF FieldsFilledOnce
  <2>4. WasmTypeOK' BY <1>2, <2>1 DEF MakeHandle, WasmInv, WasmTypeOK
  <2>5. QED BY <1>2, <2>1, <2>2, <2>3, <2>4 DEF MakeHandle, WasmInv, Elsewhere
<1>3. ASSUME Returns PROVE WasmInv'
  <2>1. method \in Methods BY <1>3 DEF Returns, WasmInv, WasmTypeOK
  <2>2. Covered(method) BY <2>1, EveryMethodCovered
  <2>3. Allocated(method, step) \subseteq method.frees \cup method.gives \cup Elsewhere
    BY <1>3, <2>2 DEF Returns, Allocated, Covered
  <2>4. heap' = {} BY <1>3, <2>3 DEF Returns, WasmInv
  <2>5. FieldsFilledOnce' BY <1>3 DEF Returns, WasmInv, FieldsFilledOnce
  <2>6. QED BY <1>3, <2>4, <2>5 DEF Returns, WasmInv, WasmTypeOK
<1>4. ASSUME Throws PROVE WasmInv'
  <2>1. heap' = {} BY <1>4, AllIsFreed DEF Throws
  <2>2. FieldsFilledOnce' BY <1>4 DEF Throws, WasmInv, FieldsFilledOnce
  <2>3. QED BY <1>4, <2>1, <2>2 DEF Throws, WasmInv, WasmTypeOK
<1>5. ASSUME StoresNull PROVE WasmInv'
  <2>1. heap' = {} BY <1>5, AllIsFreed DEF StoresNull
  <2>2. wasmFields' \subseteq InFields /\ wasmLost' \subseteq InFields
    BY <1>5 DEF StoresNull, WasmInv, WasmTypeOK
  <2>3. FieldsFilledOnce'
    <3>1. inits # 0
      BY <1>5, FieldIsEmpty, <1>0 DEF StoresNull
    <3>2. wasmLost' # {} => inits > 1
      <4>1. ASSUME ~(inits > 1) PROVE {method.makes[step + 1]} \cap wasmFields = {}
        BY <1>5, <4>1, FieldIsEmpty DEF StoresNull
      <4>2. QED BY <1>5, <4>1 DEF StoresNull, WasmInv, FieldsFilledOnce
    <3>3. QED BY <1>5, <3>1, <3>2 DEF StoresNull, FieldsFilledOnce
  <2>4. QED BY <1>5, <2>1, <2>2, <2>3 DEF StoresNull, WasmInv, WasmTypeOK
<1>6. CASE UNCHANGED wasm_vars BY <1>6 DEF wasm_vars, WasmInv, WasmTypeOK, FieldsFilledOnce
<1>7. QED BY <1>1, <1>2, <1>3, <1>4, <1>5, <1>6 DEF WasmNext

\* Whatever calls fail and in whatever order, a method that is over has left nothing in the
\* WASM heap but what it returned and what the fields of the bridge hold, and only a second
\* init stores over these (wasm-bridge.ts, each `finally'; init at 247-271).
THEOREM NothingLeaks == WasmSpec => []MethodsFree
<1>1. WasmInv => MethodsFree
  BY NoMethodAllocatesNothing DEF WasmInv, WasmTypeOK, MethodsFree, FieldsFilledOnce
<1>2. QED BY <1>1, WasmInitInv, WasmStepInv, PTL DEF WasmSpec

-----------------------------------------------------------------------------
(***************************************************************************)
(* Provider. Whatever the dApp asks, at the first transfer of its port all *)
(* that is in flight is sent again.                                        *)
(***************************************************************************)

\* Until a transfer was announced, what is in flight is marked to be sent again.
EarlyMarked == ~adopted => PendingAsks \subseteq early

PostsTyped == promise \in [Posts -> {"new", "waiting", "pending", "settled"}]

ProvInv == PostsTyped /\ EarlyMarked

\* A request is marked when it is sent before the transfer.
LEMMA DispatchMarks ==
  ASSUME ProvInv, NEW r \in Posts, Dispatch(r), UNCHANGED adopted
  PROVE  ProvInv'
  BY DEF ProvInv, PostsTyped, EarlyMarked, PendingAsks, Dispatch

\* Promises that settle or start anew are not in flight.
LEMMA SettlesKeeps ==
  ASSUME ProvInv, UNCHANGED <<adopted, early>>,
         promise' \in [Posts -> {"new", "waiting", "pending", "settled"}],
         \A r \in Posts : promise'[r] = "pending" => promise[r] = "pending"
  PROVE  ProvInv'
  BY DEF ProvInv, PostsTyped, EarlyMarked, PendingAsks

\* Every step of the provider and of its wallet keeps the marks.
LEMMA ProvStepInv == ProvInv /\ [ProvNext]_prov_vars => ProvInv'
<1> SUFFICES ASSUME ProvInv, [ProvNext]_prov_vars PROVE ProvInv'
  OBVIOUS
<1>0. promise \in [Posts -> {"new", "waiting", "pending", "settled"}] /\ Hello \in Posts
      /\ Asks \subseteq Posts /\ Hello \notin Asks
  BY ProviderAssumption DEF ProvInv, PostsTyped, Posts
<1>1. CASE Connect \/ UNCHANGED prov_vars
  BY <1>0, <1>1, SettlesKeeps DEF Connect, prov_vars
<1>2. ASSUME NEW p \in PortIds, OnHello(p) \/ HandshakeFails(p) \/ Moves(p) PROVE ProvInv'
  BY <1>0, <1>2, DispatchMarks, SettlesKeeps DEF OnHello, HandshakeFails, Moves
<1>3. ASSUME NEW r \in Asks, Request(r) PROVE ProvInv'
  <2>1. CASE Dispatch(r)
    BY <1>0, <1>3, <2>1, DispatchMarks DEF Request
  <2>2. CASE ~Dispatch(r)
    BY <1>0, <1>3, <2>2, SettlesKeeps DEF Request, Reject
  <2> QED
    BY <2>1, <2>2
<1>4. ASSUME NEW r \in Asks, Resume(r) PROVE ProvInv'
  BY <1>0, <1>4, DispatchMarks, SettlesKeeps DEF Resume, Reject
<1>5. ASSUME NEW r \in Posts, Response(r) \/ TimeOut(r) PROVE ProvInv'
  BY <1>0, <1>5, SettlesKeeps DEF Response, TimeOut
<1>6. CASE SessionEnds
  BY <1>0, <1>6, SettlesKeeps DEF SessionEnds, ClearSession
<1>7. ASSUME NEW n \in notices, AdoptedArrives(n) PROVE ProvInv'
  BY <1>7 DEF AdoptedArrives, ProvInv, PostsTyped, EarlyMarked
<1>8. ASSUME NEW m \in mail, Answers(m) PROVE ProvInv'
  BY <1>0, <1>8, SettlesKeeps DEF Answers
<1> QED
  BY <1>1, <1>2, <1>3, <1>4, <1>5, <1>6, <1>7, <1>8 DEF ProvNext

\* Of the provider's calls, those in flight are marked until the first SESSION_ADOPTED.
THEOREM MarkedUntilAdopted == ProvSpec => []ProvInv
<1>1. ProvInit => ProvInv
  BY DEF ProvInit, ProvInv, PostsTyped, EarlyMarked, PendingAsks
<1> QED
  BY <1>1, ProvStepInv, PTL DEF ProvSpec

\* The first SESSION_ADOPTED of a provider posts every call that was in flight when the
\* port moved again on it, whatever was lost with the old window.
THEOREM FirstAdoptionSendsAgain == ProvSpec => FirstAdoptionResends
<1> DEFINE A == \A n \in notices : Adopted(n) /\ ~adopted => SentAgain(n)
<1>1. ProvInv /\ [ProvNext]_prov_vars => [A]_prov_vars
  <2> SUFFICES ASSUME ProvInv, ProvNext, NEW n \in notices, Adopted(n), ~adopted
               PROVE  SentAgain(n)
    BY DEF prov_vars
  <2>1. AdoptedArrives(n)
    <3>1. ~UNCHANGED notices
      BY DEF Adopted
    <3>2. CASE \E p \in PortIds : Moves(p)
      BY <3>2 DEF Moves, Adopted
    <3>3. CASE \E o \in notices : AdoptedArrives(o)
      BY <3>3 DEF AdoptedArrives, Adopted
    <3> QED
      BY <3>1, <3>2, <3>3 DEF ProvNext, Connect, SessionEnds, OnHello, HandshakeFails, Request,
        Resume, Response, TimeOut, Answers
  <2>2. mail' = mail \cup {<<r, transport>> : r \in {r \in early : promise[r] = "pending"}}
    BY <2>1 DEF AdoptedArrives, Adopted, Open
  <2>3. \A r \in PendingAsks : r \in early /\ promise[r] = "pending"
    BY DEF ProvInv, EarlyMarked, PendingAsks
  <2> QED
    BY <2>2, <2>3 DEF SentAgain, Adopted
<1> QED
  BY <1>1, MarkedUntilAdopted, PTL DEF ProvSpec, FirstAdoptionResends

\* What the provider's other variables hold.
PortsTyped ==
  /\ port \in [PortIds -> {"unused", "opening", "open", "closed"}]
  /\ transport \in PortIds \cup {NoPort} /\ linked \in BOOLEAN /\ connecting \in BOOLEAN
MailTyped == early \subseteq Posts /\ mail \subseteq Posts \X PortIds /\ answers \subseteq Posts

\* The port that is opened is one of those that are not used.
LEMMA NextPortUnused == NewPorts # {} => Next1 \in PortIds
<1> SUFFICES ASSUME NewPorts # {} PROVE Next1 \in PortIds
  OBVIOUS
<1>1. NewPorts \subseteq Nat /\ NewPorts \subseteq PortIds
  BY ProviderAssumption DEF NewPorts, PortIds
<1>2. \E p \in NewPorts : \A q \in NewPorts : p <= q
  BY <1>1, LeastNat
<1> QED
  BY <1>1, <1>2 DEF Next1

\* A connection opens a port and drops what was posted of the last.
LEMMA OpensTyped ==
  ASSUME PortsTyped, Opens, UNCHANGED linked
  PROVE  PortsTyped'
<1>1. Next1 \in PortIds
  BY NextPortUnused DEF Opens
<1> QED
  BY <1>1 DEF Opens, PortsTyped

LEMMA DispatchTyped ==
  ASSUME PortsTyped, MailTyped, NEW r \in Posts, Dispatch(r), transport \in PortIds, UNCHANGED answers
  PROVE  MailTyped'
BY DEF MailTyped, Dispatch

LEMMA PortsStep == PortsTyped /\ MailTyped /\ [ProvNext]_prov_vars => PortsTyped'
<1> SUFFICES ASSUME PortsTyped, MailTyped, [ProvNext]_prov_vars PROVE PortsTyped'
  OBVIOUS
<1>1. CASE UNCHANGED <<port, transport, linked, connecting>>
  BY <1>1 DEF PortsTyped
<1>2. CASE Connect
  BY <1>2, OpensTyped DEF Connect
<1>3. CASE SessionEnds
  BY <1>3 DEF SessionEnds, ClearSession, PortsTyped, NoPort, Open
<1>4. ASSUME NEW p \in PortIds, OnHello(p) \/ HandshakeFails(p) PROVE PortsTyped'
  BY <1>4 DEF OnHello, HandshakeFails, PortsTyped
<1>5. ASSUME NEW r \in Asks, Request(r) PROVE PortsTyped'
  BY <1>5, OpensTyped DEF Request, PortsTyped
<1>6. ASSUME NEW r \in Posts, Response(r) \/ TimeOut(r) PROVE PortsTyped'
  BY <1>6 DEF Response, TimeOut, PortsTyped
<1> QED
  BY <1>1, <1>2, <1>3, <1>4, <1>5, <1>6 DEF ProvNext, prov_vars, Moves, AdoptedArrives, Resume, Answers

LEMMA MailStep == PortsTyped /\ MailTyped /\ [ProvNext]_prov_vars => MailTyped'
<1> SUFFICES ASSUME PortsTyped, MailTyped, [ProvNext]_prov_vars PROVE MailTyped'
  OBVIOUS
<1>0. Hello \in Posts /\ Asks \subseteq Posts /\ (Open(transport) => transport \in PortIds)
  BY DEF Posts, Open, PortsTyped
<1>1. CASE UNCHANGED <<early, mail, answers>>
  BY <1>1 DEF MailTyped
<1>2. CASE Opens /\ UNCHANGED early
  BY <1>2 DEF Opens, MailTyped
<1>3. ASSUME NEW p \in PortIds, OnHello(p) \/ Moves(p) PROVE MailTyped'
  BY <1>0, <1>3, DispatchTyped DEF OnHello, Moves, MailTyped
<1>4. ASSUME NEW n \in notices, AdoptedArrives(n) PROVE MailTyped'
  BY <1>0, <1>4 DEF AdoptedArrives, MailTyped
<1>5. ASSUME NEW r \in Asks, Request(r) \/ Resume(r) PROVE MailTyped'
  BY <1>0, <1>1, <1>2, <1>5, DispatchTyped DEF Request, Resume, Reject
<1>6. ASSUME NEW r \in Posts, Response(r) PROVE MailTyped'
  BY <1>6 DEF Response, MailTyped
<1>7. ASSUME NEW m \in mail, Answers(m) PROVE MailTyped'
  BY <1>7 DEF Answers, MailTyped
<1> QED
  BY <1>1, <1>2, <1>3, <1>4, <1>5, <1>6, <1>7
     DEF ProvNext, prov_vars, Connect, SessionEnds, HandshakeFails, TimeOut

ProvWhole == ProvInv /\ PortsTyped /\ MailTyped

LEMMA ProvWholeInit == ProvInit => ProvWhole
BY DEF ProvInit, ProvWhole, ProvInv, PostsTyped, EarlyMarked, PendingAsks, PortsTyped, MailTyped, NoPort

LEMMA ProvWholeStep == ProvWhole /\ [ProvNext]_prov_vars => ProvWhole'
BY ProvStepInv, PortsStep, MailStep DEF ProvWhole

LEMMA ProvTypes == ProvWhole => ProvTypeOK
BY DEF ProvWhole, ProvInv, PostsTyped, PortsTyped, MailTyped, ProvTypeOK

-----------------------------------------------------------------------------
(***************************************************************************)
(* PromptWindows, for any wallet, any capabilities and tries of a PIN, and *)
(* any number of prompts and locks.                                        *)
(*                                                                         *)
(* An answer goes to the request that is drawn, and takes it off the       *)
(* screen; that it takes nothing else off, or leaves it on, rests on what  *)
(* is drawn in one place being of that window and kind, and on the list of *)
(* the main window having each request once.                               *)
(***************************************************************************)

Mine       == ToSet(PwAccounts)
PromptRecs == [window : {"none", "popup", "main"}, kind : {"none", "connect", "sign", "pin", "unlock"},
               accounts : {<<>>, PwAccounts}, account : Mine \cup {"none"},
               answer : {"none", "yes", "no", "unlocked"}]
PopupRecs  == [pending : PromptIds \cup {0}, selected : Mine \cup {"none"}, accounts : {<<>>, PwAccounts},
               balance : Mine \cup {"none"}, reading : Mine \cup {"none"}]
Titles     == {"Wallet", "Action needed"}

PwTyped ==
  /\ pwActive \in Mine /\ popup \in PopupRecs /\ hostPick \in Mine \cup {"none"}
  /\ parked \in SUBSET PromptIds /\ hostList \in Seq(PromptIds) /\ prompt \in [PromptIds -> PromptRecs]
  /\ pinAsked \in [{"popup", "main"} -> PromptIds \cup {0}]
  /\ title \in Titles /\ flash \in [{"pending", "unlock"} -> [on : BOOLEAN, back : Titles]]

\* A popup that has said hello shows an account, and asks nothing before.
PopupShows ==
  /\ pwHello.sent => popup.selected \in Mine
  /\ popup.pending # 0 => pwHello.sent

PwInv == PwTyped /\ ScreensAskWhatWaits /\ ConnectsAnAccount /\ PopupShows

\* The four kinds of place a request may be drawn or held in, as ScreensAskWhatWaits has them.
InMain  == /\ \A i \in 1..Len(hostList) : PwDrawn(hostList[i], "main", PwKinds)
           /\ \A i, j \in 1..Len(hostList) : hostList[i] = hostList[j] => i = j
InPopup == popup.pending # 0 => PwDrawn(popup.pending, "popup", PwKinds) /\ flash["pending"].on
InPin   == \A w \in {"popup", "main"} : pinAsked[w] # 0 => PwDrawn(pinAsked[w], w, {"pin"})
InPark  == /\ \A p \in parked : PwDrawn(p, "popup", {"unlock"})
           /\ parked # {} => ~pwOpen /\ flash["unlock"].on

LEMMA ScreensAre ==
  ASSUME PwTyped
  PROVE  ScreensAskWhatWaits <=> InMain /\ InPopup /\ InPin /\ InPark
<1>1. DOMAIN hostList = 1..Len(hostList) /\ DOMAIN pinAsked = {"popup", "main"}
  BY LenProperties DEF PwTyped
<1> QED
  BY <1>1 DEF ScreensAskWhatWaits, InMain, InPopup, InPin, InPark

\* What is drawn stays drawn while nothing is done to it.
LEMMA StillDrawn ==
  ASSUME NEW p, prompt'[p] = prompt[p], NEW w, NEW K, PwDrawn(p, w, K)
  PROVE  PwDrawn(p, w, K)'
BY DEF PwDrawn, PwWaiting

\* The list without its i-th entry.
LEMMA RemovedIs ==
  ASSUME NEW S, NEW s \in Seq(S), NEW i \in 1..Len(s)
  PROVE  LET t == RemoveAt(s, i)
         IN  /\ t \in Seq(S) /\ Len(t) = Len(s) - 1
             /\ \A k \in 1..Len(t) : t[k] = s[IF k < i THEN k ELSE k + 1]
<1> DEFINE n == Len(s)
           a == SubSeq(s, 1, i - 1)
           b == SubSeq(s, i + 1, n)
<1>1. n \in Nat /\ i \in Nat /\ 1 <= i /\ i <= n /\ \A k \in 1..n : s[k] \in S
  BY LenProperties
<1>2. RemoveAt(s, i) = a \o b
  BY DEF RemoveAt
<1> HIDE DEF n
<1>3. a \in Seq(S) /\ Len(a) = i - 1 /\ \A k \in 1..(i - 1) : a[k] = s[k]
  <2>1. \A k \in 1..(i - 1) : s[k] \in S
    BY <1>1
  <2>2. /\ a \in Seq(S) /\ Len(a) = IF 1 <= i - 1 THEN i - 1 - 1 + 1 ELSE 0
        /\ \A k \in 1..(i - 1 - 1 + 1) : a[k] = s[1 + k - 1]
    BY <1>1, <2>1, SubSeqProperties
  <2> HIDE DEF a
  <2> QED
    BY <1>1, <2>2
<1>4. b \in Seq(S) /\ Len(b) = n - i /\ \A k \in 1..(n - i) : b[k] = s[i + k]
  <2>1. \A k \in (i + 1)..n : s[k] \in S
    BY <1>1
  <2>2. /\ b \in Seq(S) /\ Len(b) = IF i + 1 <= n THEN n - (i + 1) + 1 ELSE 0
        /\ \A k \in 1..(n - (i + 1) + 1) : b[k] = s[(i + 1) + k - 1]
    BY <1>1, <2>1, SubSeqProperties
  <2> HIDE DEF b
  <2> QED
    BY <1>1, <2>2
<1> HIDE DEF a, b
<1>5. /\ a \o b \in Seq(S) /\ Len(a \o b) = Len(a) + Len(b)
      /\ \A k \in 1..(Len(a) + Len(b)) : (a \o b)[k] = IF k <= Len(a) THEN a[k] ELSE b[k - Len(a)]
  BY <1>3, <1>4, ConcatProperties
<1>6. Len(a \o b) = n - 1
  BY <1>1, <1>3, <1>4, <1>5
<1>7. ASSUME NEW k \in 1..(n - 1) PROVE (a \o b)[k] = s[IF k < i THEN k ELSE k + 1]
  <2>1. (a \o b)[k] = IF k <= i - 1 THEN a[k] ELSE b[k - (i - 1)]
    BY <1>1, <1>3, <1>4, <1>5
  <2>2. CASE k < i
    BY <1>1, <1>3, <2>1, <2>2
  <2>3. CASE k >= i
    <3>1. k - (i - 1) \in 1..(n - i) /\ i + (k - (i - 1)) = k + 1
      BY <1>1, <2>3
    <3>2. b[k - (i - 1)] = s[k + 1]
      BY <1>4, <3>1
    <3> QED
      BY <1>1, <2>1, <2>3, <3>2
  <2>4. k < i \/ k >= i
    BY <1>1
  <2> QED
    BY <2>2, <2>3, <2>4
<1> QED
  BY <1>2, <1>5, <1>6, <1>7 DEF n

\* The signals a change is not about stay; a wanted one is on.
LEMMA AttendIs ==
  ASSUME PwTyped, NEW changed, NEW wanted, Attend(changed, wanted)
  PROVE  /\ title' \in Titles /\ flash' \in [{"pending", "unlock"} -> [on : BOOLEAN, back : Titles]]
         /\ \A s \in {"pending", "unlock"} :
              /\ s \notin changed => flash'[s] = flash[s]
              /\ s \in changed \cap wanted => flash'[s].on
<1> DEFINE Stop(s, t) == IF s \in changed /\ flash[s].on THEN flash[s].back ELSE t
           stopped    == Stop("unlock", Stop("pending", title))
<1>1. stopped \in Titles
  BY DEF PwTyped
<1>2. /\ title' = stopped
      /\ flash' = [s \in DOMAIN flash |->
           IF s \notin changed THEN flash[s]
           ELSE IF s \in wanted THEN [on |-> TRUE, back |-> stopped] ELSE NoSignal]
  BY DEF Attend
<1> HIDE DEF stopped
<1>3. NoSignal \in [on : BOOLEAN, back : Titles]
  BY DEF NoSignal, Titles
<1>4. flash \in [{"pending", "unlock"} -> [on : BOOLEAN, back : Titles]]
  BY DEF PwTyped
<1>5. [on |-> TRUE, back |-> stopped] \in [on : BOOLEAN, back : Titles]
  BY <1>1
<1> QED
  BY <1>1, <1>2, <1>3, <1>4, <1>5

\* Nothing drawn is unasked; a request that is put to the user disturbs nothing that is.
LEMMA NewlyAsked ==
  ASSUME PwInv, NEW p \in PromptIds, NextPrompt(p), NEW r \in PromptRecs,
         r.window # "none", r.answer = "none", prompt' = [prompt EXCEPT ![p] = r]
  PROVE  /\ prompt' \in [PromptIds -> PromptRecs] /\ ConnectsAnAccount'
         /\ PwDrawn(p, r.window, {r.kind})'
         /\ \A w, K : \A q \in PromptIds : PwDrawn(q, w, K) => q # p /\ PwDrawn(q, w, K)'
<1>1. prompt \in [PromptIds -> PromptRecs] /\ ConnectsAnAccount /\ prompt[p] = Unasked
  BY DEF PwInv, PwTyped, NextPrompt
<1>2. prompt' \in [PromptIds -> PromptRecs] /\ prompt'[p] = r /\ \A q \in PromptIds : q # p => prompt'[q] = prompt[q]
  BY <1>1
<1>3. Unasked.window = "none"
  BY DEF Unasked
<1>4. PwDrawn(p, r.window, {r.kind})'
  BY <1>2, <1>3 DEF PwDrawn, PwWaiting
<1>5. ConnectsAnAccount'
  BY <1>1, <1>2 DEF ConnectsAnAccount
<1>6. ASSUME NEW q \in PromptIds, NEW w, NEW K, PwDrawn(q, w, K) PROVE q # p /\ PwDrawn(q, w, K)'
  <2>1. q # p
    BY <1>1, <1>6 DEF PwDrawn, PwWaiting
  <2> QED
    BY <1>2, <1>6, <2>1, StillDrawn
<1> QED
  BY <1>2, <1>4, <1>5, <1>6

\* The places are apart: of different windows or kinds.
LEMMA PlacesApart ==
  ASSUME PwInv
  PROVE  /\ 0 \notin PromptIds /\ \A i \in 1..Len(hostList) : hostList[i] \in PromptIds
         /\ \A i \in 1..Len(hostList) : /\ hostList[i] \notin parked /\ hostList[i] # popup.pending
                                        /\ \A w \in {"popup", "main"} : hostList[i] # pinAsked[w]
         /\ popup.pending \notin parked
         /\ \A w \in {"popup", "main"} : /\ pinAsked[w] \notin parked
                                         /\ pinAsked[w] # 0 => pinAsked[w] # popup.pending
         /\ pinAsked["popup"] # 0 => pinAsked["popup"] # pinAsked["main"]
<1>1. 0 \notin PromptIds
  BY DEF PromptIds
<1>2. InMain /\ InPopup /\ InPin /\ InPark
  BY ScreensAre DEF PwInv
<1>3. ASSUME NEW p, NEW v, NEW w, NEW K, NEW L, PwDrawn(p, v, K), PwDrawn(p, w, L)
      PROVE  v = w /\ K \cap L # {}
  BY <1>3 DEF PwDrawn
<1>4. PwKinds \cap {"pin"} = {} /\ PwKinds \cap {"unlock"} = {} /\ {"pin"} \cap {"unlock"} = {}
  BY DEF PwKinds
<1>5. \A i \in 1..Len(hostList) : hostList[i] \in PromptIds
  BY LenProperties DEF PwInv, PwTyped
<1>6. parked \subseteq PromptIds /\ "main" # "popup"
  BY DEF PwInv, PwTyped
<1>7. ASSUME NEW i \in 1..Len(hostList)
      PROVE  /\ hostList[i] \notin parked /\ hostList[i] # popup.pending
             /\ \A w \in {"popup", "main"} : hostList[i] # pinAsked[w]
  <2>1. PwDrawn(hostList[i], "main", PwKinds) /\ hostList[i] # 0
    BY <1>1, <1>2, <1>5 DEF InMain
  <2>2. hostList[i] \notin parked
    BY <1>2, <1>3, <1>6, <2>1 DEF InPark
  <2>3. hostList[i] # popup.pending
    BY <1>2, <1>3, <1>6, <2>1 DEF InPopup
  <2>4. ASSUME NEW w \in {"popup", "main"}, hostList[i] = pinAsked[w] PROVE FALSE
    <3>1. PwDrawn(hostList[i], w, {"pin"})
      BY <1>2, <2>1, <2>4 DEF InPin
    <3> QED
      BY <1>3, <1>4, <2>1, <3>1
  <2> QED
    BY <2>2, <2>3, <2>4
<1>8. popup.pending \notin parked
  <2>1. ASSUME popup.pending \in parked PROVE FALSE
    <3>1. popup.pending # 0
      BY <1>1, <1>6, <2>1
    <3>2. PwDrawn(popup.pending, "popup", PwKinds) /\ PwDrawn(popup.pending, "popup", {"unlock"})
      BY <1>2, <2>1, <3>1 DEF InPopup, InPark
    <3> QED
      BY <1>3, <1>4, <3>2
  <2> QED
    BY <2>1
<1>9. ASSUME NEW w \in {"popup", "main"}
      PROVE  pinAsked[w] \notin parked /\ (pinAsked[w] # 0 => pinAsked[w] # popup.pending)
  <2>1. pinAsked[w] # 0 => PwDrawn(pinAsked[w], w, {"pin"})
    BY <1>2 DEF InPin
  <2>2. ASSUME pinAsked[w] \in parked PROVE FALSE
    <3>1. pinAsked[w] # 0
      BY <1>1, <1>6, <2>2
    <3>2. PwDrawn(pinAsked[w], "popup", {"unlock"})
      BY <1>2, <2>2 DEF InPark
    <3> QED
      BY <1>3, <1>4, <2>1, <3>1, <3>2
  <2>3. ASSUME pinAsked[w] # 0, pinAsked[w] = popup.pending PROVE FALSE
    <3>1. PwDrawn(pinAsked[w], "popup", PwKinds)
      BY <1>2, <2>3 DEF InPopup
    <3> QED
      BY <1>3, <1>4, <2>1, <2>3, <3>1
  <2> QED
    BY <2>2, <2>3
<1>10. ASSUME pinAsked["popup"] # 0, pinAsked["popup"] = pinAsked["main"] PROVE FALSE
  <2>1. PwDrawn(pinAsked["popup"], "popup", {"pin"}) /\ PwDrawn(pinAsked["popup"], "main", {"pin"})
    BY <1>2, <1>10 DEF InPin
  <2> QED
    BY <1>3, <1>6, <2>1
<1> QED
  BY <1>1, <1>5, <1>7, <1>8, <1>9, <1>10

\* A place stays as it is when nothing happens to what is in it.
LEMMA PlacesKept ==
  ASSUME PwInv, NEW A, \A q \in PromptIds : q \notin A => prompt'[q] = prompt[q]
  PROVE  /\ hostList' = hostList /\ (\A i \in 1..Len(hostList) : hostList[i] \notin A) => InMain'
         /\ popup'.pending = popup.pending /\ (popup.pending # 0 => popup.pending \notin A)
              /\ flash'["pending"] = flash["pending"] => InPopup'
         /\ pinAsked' = pinAsked /\ (\A w \in {"popup", "main"} : pinAsked[w] # 0 => pinAsked[w] \notin A) => InPin'
         /\ parked' = parked /\ parked \cap A = {} /\ (pwOpen' => pwOpen)
              /\ flash'["unlock"] = flash["unlock"] => InPark'
<1>1. InMain /\ InPopup /\ InPin /\ InPark
  BY ScreensAre DEF PwInv
<1>2. ASSUME NEW p \in PromptIds, p \notin A, NEW w, NEW K, PwDrawn(p, w, K) PROVE PwDrawn(p, w, K)'
  BY <1>2, StillDrawn
<1>3. \A i \in 1..Len(hostList) : hostList[i] \in PromptIds
  BY LenProperties DEF PwInv, PwTyped
<1>4. /\ popup.pending \in PromptIds \cup {0} /\ parked \subseteq PromptIds
      /\ \A w \in {"popup", "main"} : pinAsked[w] \in PromptIds \cup {0}
  BY DEF PwInv, PwTyped, PopupRecs
<1>5. ASSUME hostList' = hostList, \A i \in 1..Len(hostList) : hostList[i] \notin A PROVE InMain'
  <2>1. \A i \in 1..Len(hostList) : PwDrawn(hostList[i], "main", PwKinds)'
    BY <1>1, <1>2, <1>3, <1>5 DEF InMain
  <2> QED
    BY <1>1, <1>5, <2>1 DEF InMain, PwDrawn, PwWaiting
<1>6. ASSUME popup'.pending = popup.pending, popup.pending # 0 => popup.pending \notin A,
             flash'["pending"] = flash["pending"]
      PROVE  InPopup'
  <2>1. popup.pending # 0 => PwDrawn(popup.pending, "popup", PwKinds)'
    BY <1>1, <1>2, <1>4, <1>6 DEF InPopup
  <2> QED
    BY <1>1, <1>6, <2>1 DEF InPopup, PwDrawn, PwWaiting
<1>7. ASSUME pinAsked' = pinAsked, \A w \in {"popup", "main"} : pinAsked[w] # 0 => pinAsked[w] \notin A
      PROVE  InPin'
  <2>1. \A w \in {"popup", "main"} : pinAsked[w] # 0 => PwDrawn(pinAsked[w], w, {"pin"})'
    BY <1>1, <1>2, <1>4, <1>7 DEF InPin
  <2> QED
    BY <1>7, <2>1 DEF InPin, PwDrawn, PwWaiting
<1>8. ASSUME parked' = parked, parked \cap A = {}, pwOpen' => pwOpen, flash'["unlock"] = flash["unlock"]
      PROVE  InPark'
  <2>1. \A p \in parked : PwDrawn(p, "popup", {"unlock"})'
    BY <1>1, <1>2, <1>4, <1>8 DEF InPark
  <2> QED
    BY <1>1, <1>8, <2>1 DEF InPark
<1> QED
  BY <1>5, <1>6, <1>7, <1>8

\* And when something happens to one prompt that is not in it.
LEMMA PlacesKeptBut ==
  ASSUME PwInv, NEW p, \A q \in PromptIds : q # p => prompt'[q] = prompt[q]
  PROVE  /\ hostList' = hostList /\ (\A i \in 1..Len(hostList) : hostList[i] # p) => InMain'
         /\ popup'.pending = popup.pending /\ (popup.pending # 0 => popup.pending # p)
              /\ flash'["pending"] = flash["pending"] => InPopup'
         /\ pinAsked' = pinAsked /\ (\A w \in {"popup", "main"} : pinAsked[w] # 0 => pinAsked[w] # p) => InPin'
         /\ parked' = parked /\ p \notin parked /\ (pwOpen' => pwOpen)
              /\ flash'["unlock"] = flash["unlock"] => InPark'
<1> DEFINE A == {p}
<1>1. \A q : q \in A <=> q = p
  OBVIOUS
<1>2. parked \cap A = {} <=> p \notin parked
  OBVIOUS
<1> HIDE DEF A
<1>3. \A q \in PromptIds : q \notin A => prompt'[q] = prompt[q]
  BY <1>1
<1>4. hostList' = hostList /\ (\A i \in 1..Len(hostList) : hostList[i] \notin A) => InMain'
  BY <1>3, PlacesKept
<1>5. /\ popup'.pending = popup.pending /\ (popup.pending # 0 => popup.pending \notin A)
      /\ flash'["pending"] = flash["pending"]
      => InPopup'
  BY <1>3, PlacesKept
<1>6. pinAsked' = pinAsked /\ (\A w \in {"popup", "main"} : pinAsked[w] # 0 => pinAsked[w] \notin A) => InPin'
  BY <1>3, PlacesKept
<1>7. /\ parked' = parked /\ parked \cap A = {} /\ (pwOpen' => pwOpen) /\ flash'["unlock"] = flash["unlock"]
      => InPark'
  BY <1>3, PlacesKept
<1> QED
  BY <1>1, <1>2, <1>4, <1>5, <1>6, <1>7

\* What a prompt may be answered with.
LEMMA EndedIs ==
  ASSUME PwInv, NEW p \in PromptIds, NEW yes \in BOOLEAN, NEW a \in Mine \cup {"none"},
         yes /\ prompt[p].kind = "connect" => a \in Mine
  PROVE  /\ PwEnded(p, yes, a) \in PromptRecs
         /\ PwEnded(p, yes, a).kind = "connect" /\ PwEnded(p, yes, a).answer = "yes" =>
              PwEnded(p, yes, a).account \in Mine
<1> DEFINE o == prompt[p]
<1>1. o \in PromptRecs
  BY DEF PwInv, PwTyped
<1>2. PwEnded(p, yes, a) = [o EXCEPT !.answer = IF yes THEN "yes" ELSE "no",
                                     !.account = IF yes /\ o.kind = "connect" THEN a ELSE "none"]
  BY DEF PwEnded
<1> HIDE DEF o
<1>3. CASE yes
  BY <1>1, <1>2, <1>3 DEF PromptRecs, o
<1>4. CASE ~yes
  BY <1>1, <1>2, <1>4 DEF PromptRecs
<1> QED
  BY <1>3, <1>4

LEMMA AnsweredIs ==
  ASSUME PwInv, NEW p \in PromptIds, NEW a \in {"no", "unlocked"}
  PROVE  [prompt[p] EXCEPT !.answer = a] \in PromptRecs /\ [prompt[p] EXCEPT !.answer = a].answer # "yes"
<1>1. prompt[p] \in PromptRecs
  BY DEF PwInv, PwTyped
<1> QED
  BY <1>1 DEF PromptRecs

\* The places and the rest make up the invariant.
LEMMA PlacesMakeInv ==
  ASSUME PwTyped', InMain', InPopup', InPin', InPark', ConnectsAnAccount', PopupShows'
  PROVE  PwInv'
<1>1. DOMAIN hostList' = 1..Len(hostList') /\ DOMAIN pinAsked' = {"popup", "main"}
  BY LenProperties DEF PwTyped
<1> QED
  BY <1>1 DEF PwInv, ScreensAskWhatWaits, InMain, InPopup, InPin, InPark

\* Steps that change only the account shown, a title, a lock or the limiter.
LEMMA ShowsKeep ==
  ASSUME PwInv, UNCHANGED <<hostList, prompt, pinAsked, parked>>,
         popup' \in PopupRecs, popup'.pending = popup.pending, flash' = flash, title' \in Titles,
         pwActive' \in Mine, hostPick' \in Mine \cup {"none"}, pwOpen' => pwOpen,
         pwHello' = pwHello, popup'.selected = popup.selected \/ popup'.selected \in Mine
  PROVE  PwInv'
<1> DEFINE A == {}
<1>1. /\ \A q \in PromptIds : q \notin A => prompt'[q] = prompt[q]
      /\ \A q : q \notin A
      /\ parked \cap A = {}
  OBVIOUS
<1> HIDE DEF A
<1>2. InMain' /\ InPopup' /\ InPin' /\ InPark'
  BY <1>1, PlacesKept
<1>3. PwTyped'
  BY DEF PwInv, PwTyped
<1>4. ConnectsAnAccount' /\ PopupShows'
  BY DEF PwInv, ConnectsAnAccount, PopupShows
<1> QED
  BY <1>2, <1>3, <1>4, PlacesMakeInv

LEMMA SelectsIs ==
  ASSUME PwInv, NEW a \in Mine
  PROVE  /\ Selects(a) \in PopupRecs /\ Selects(a).pending = popup.pending /\ Selects(a).selected = a
<1>1. popup \in PopupRecs
  BY DEF PwInv, PwTyped
<1> QED
  BY <1>1 DEF Selects, PopupRecs

LEMMA QuietSteps ==
  ASSUME PwInv,
         \/ \E s \in DOMAIN flash : Alternate(s)
         \/ PwLock \/ AccountsRead \/ BalanceLands
         \/ \E w \in {"popup", "main"} : TimePasses(w)
         \/ \E a \in Mine : ActiveChanges(a) \/ SelectInPopup(a) \/ PickInMain(a)
         \/ UNCHANGED pw_vars
  PROVE  PwInv'
<1>1. PwTyped /\ popup \in PopupRecs
  BY DEF PwInv, PwTyped
<1>2. CASE UNCHANGED pw_vars
  BY <1>1, <1>2, ShowsKeep DEF PwTyped, pw_vars
<1>3. ASSUME NEW s \in DOMAIN flash, Alternate(s) PROVE PwInv'
  <2>1. flash[s].back \in Titles
    BY <1>1, <1>3 DEF PwTyped
  <2>2. title' \in Titles
    BY <1>3, <2>1 DEF Alternate, Titles
  <2>3. UNCHANGED <<pwOpen, pwActive, pwHello, popup, parked, hostList, hostPick, prompt, pinAsked, flash>>
    BY <1>3 DEF Alternate
  <2> QED
    BY <1>1, <2>2, <2>3, ShowsKeep DEF PwTyped
<1>4. CASE PwLock
  BY <1>1, <1>4, ShowsKeep DEF PwTyped, PwLock
<1>5. ASSUME NEW w \in {"popup", "main"}, TimePasses(w) PROVE PwInv'
  BY <1>1, <1>5, ShowsKeep DEF PwTyped, TimePasses
<1>6. CASE AccountsRead
  <2>1. popup' \in PopupRecs /\ popup'.pending = popup.pending /\ popup'.selected = popup.selected
    BY <1>1, <1>6 DEF AccountsRead, PopupRecs
  <2> QED
    BY <1>1, <1>6, <2>1, ShowsKeep DEF PwTyped, AccountsRead
<1>7. CASE BalanceLands
  <2>1. popup' \in PopupRecs /\ popup'.pending = popup.pending /\ popup'.selected = popup.selected
    BY <1>1, <1>7 DEF BalanceLands, PopupRecs
  <2> QED
    BY <1>1, <1>7, <2>1, ShowsKeep DEF PwTyped, BalanceLands
<1>8. ASSUME NEW a \in Mine, ActiveChanges(a) \/ SelectInPopup(a) PROVE PwInv'
  <2>1. popup' = Selects(a) /\ pwActive' \in Mine
    BY <1>1, <1>8 DEF ActiveChanges, SelectInPopup, PwTyped
  <2>2. popup' \in PopupRecs /\ popup'.pending = popup.pending /\ popup'.selected \in Mine
    BY <2>1, SelectsIs
  <2> QED
    BY <1>1, <1>8, <2>1, <2>2, ShowsKeep DEF PwTyped, ActiveChanges, SelectInPopup
<1>9. ASSUME NEW a \in Mine, PickInMain(a) PROVE PwInv'
  BY <1>1, <1>9, ShowsKeep DEF PwTyped, PickInMain
<1> QED
  BY <1>2, <1>3, <1>4, <1>5, <1>6, <1>7, <1>8, <1>9

\* The prompts an answer is given to are off the screen, and no others.
LEMMA PwUnlockKeeps ==
  ASSUME PwInv, PwUnlock
  PROVE  PwInv'
<1>1. /\ ~pwOpen /\ pwOpen' = TRUE /\ parked' = {} /\ popup' = Selects(pwActive)
      /\ prompt' = [p \in PromptIds |-> IF p \in parked THEN [prompt[p] EXCEPT !.answer = "unlocked"] ELSE prompt[p]]
      /\ Attend({"unlock"}, {}) /\ UNCHANGED <<pwActive, hostList, hostPick, pinAsked>>
  BY DEF PwUnlock
<1>2. PwTyped /\ pwActive \in Mine
  BY DEF PwInv, PwTyped
<1>3. popup' \in PopupRecs /\ popup'.pending = popup.pending /\ popup'.selected \in Mine
  BY <1>1, <1>2, SelectsIs
<1>4. /\ title' \in Titles /\ flash' \in [{"pending", "unlock"} -> [on : BOOLEAN, back : Titles]]
      /\ flash'["pending"] = flash["pending"]
  BY <1>1, <1>2, AttendIs
<1>5. ASSUME NEW p \in PromptIds
      PROVE  /\ prompt'[p] \in PromptRecs
             /\ p \notin parked => prompt'[p] = prompt[p]
             /\ p \in parked => prompt'[p].answer # "yes"
  <2>1. prompt[p] \in PromptRecs
    BY <1>2 DEF PwTyped
  <2> QED
    BY <1>1, <2>1, AnsweredIs
<1>6. prompt' \in [PromptIds -> PromptRecs]
  BY <1>1, <1>5
<1>7. InMain' /\ InPopup' /\ InPin'
  BY <1>1, <1>3, <1>4, <1>5, PlacesApart, PlacesKept
<1>8. InPark'
  BY <1>1 DEF InPark
<1>9. ConnectsAnAccount'
  BY <1>5 DEF PwInv, ConnectsAnAccount
<1>10. PwTyped'
  BY <1>1, <1>2, <1>3, <1>4, <1>6 DEF PwTyped
<1>11. PopupShows'
  <2>1. pwHello.sent => pwHello'.sent
    BY DEF PwUnlock
  <2>2. pwHello'.sent
    BY DEF PwUnlock
  <2> QED
    BY <1>3, <2>2 DEF PopupShows
<1> QED
  BY <1>7, <1>8, <1>9, <1>10, <1>11, PlacesMakeInv

LEMMA ParkKeeps ==
  ASSUME PwInv, NEW p \in PromptIds, Park(p)
  PROVE  PwInv'
<1> DEFINE r == [Unasked EXCEPT !.window = "popup", !.kind = "unlock"]
<1>1. /\ ~pwOpen /\ NextPrompt(p) /\ prompt' = [prompt EXCEPT ![p] = r] /\ parked' = parked \cup {p}
      /\ Attend({"unlock"}, {"unlock"}) /\ UNCHANGED <<pwOpen, pwActive, pwHello, popup, hostList, hostPick, pinAsked>>
  BY DEF Park
<1>2. r \in PromptRecs /\ r.window = "popup" /\ r.kind = "unlock" /\ r.answer = "none"
  BY DEF Unasked, PromptRecs
<1> HIDE DEF r
<1>3. PwTyped /\ InMain /\ InPopup /\ InPin /\ InPark
  BY ScreensAre DEF PwInv
<1>4. /\ prompt' \in [PromptIds -> PromptRecs] /\ ConnectsAnAccount' /\ PwDrawn(p, "popup", {"unlock"})'
      /\ \A w, K : \A q \in PromptIds : PwDrawn(q, w, K) => q # p /\ PwDrawn(q, w, K)'
  BY <1>1, <1>2, NewlyAsked
<1>5. /\ title' \in Titles /\ flash' \in [{"pending", "unlock"} -> [on : BOOLEAN, back : Titles]]
      /\ flash'["pending"] = flash["pending"] /\ flash'["unlock"].on
  BY <1>1, <1>3, AttendIs
<1>6. \A q \in PromptIds : q # p => prompt'[q] = prompt[q]
  BY <1>1, <1>3 DEF PwTyped
<1>7. /\ \A i \in 1..Len(hostList) : hostList[i] # p
      /\ popup.pending # p /\ \A w \in {"popup", "main"} : pinAsked[w] # p
  BY <1>3, <1>4, PlacesApart DEF InMain, InPopup, InPin
<1>8. InMain' /\ InPopup' /\ InPin'
  BY <1>1, <1>5, <1>6, <1>7, PlacesKeptBut
<1>9. InPark'
  <2>1. \A q \in parked : PwDrawn(q, "popup", {"unlock"})'
    BY <1>3, <1>4 DEF InPark, PwTyped
  <2> QED
    BY <1>1, <1>4, <1>5, <2>1 DEF InPark
<1>10. PwTyped' /\ PopupShows'
  BY <1>1, <1>3, <1>4, <1>5 DEF PwTyped, PwInv, PopupShows
<1> QED
  BY <1>4, <1>8, <1>9, <1>10, PlacesMakeInv

LEMMA AskInPopupKeeps ==
  ASSUME PwInv, NEW p \in PromptIds, NEW k \in PwKinds, AskInPopup(p, k)
  PROVE  PwInv'
<1> DEFINE r == [Unasked EXCEPT !.window = "popup", !.kind = k, !.accounts = popup.accounts]
<1>1. /\ pwHello.sent /\ NextPrompt(p) /\ prompt' = [prompt EXCEPT ![p] = r]
      /\ popup' = [popup EXCEPT !.pending = p, !.selected =
           IF k = "connect" /\ Len(popup.accounts) > 1 /\ @ = "none" THEN pwActive ELSE @]
      /\ Attend({"pending"}, {"pending"})
      /\ UNCHANGED <<pwOpen, pwActive, pwHello, parked, hostList, hostPick, pinAsked>>
  BY DEF AskInPopup
<1>2. PwTyped /\ InMain /\ InPopup /\ InPin /\ InPark /\ popup \in PopupRecs /\ pwActive \in Mine
  BY ScreensAre DEF PwInv, PwTyped
<1>3. r \in PromptRecs /\ r.window = "popup" /\ r.kind = k /\ r.answer = "none"
  BY <1>2 DEF Unasked, PromptRecs, PopupRecs, PwKinds
<1> HIDE DEF r
<1>4. /\ prompt' \in [PromptIds -> PromptRecs] /\ ConnectsAnAccount' /\ PwDrawn(p, "popup", {k})'
      /\ \A w, K : \A q \in PromptIds : PwDrawn(q, w, K) => q # p /\ PwDrawn(q, w, K)'
  BY <1>1, <1>3, NewlyAsked
<1>5. /\ title' \in Titles /\ flash' \in [{"pending", "unlock"} -> [on : BOOLEAN, back : Titles]]
      /\ flash'["unlock"] = flash["unlock"] /\ flash'["pending"].on
  BY <1>1, <1>2, AttendIs
<1>6. \A q \in PromptIds : q # p => prompt'[q] = prompt[q]
  BY <1>1, <1>2 DEF PwTyped
<1>7. /\ \A i \in 1..Len(hostList) : hostList[i] # p
      /\ p \notin parked /\ \A w \in {"popup", "main"} : pinAsked[w] # p
  BY <1>2, <1>4, PlacesApart DEF InMain, InPark, InPin
<1>8. InMain' /\ InPin' /\ InPark'
  BY <1>1, <1>5, <1>6, <1>7, PlacesKeptBut
<1>9. popup' \in PopupRecs /\ popup'.pending = p /\ popup'.selected \in Mine
  BY <1>1, <1>2 DEF PopupRecs, PwInv, PopupShows
<1>10. InPopup'
  BY <1>4, <1>5, <1>9 DEF InPopup, PwDrawn, PwWaiting
<1>11. PwTyped' /\ PopupShows'
  BY <1>1, <1>2, <1>4, <1>5, <1>9 DEF PwTyped, PopupShows
<1> QED
  BY <1>4, <1>8, <1>10, <1>11, PlacesMakeInv

LEMMA AskInMainKeeps ==
  ASSUME PwInv, NEW p \in PromptIds, NEW k \in PwKinds, AskInMain(p, k)
  PROVE  PwInv'
<1> DEFINE r == [Unasked EXCEPT !.window = "main", !.kind = k, !.accounts = PwAccounts]
           n == Len(hostList)
<1>1. /\ NextPrompt(p) /\ prompt' = [prompt EXCEPT ![p] = r]
      /\ hostList' = Append(hostList, p) /\ hostPick' = HostUnpicks(hostList')
      /\ UNCHANGED <<pwOpen, pwActive, pwHello, popup, parked, pinAsked, title, flash>>
  BY DEF AskInMain
<1>2. PwTyped /\ InMain /\ InPopup /\ InPin /\ InPark
  BY ScreensAre DEF PwInv
<1>3. r \in PromptRecs /\ r.window = "main" /\ r.kind = k /\ r.answer = "none"
  BY DEF Unasked, PromptRecs, PwKinds
<1> HIDE DEF r
<1>4. /\ prompt' \in [PromptIds -> PromptRecs] /\ ConnectsAnAccount' /\ PwDrawn(p, "main", {k})'
      /\ \A w, K : \A q \in PromptIds : PwDrawn(q, w, K) => q # p /\ PwDrawn(q, w, K)'
  BY <1>1, <1>3, NewlyAsked
<1>5. \A q \in PromptIds : q # p => prompt'[q] = prompt[q]
  BY <1>1, <1>2 DEF PwTyped
<1>6. /\ popup.pending # p /\ p \notin parked /\ \A w \in {"popup", "main"} : pinAsked[w] # p
  BY <1>2, <1>4, PlacesApart DEF InPopup, InPark, InPin
<1>7. InPopup' /\ InPin' /\ InPark'
  BY <1>1, <1>5, <1>6, PlacesKeptBut
<1>8. hostPick' \in Mine \cup {"none"}
  BY <1>1, <1>2 DEF HostUnpicks, PwTyped
<1>9. /\ n \in Nat /\ hostList' \in Seq(PromptIds) /\ Len(hostList') = n + 1
      /\ \A i \in 1..n : hostList'[i] = hostList[i] /\ hostList[i] \in PromptIds
      /\ hostList'[n + 1] = p
  BY <1>1, <1>2, AppendProperties, LenProperties DEF PwTyped
<1>10. InMain'
  <2>1. \A i \in 1..n : hostList[i] # p /\ PwDrawn(hostList[i], "main", PwKinds)
    BY <1>2, <1>4, <1>9 DEF InMain
  <2>2. ASSUME NEW i \in 1..(n + 1) PROVE PwDrawn(hostList[i], "main", PwKinds)'
    <3>1. CASE i \in 1..n
      <4>1. PwDrawn(hostList[i], "main", PwKinds) /\ hostList[i] \in PromptIds /\ hostList'[i] = hostList[i]
        BY <1>9, <2>1, <3>1
      <4> DEFINE q == hostList[i]
      <4>2. prompt'[q] = prompt[q]
        BY <1>5, <1>9, <2>1, <3>1
      <4> QED
        BY <4>1, <4>2 DEF PwDrawn, PwWaiting
    <3>2. CASE i = n + 1
      BY <1>4, <1>9, <3>2 DEF PwDrawn, PwWaiting
    <3> QED
      BY <1>9, <3>1, <3>2
  <2>3. ASSUME NEW i \in 1..(n + 1), NEW j \in 1..(n + 1), hostList'[i] = hostList'[j] PROVE i = j
    <3>1. CASE i \in 1..n /\ j \in 1..n
      BY <1>2, <1>9, <2>3, <3>1 DEF InMain
    <3>2. CASE i = n + 1 /\ j = n + 1
      BY <3>2
    <3>3. CASE i \in 1..n /\ j = n + 1
      BY <1>9, <2>1, <2>3, <3>3
    <3>4. CASE i = n + 1 /\ j \in 1..n
      BY <1>9, <2>1, <2>3, <3>4
    <3> QED
      BY <1>9, <3>1, <3>2, <3>3, <3>4
  <2> QED
    BY <1>9, <2>2, <2>3 DEF InMain
<1>11. PwTyped' /\ PopupShows'
  BY <1>1, <1>2, <1>4, <1>8, <1>9 DEF PwTyped, PwInv, PopupShows
<1> QED
  BY <1>4, <1>7, <1>10, <1>11, PlacesMakeInv

LEMMA AskPinKeeps ==
  ASSUME PwInv, NEW p \in PromptIds, NEW w \in {"popup", "main"}, AskPin(p, w)
  PROVE  PwInv'
<1> DEFINE r == [Unasked EXCEPT !.window = w, !.kind = "pin"]
<1>1. /\ NextPrompt(p) /\ prompt' = [prompt EXCEPT ![p] = r] /\ pinAsked' = [pinAsked EXCEPT ![w] = p]
      /\ hostPick' = IF w = "main" THEN HostUnpicks(hostList) ELSE hostPick
      /\ UNCHANGED <<pwOpen, pwActive, pwHello, popup, parked, hostList, title, flash>>
  BY DEF AskPin
<1>2. PwTyped /\ InMain /\ InPopup /\ InPin /\ InPark
  BY ScreensAre DEF PwInv
<1>3. r \in PromptRecs /\ r.window = w /\ r.kind = "pin" /\ r.answer = "none" /\ w # "none"
  BY DEF Unasked, PromptRecs
<1> HIDE DEF r
<1>4. /\ prompt' \in [PromptIds -> PromptRecs] /\ ConnectsAnAccount' /\ PwDrawn(p, w, {"pin"})'
      /\ \A v, K : \A q \in PromptIds : PwDrawn(q, v, K) => q # p /\ PwDrawn(q, v, K)'
  BY <1>1, <1>3, NewlyAsked
<1>5. \A q \in PromptIds : q # p => prompt'[q] = prompt[q]
  BY <1>1, <1>2 DEF PwTyped
<1>6. /\ popup.pending # p /\ p \notin parked /\ \A i \in 1..Len(hostList) : hostList[i] # p
  BY <1>2, <1>4, PlacesApart DEF InPopup, InPark, InMain
<1>7. InPopup' /\ InMain' /\ InPark'
  BY <1>1, <1>5, <1>6, PlacesKeptBut
<1>8. hostPick' \in Mine \cup {"none"}
  BY <1>1, <1>2 DEF HostUnpicks, PwTyped
<1>9. /\ pinAsked' \in [{"popup", "main"} -> PromptIds \cup {0}] /\ pinAsked'[w] = p
      /\ \A v \in {"popup", "main"} : v # w => pinAsked'[v] = pinAsked[v] /\ pinAsked[v] \in PromptIds \cup {0}
  BY <1>1, <1>2 DEF PwTyped
<1>10. InPin'
  <2>1. ASSUME NEW v \in {"popup", "main"}, pinAsked'[v] # 0 PROVE PwDrawn(pinAsked[v], v, {"pin"})'
    <3>1. CASE v = w
      BY <1>4, <1>9, <3>1 DEF PwDrawn, PwWaiting
    <3>2. CASE v # w
      <4>1. PwDrawn(pinAsked[v], v, {"pin"}) /\ pinAsked[v] \in PromptIds /\ pinAsked'[v] = pinAsked[v]
        BY <1>2, <1>9, <2>1, <3>2 DEF InPin
      <4>2. prompt'[pinAsked[v]] = prompt[pinAsked[v]]
        BY <1>4, <1>5, <4>1
      <4> QED
        BY <4>1, <4>2 DEF PwDrawn, PwWaiting
    <3> QED
      BY <3>1, <3>2
  <2> QED
    BY <2>1 DEF InPin
<1>11. PwTyped' /\ PopupShows'
  BY <1>1, <1>2, <1>4, <1>8, <1>9 DEF PwTyped, PwInv, PopupShows
<1> QED
  BY <1>4, <1>7, <1>10, <1>11, PlacesMakeInv

\* A prompt is answered, and what it was answered with is in order.
LEMMA OneAnswered ==
  ASSUME PwInv, NEW p \in PromptIds, NEW r \in PromptRecs,
         r.kind = "connect" /\ r.answer = "yes" => r.account \in Mine,
         prompt' = [prompt EXCEPT ![p] = r]
  PROVE  /\ prompt' \in [PromptIds -> PromptRecs] /\ ConnectsAnAccount'
         /\ \A q \in PromptIds : q # p => prompt'[q] = prompt[q]
<1>1. prompt \in [PromptIds -> PromptRecs] /\ ConnectsAnAccount
  BY DEF PwInv, PwTyped
<1>2. /\ prompt' \in [PromptIds -> PromptRecs] /\ prompt'[p] = r
      /\ \A q \in PromptIds : q # p => prompt'[q] = prompt[q]
  BY <1>1
<1>3. ConnectsAnAccount'
  BY <1>1, <1>2 DEF ConnectsAnAccount, Mine
<1> QED
  BY <1>2, <1>3

LEMMA DecideInPopupKeeps ==
  ASSUME PwInv, NEW yes \in BOOLEAN, DecideInPopup(yes)
  PROVE  PwInv'
<1> DEFINE p == popup.pending
<1>1. /\ p # 0 /\ prompt' = [prompt EXCEPT ![p] = PwEnded(p, yes, popup.selected)]
      /\ popup' = [popup EXCEPT !.pending = 0] /\ Attend({"pending"}, {})
      /\ UNCHANGED <<pwOpen, pwActive, pwHello, parked, hostList, hostPick, pinAsked>>
  BY DEF DecideInPopup
<1>2. PwTyped /\ popup \in PopupRecs /\ p \in PromptIds /\ popup.selected \in Mine
  BY <1>1 DEF PwInv, PwTyped, PopupRecs, PopupShows
<1>3. /\ popup' \in PopupRecs /\ popup'.pending = 0 /\ popup'.selected = popup.selected
  BY <1>1, <1>2 DEF PopupRecs
<1>4. /\ \A i \in 1..Len(hostList) : hostList[i] # p
      /\ p \notin parked /\ \A w \in {"popup", "main"} : pinAsked[w] # 0 => pinAsked[w] # p
  BY PlacesApart
<1> HIDE DEF p
<1>5. /\ prompt' \in [PromptIds -> PromptRecs] /\ ConnectsAnAccount'
      /\ \A q \in PromptIds : q # p => prompt'[q] = prompt[q]
  <2> DEFINE r == PwEnded(p, yes, popup.selected)
  <2>1. r \in PromptRecs /\ (r.kind = "connect" /\ r.answer = "yes" => r.account \in Mine)
    BY <1>2, EndedIs
  <2> HIDE DEF r
  <2>2. prompt' = [prompt EXCEPT ![p] = r]
    BY <1>1 DEF r
  <2> QED
    BY <1>2, <2>1, <2>2, OneAnswered
<1>6. /\ title' \in Titles /\ flash' \in [{"pending", "unlock"} -> [on : BOOLEAN, back : Titles]]
      /\ flash'["unlock"] = flash["unlock"]
  BY <1>1, <1>2, AttendIs
<1>7. InMain' /\ InPin' /\ InPark'
  BY <1>1, <1>4, <1>5, <1>6, PlacesKeptBut
<1>8. InPopup'
  BY <1>3 DEF InPopup
<1>9. PwTyped' /\ PopupShows'
  BY <1>1, <1>2, <1>3, <1>5, <1>6 DEF PwTyped, PopupShows
<1> QED
  BY <1>5, <1>7, <1>8, <1>9, PlacesMakeInv

LEMMA DecideInMainKeeps ==
  ASSUME PwInv, NEW i \in DOMAIN hostList, NEW yes \in BOOLEAN, DecideInMain(i, yes)
  PROVE  PwInv'
<1> DEFINE p == hostList[i]
           n == Len(hostList)
<1>1. /\ prompt' = [prompt EXCEPT ![p] = PwEnded(p, yes, ShownInMain)]
      /\ hostList' = RemoveAt(hostList, i) /\ hostPick' = "none"
      /\ UNCHANGED <<pwOpen, pwActive, pwHello, popup, parked, pinAsked, title, flash>>
  BY DEF DecideInMain
<1>2. PwTyped /\ InMain
  BY ScreensAre DEF PwInv
<1>3. n \in Nat /\ i \in 1..n /\ \A k \in 1..n : hostList[k] \in PromptIds
  BY <1>2, LenProperties DEF PwTyped
<1>4. popup.pending # p /\ p \notin parked /\ \A w \in {"popup", "main"} : pinAsked[w] # p
  BY <1>3, PlacesApart
<1>5. p \in PromptIds /\ ShownInMain \in Mine
  BY <1>2, <1>3 DEF ShownInMain, PwTyped
<1>6. /\ prompt' \in [PromptIds -> PromptRecs] /\ ConnectsAnAccount'
      /\ \A q \in PromptIds : q # p => prompt'[q] = prompt[q]
  <2> DEFINE r == PwEnded(p, yes, ShownInMain)
  <2>1. r \in PromptRecs /\ (r.kind = "connect" /\ r.answer = "yes" => r.account \in Mine)
    BY <1>5, EndedIs
  <2> HIDE DEF r
  <2>2. prompt' = [prompt EXCEPT ![p] = r]
    BY <1>1 DEF r
  <2> QED
    BY <1>5, <2>1, <2>2, OneAnswered
<1>7. InPopup' /\ InPin' /\ InPark'
  BY <1>1, <1>4, <1>6, PlacesKeptBut
<1>8. /\ hostList' \in Seq(PromptIds) /\ Len(hostList') = n - 1
      /\ \A k \in 1..(n - 1) : hostList'[k] = hostList[IF k < i THEN k ELSE k + 1]
  BY <1>1, <1>2, <1>3, RemovedIs DEF PwTyped
<1>9. ASSUME NEW k \in 1..(n - 1)
      PROVE  (IF k < i THEN k ELSE k + 1) \in 1..n /\ (IF k < i THEN k ELSE k + 1) # i
  BY <1>3
<1>10. InMain'
  <2> DEFINE At(k) == IF k < i THEN k ELSE k + 1
  <2>1. \A j, k \in 1..(n - 1) : At(j) = At(k) => j = k
    BY <1>3
  <2>2. \A k \in 1..(n - 1) : At(k) \in 1..n /\ At(k) # i /\ hostList'[k] = hostList[At(k)]
    BY <1>8, <1>9
  <2> HIDE DEF At
  <2>3. ASSUME NEW k \in 1..(n - 1) PROVE PwDrawn(hostList[k], "main", PwKinds)'
    <3>1. PwDrawn(hostList[At(k)], "main", PwKinds) /\ hostList[At(k)] # p
      BY <1>2, <1>3, <2>2 DEF InMain
    <3>2. prompt'[hostList[At(k)]] = prompt[hostList[At(k)]]
      BY <1>3, <1>6, <2>2, <3>1
    <3> QED
      BY <2>2, <3>1, <3>2 DEF PwDrawn, PwWaiting
  <2>4. \A j, k \in 1..(n - 1) : hostList'[j] = hostList'[k] => j = k
    BY <1>2, <2>1, <2>2 DEF InMain
  <2> QED
    BY <1>8, <2>3, <2>4 DEF InMain
<1>11. PwTyped' /\ PopupShows'
  BY <1>1, <1>2, <1>6, <1>8 DEF PwTyped, PwInv, PopupShows
<1> QED
  BY <1>6, <1>7, <1>10, <1>11, PlacesMakeInv

LEMMA EscapeInMainKeeps ==
  ASSUME PwInv, EscapeInMain
  PROVE  PwInv'
<1> DEFINE A == ToSet(hostList)
<1>1. /\ prompt' = [p \in PromptIds |-> IF p \in A THEN PwEnded(p, FALSE, "none") ELSE prompt[p]]
      /\ hostList' = <<>> /\ hostPick' = "none"
      /\ UNCHANGED <<pwOpen, pwActive, pwHello, popup, parked, pinAsked, title, flash>>
  BY DEF EscapeInMain
<1>2. PwTyped /\ ConnectsAnAccount
  BY DEF PwInv
<1>3. \A p \in A : \E i \in 1..Len(hostList) : p = hostList[i]
  BY <1>2, LenProperties DEF ToSet, PwTyped
<1> HIDE DEF A
<1>4. /\ popup.pending # 0 => popup.pending \notin A
      /\ parked \cap A = {} /\ \A w \in {"popup", "main"} : pinAsked[w] \notin A
  BY <1>3, PlacesApart
<1>5. ASSUME NEW p \in PromptIds
      PROVE  /\ prompt'[p] \in PromptRecs
             /\ p \notin A => prompt'[p] = prompt[p]
             /\ p \in A => ~(prompt'[p].kind = "connect" /\ prompt'[p].answer = "yes" /\ prompt'[p].account \notin Mine)
  <2>1. prompt[p] \in PromptRecs
    BY <1>2 DEF PwTyped
  <2>2. CASE p \in A
    <3>1. prompt'[p] = PwEnded(p, FALSE, "none")
      BY <1>1, <2>2
    <3> QED
      BY <2>2, <3>1, EndedIs
  <2>3. CASE p \notin A
    BY <1>1, <2>1, <2>3
  <2> QED
    BY <2>2, <2>3
<1>6. prompt' \in [PromptIds -> PromptRecs] /\ \A q \in PromptIds : q \notin A => prompt'[q] = prompt[q]
  BY <1>1, <1>5
<1>7. InPopup' /\ InPin' /\ InPark'
  BY <1>1, <1>4, <1>6, PlacesKept
<1>8. hostList' \in Seq(PromptIds) /\ Len(hostList') = 0
  BY <1>1
<1>9. InMain'
  <2>1. 1..Len(hostList') = {}
    BY <1>8
  <2> QED
    BY <2>1 DEF InMain
<1>10. ConnectsAnAccount'
  BY <1>2, <1>5 DEF ConnectsAnAccount, Mine
<1>11. PwTyped' /\ PopupShows'
  BY <1>1, <1>2, <1>6, <1>8 DEF PwTyped, PwInv, PopupShows
<1> QED
  BY <1>7, <1>9, <1>10, <1>11, PlacesMakeInv

\* A PIN dialog of w is closed, and a request for a PIN in w is answered.  In the popup the one
\* that was shown may not be the one that is answered.
LEMMA PinEndsKeeps ==
  ASSUME PwInv, NEW w \in {"popup", "main"}, NEW p \in PromptIds, NEW a \in {"no", "unlocked"},
         prompt[p].window = w, prompt[p].kind = "pin",
         prompt' = [prompt EXCEPT ![p].answer = a], pinAsked' = [pinAsked EXCEPT ![w] = 0],
         UNCHANGED <<pwOpen, pwActive, pwHello, popup, parked, hostList, hostPick, title, flash>>
  PROVE  PwInv'
<1> DEFINE r == [prompt[p] EXCEPT !.answer = a]
<1>1. PwTyped /\ InPin /\ InMain /\ InPopup /\ InPark
  BY ScreensAre DEF PwInv
<1>2. p \in PromptIds /\ prompt[p] \in PromptRecs
  BY <1>1 DEF PwTyped
<1>3. r \in PromptRecs /\ r.answer # "yes"
  BY <1>2, AnsweredIs
<1>4. prompt' = [prompt EXCEPT ![p] = r]
  BY <1>1, <1>2 DEF PwTyped
<1> HIDE DEF r
<1>5. /\ prompt' \in [PromptIds -> PromptRecs] /\ ConnectsAnAccount'
      /\ \A q \in PromptIds : q # p => prompt'[q] = prompt[q]
  BY <1>2, <1>3, <1>4, OneAnswered
<1>6. /\ popup.pending # 0 => popup.pending # p
      /\ p \notin parked /\ \A i \in 1..Len(hostList) : hostList[i] # p
  BY <1>1 DEF InPopup, InPark, InMain, PwDrawn, PwKinds
<1>7. InPopup' /\ InMain' /\ InPark'
  BY <1>5, <1>6, PlacesKeptBut
<1>8. /\ pinAsked' \in [{"popup", "main"} -> PromptIds \cup {0}] /\ pinAsked'[w] = 0
      /\ \A v \in {"popup", "main"} : v # w => pinAsked'[v] = pinAsked[v]
  BY <1>1 DEF PwTyped
<1>9. InPin'
  <2>1. ASSUME NEW v \in {"popup", "main"}, pinAsked'[v] # 0 PROVE PwDrawn(pinAsked[v], v, {"pin"})'
    <3>1. v # w /\ pinAsked'[v] = pinAsked[v]
      BY <1>8, <2>1
    <3>2. PwDrawn(pinAsked[v], v, {"pin"}) /\ pinAsked[v] \in PromptIds
      BY <1>1, <2>1, <3>1 DEF InPin, PwTyped
    <3>3. pinAsked[v] # p
      BY <3>1, <3>2 DEF PwDrawn
    <3>4. prompt'[pinAsked[v]] = prompt[pinAsked[v]]
      BY <1>5, <3>2, <3>3
    <3> QED
      BY <3>1, <3>2, <3>4 DEF PwDrawn, PwWaiting
  <2> QED
    BY <2>1 DEF InPin
<1>10. PwTyped' /\ PopupShows'
  BY <1>1, <1>5, <1>8 DEF PwTyped, PwInv, PopupShows
<1> QED
  BY <1>5, <1>7, <1>9, <1>10, PlacesMakeInv

\* A PIN dialog of w is closed, and nothing is answered.
LEMMA PinClosesKeeps ==
  ASSUME PwInv, NEW w \in {"popup", "main"}, prompt' = prompt, pinAsked' = [pinAsked EXCEPT ![w] = 0],
         UNCHANGED <<pwOpen, pwActive, pwHello, popup, parked, hostList, hostPick, title, flash>>
  PROVE  PwInv'
<1>1. PwTyped /\ InPin /\ InMain /\ InPopup /\ InPark
  BY ScreensAre DEF PwInv
<1>2. /\ pinAsked' \in [{"popup", "main"} -> PromptIds \cup {0}] /\ pinAsked'[w] = 0
      /\ \A v \in {"popup", "main"} : v # w => pinAsked'[v] = pinAsked[v]
  BY <1>1 DEF PwTyped
<1>3. InPin'
  BY <1>1, <1>2 DEF InPin, PwDrawn, PwWaiting
<1>4. InMain' /\ InPopup' /\ InPark'
  BY <1>1 DEF InMain, InPopup, InPark, PwDrawn, PwWaiting
<1>5. PwTyped' /\ PopupShows' /\ ConnectsAnAccount'
  BY <1>1, <1>2 DEF PwTyped, PwInv, PopupShows, ConnectsAnAccount
<1> QED
  BY <1>3, <1>4, <1>5, PlacesMakeInv

\* A PIN that is being tried was asked for, in that window.
TriedTyped ==
  trying \in [{"popup", "main"} -> [PromptIds -> Nat]] /\ pinBusy \in [{"popup", "main"} -> BOOLEAN]
Tried ==
  /\ TriedTyped
  /\ \A w \in {"popup", "main"} : \A p \in PromptIds :
       trying[w][p] > 0 => prompt[p].window = w /\ prompt[p].kind = "pin"

LEMMA CancelPinKeeps ==
  ASSUME PwInv, NEW w \in {"popup", "main"}, CancelPin(w)
  PROVE  PwInv'
<1> DEFINE p == pinAsked[w]
<1>1. PwTyped /\ InPin
  BY ScreensAre DEF PwInv
<1>2. p # 0 /\ p \in PromptIds /\ prompt[p].window = w /\ prompt[p].kind = "pin"
  BY <1>1 DEF InPin, PwDrawn, PwTyped, CancelPin, PinOnScreen
<1>3. /\ prompt' = [prompt EXCEPT ![p].answer = "no"] /\ pinAsked' = [pinAsked EXCEPT ![w] = 0]
      /\ UNCHANGED <<pwOpen, pwActive, pwHello, popup, parked, hostList, hostPick, title, flash>>
  BY DEF CancelPin, PwAnswered
<1> HIDE DEF p
<1> QED
  BY <1>2, <1>3, PinEndsKeeps

LEMMA PinLandsKeeps ==
  ASSUME PwInv, Tried, NEW w \in {"popup", "main"}, NEW q \in PromptIds, NEW right \in BOOLEAN,
         PinLands(w, q, right)
  PROVE  PwInv'
<1>1. PwTyped /\ InPin /\ popup \in PopupRecs
  BY ScreensAre DEF PwInv, PwTyped
<1>2. /\ trying[w][q] > 0
      /\ IF right THEN PinRight(w, q) ELSE UNCHANGED <<prompt, pinAsked>>
      /\ UNCHANGED <<pwOpen, pwActive, pwHello, popup, parked, hostList, hostPick, title, flash>>
  BY DEF PinLands
<1>3. CASE ~right
  BY <1>1, <1>2, <1>3, ShowsKeep DEF PwTyped
<1>4. CASE right
  <2> DEFINE p == IF w = "popup" THEN q ELSE pinAsked[w]
  <2>1. /\ prompt' = IF p # 0 /\ PwWaiting(p) THEN [prompt EXCEPT ![p].answer = "unlocked"] ELSE prompt
        /\ pinAsked' = [pinAsked EXCEPT ![w] = 0]
    BY <1>2, <1>4 DEF PinRight
  <2>2. q \in PromptIds /\ prompt[q].window = w /\ prompt[q].kind = "pin"
    BY <1>2 DEF Tried
  <2>3. pinAsked[w] # 0 => pinAsked[w] \in PromptIds /\ prompt[pinAsked[w]].window = w /\ prompt[pinAsked[w]].kind = "pin"
    BY <1>1 DEF InPin, PwDrawn, PwTyped
  <2>4. p # 0 => p \in PromptIds /\ prompt[p].window = w /\ prompt[p].kind = "pin"
    BY <2>2, <2>3
  <2> HIDE DEF p
  <2>5. CASE p # 0 /\ PwWaiting(p)
    BY <1>2, <2>1, <2>4, <2>5, PinEndsKeeps
  <2>6. CASE ~(p # 0 /\ PwWaiting(p))
    BY <1>2, <2>1, <2>6, PinClosesKeeps
  <2> QED
    BY <2>5, <2>6
<1> QED
  BY <1>3, <1>4

LEMMA PinStepsKeep ==
  ASSUME PwInv, Tried, NEW w \in {"popup", "main"},
         \/ CancelPin(w) \/ PwSubmitPin(w)
         \/ \E q \in PromptIds, right \in BOOLEAN : PinLands(w, q, right)
  PROVE  PwInv'
<1>1. popup \in PopupRecs /\ PwTyped
  BY DEF PwInv, PwTyped
<1>2. CASE PwSubmitPin(w)
  BY <1>1, <1>2, ShowsKeep DEF PwSubmitPin, PwTyped
<1> QED
  BY <1>2, CancelPinKeeps, PinLandsKeeps

\* A request keeps its window and its kind, whatever is done to it.
LEMMA RequestsKept ==
  ASSUME PwInv, [PwNext]_pw_vars
  PROVE  \A p \in PromptIds : prompt[p].kind = "pin" =>
           prompt'[p].window = prompt[p].window /\ prompt'[p].kind = prompt[p].kind
<1> DEFINE Same(p) == prompt'[p].window = prompt[p].window /\ prompt'[p].kind = prompt[p].kind
<1> SUFFICES ASSUME NEW p \in PromptIds, prompt[p].kind = "pin" PROVE Same(p)
  OBVIOUS
<1>1. prompt \in [PromptIds -> PromptRecs] /\ Unasked.kind = "none" /\ DOMAIN pinAsked = {"popup", "main"}
  BY DEF PwInv, PwTyped, Unasked
<1>2. prompt[p] # Unasked /\ prompt[p] \in PromptRecs
  BY <1>1
<1>3. ASSUME prompt' = prompt PROVE Same(p)
  BY <1>3
<1>4. CASE PwUnlock
  BY <1>1, <1>2, <1>4 DEF PwUnlock, PromptRecs
<1>5. ASSUME NEW q \in PromptIds, NextPrompt(q), NEW o, prompt' = [prompt EXCEPT ![q] = o] PROVE Same(p)
  BY <1>1, <1>2, <1>5 DEF NextPrompt
<1>6. ASSUME NEW q \in PromptIds, Park(q) PROVE Same(p)
  BY <1>5, <1>6 DEF Park
<1>7. ASSUME NEW q \in PromptIds, NEW k \in PwKinds, AskInPopup(q, k) \/ AskInMain(q, k) PROVE Same(p)
  BY <1>5, <1>7 DEF AskInPopup, AskInMain
<1>8. ASSUME NEW q \in PromptIds, NEW w \in DOMAIN pinAsked, AskPin(q, w) PROVE Same(p)
  BY <1>5, <1>8 DEF AskPin
<1>9. ASSUME NEW q, NEW yes \in BOOLEAN, NEW a, prompt' = [prompt EXCEPT ![q] = PwEnded(q, yes, a)] PROVE Same(p)
  <2>1. CASE q = p
    <3>1. prompt'[p] = PwEnded(p, yes, a)
      BY <1>1, <1>9, <2>1
    <3>2. PwEnded(p, yes, a).window = prompt[p].window /\ PwEnded(p, yes, a).kind = prompt[p].kind
      BY <1>2 DEF PwEnded, PromptRecs
    <3> QED
      BY <3>1, <3>2
  <2>2. CASE q # p
    BY <1>1, <1>9, <2>2
  <2> QED
    BY <2>1, <2>2
<1>10. ASSUME NEW yes \in BOOLEAN, DecideInPopup(yes) PROVE Same(p)
  BY <1>9, <1>10 DEF DecideInPopup
<1>11. ASSUME NEW yes \in BOOLEAN, NEW i \in DOMAIN hostList, DecideInMain(i, yes) PROVE Same(p)
  BY <1>9, <1>11 DEF DecideInMain
<1>12. CASE EscapeInMain
  <2>1. PwEnded(p, FALSE, "none").window = prompt[p].window /\ PwEnded(p, FALSE, "none").kind = prompt[p].kind
    BY <1>2 DEF PwEnded, PromptRecs
  <2>2. prompt'[p] = IF p \in ToSet(hostList) THEN PwEnded(p, FALSE, "none") ELSE prompt[p]
    BY <1>12 DEF EscapeInMain
  <2> QED
    BY <2>1, <2>2
<1>13. ASSUME NEW q, NEW a, prompt' = [prompt EXCEPT ![q].answer = a] PROVE Same(p)
  BY <1>1, <1>2, <1>13 DEF PromptRecs
<1>14. ASSUME NEW w \in DOMAIN pinAsked, CancelPin(w) PROVE Same(p)
  BY <1>13, <1>14 DEF CancelPin, PwAnswered
<1>15. ASSUME NEW w \in DOMAIN pinAsked, NEW q \in PromptIds, NEW right \in BOOLEAN, PinLands(w, q, right) PROVE Same(p)
  BY <1>3, <1>13, <1>15 DEF PinLands, PinRight
<1>16. ASSUME \/ \E s \in DOMAIN flash : Alternate(s)
              \/ PwLock \/ AccountsRead \/ BalanceLands
              \/ \E a \in ToSet(PwAccounts) : ActiveChanges(a) \/ SelectInPopup(a) \/ PickInMain(a)
              \/ \E w \in DOMAIN pinAsked : PwSubmitPin(w) \/ TimePasses(w)
              \/ UNCHANGED pw_vars
       PROVE  Same(p)
  BY <1>3, <1>16 DEF Alternate, PwLock, AccountsRead, BalanceLands, ActiveChanges, SelectInPopup, PickInMain,
                     PwSubmitPin, TimePasses, pw_vars
<1> HIDE DEF Same
<1> QED
  BY <1>4, <1>6, <1>7, <1>8, <1>10, <1>11, <1>12, <1>14, <1>15, <1>16 DEF PwNext

\* What is being tried was tried before, or is what the dialog asked.
TriedFrom(v) ==
  \A p \in PromptIds : trying'[v][p] > 0 => trying[v][p] > 0 \/ (pinAsked[v] # 0 /\ p = pinAsked[v])

LEMMA TriesAre ==
  ASSUME PwInv, Tried, [PwNext]_pw_vars
  PROVE  TriedTyped' /\ \A v \in {"popup", "main"} : TriedFrom(v)
<1> DEFINE From == TriedTyped' /\ \A v \in {"popup", "main"} : TriedFrom(v)
<1>1. /\ trying \in [{"popup", "main"} -> [PromptIds -> Nat]] /\ pinBusy \in [{"popup", "main"} -> BOOLEAN]
      /\ pinAsked \in [{"popup", "main"} -> PromptIds \cup {0}] /\ DOMAIN pinAsked = {"popup", "main"}
  BY DEF Tried, TriedTyped, PwInv, PwTyped
<1>2. ASSUME trying' = trying, pinBusy' = pinBusy \/ \E v \in {"popup", "main"} : pinBusy' = Idled(v) PROVE From
  BY <1>1, <1>2 DEF TriedTyped, TriedFrom, Idled
<1>3. ASSUME NEW w \in {"popup", "main"}, NEW q \in PromptIds, NEW n \in Nat, NEW on \in BOOLEAN,
             trying' = [trying EXCEPT ![w][q] = n], pinBusy' = [pinBusy EXCEPT ![w] = on],
             n > 0 => trying[w][q] > 0 \/ (pinAsked[w] # 0 /\ q = pinAsked[w])
      PROVE  From
  <2>1. \A v \in {"popup", "main"} : \A p \in PromptIds :
          trying'[v][p] = IF v = w /\ p = q THEN n ELSE trying[v][p]
    BY <1>1, <1>3
  <2>2. TriedTyped'
    BY <1>1, <1>3 DEF TriedTyped
  <2> QED
    BY <1>3, <2>1, <2>2 DEF TriedFrom
<1>4. ASSUME NEW w \in DOMAIN pinAsked, PwSubmitPin(w) PROVE From
  <2>1. /\ w \in {"popup", "main"} /\ pinAsked[w] # 0 /\ pinAsked[w] \in PromptIds
        /\ trying' = [trying EXCEPT ![w][pinAsked[w]] = @ + 1] /\ pinBusy' = [pinBusy EXCEPT ![w] = TRUE]
    BY <1>1, <1>4 DEF PwSubmitPin, PinOnScreen
  <2> DEFINE q == pinAsked[w]
             n == trying[w][q] + 1
  <2>2. n \in Nat /\ trying' = [trying EXCEPT ![w][q] = n]
    BY <1>1, <2>1
  <2> HIDE DEF From, n
  <2> QED
    BY <1>3, <2>1, <2>2
<1>5. ASSUME NEW w \in DOMAIN pinAsked, NEW q \in PromptIds, NEW right \in BOOLEAN, PinLands(w, q, right) PROVE From
  <2>1. /\ w \in {"popup", "main"} /\ trying[w][q] > 0
        /\ trying' = [trying EXCEPT ![w][q] = @ - 1] /\ pinBusy' = [pinBusy EXCEPT ![w] = FALSE]
    BY <1>1, <1>5 DEF PinLands, Idled
  <2> DEFINE n == trying[w][q] - 1
  <2>2. n \in Nat /\ trying' = [trying EXCEPT ![w][q] = n]
    BY <1>1, <2>1
  <2> HIDE DEF From, n
  <2> QED
    BY <1>3, <2>1, <2>2
<1> HIDE DEF From
<1>6. ASSUME PwUnlock PROVE From
  BY <1>2, <1>6 DEF PwUnlock
<1>7. ASSUME NEW p \in PromptIds, NEW w \in DOMAIN pinAsked, AskPin(p, w) PROVE From
  BY <1>1, <1>2, <1>7 DEF AskPin
<1>8. ASSUME \/ \E s \in DOMAIN flash : Alternate(s)
             \/ PwLock \/ AccountsRead \/ BalanceLands
             \/ \E a \in ToSet(PwAccounts) : ActiveChanges(a) \/ SelectInPopup(a) \/ PickInMain(a)
             \/ \E w \in DOMAIN pinAsked : CancelPin(w) \/ TimePasses(w)
             \/ UNCHANGED pw_vars
      PROVE  From
  BY <1>2, <1>8 DEF Alternate, PwLock, AccountsRead, BalanceLands, ActiveChanges, SelectInPopup, PickInMain,
                    CancelPin, TimePasses, pw_vars
<1>9. ASSUME NEW p \in PromptIds, NEW k \in PwKinds, AskInPopup(p, k) \/ AskInMain(p, k) PROVE From
  BY <1>2, <1>9 DEF AskInPopup, AskInMain
<1>10. ASSUME NEW w \in DOMAIN pinAsked,
              PwSubmitPin(w) \/ \E q \in PromptIds, right \in BOOLEAN : PinLands(w, q, right)
       PROVE  From
  BY <1>4, <1>5, <1>10
<1>11. ASSUME NEW yes \in BOOLEAN, DecideInPopup(yes) \/ \E i \in DOMAIN hostList : DecideInMain(i, yes)
       PROVE  From
  BY <1>2, <1>11 DEF DecideInPopup, DecideInMain
<1>12. ASSUME EscapeInMain \/ \E p \in PromptIds : Park(p) PROVE From
  BY <1>2, <1>12 DEF EscapeInMain, Park
<1>13. From
  BY <1>6, <1>7, <1>8, <1>9, <1>10, <1>11, <1>12 DEF PwNext
<1> QED
  BY <1>13 DEF From

LEMMA TriedStep ==
  ASSUME PwInv, Tried, [PwNext]_pw_vars
  PROVE  Tried'
<1>1. TriedTyped' /\ \A v \in {"popup", "main"} : TriedFrom(v)
  BY TriesAre
<1>2. ASSUME NEW w \in {"popup", "main"}, NEW p \in PromptIds, trying'[w][p] > 0
      PROVE  prompt'[p].window = w /\ prompt'[p].kind = "pin"
  <2>1. prompt[p].window = w /\ prompt[p].kind = "pin"
    <3>1. CASE trying[w][p] > 0
      BY <3>1 DEF Tried
    <3>2. CASE pinAsked[w] # 0 /\ p = pinAsked[w]
      <4>1. InPin
        BY ScreensAre DEF PwInv
      <4> QED
        BY <3>2, <4>1 DEF InPin, PwDrawn
    <3> QED
      BY <1>1, <1>2, <3>1, <3>2 DEF TriedFrom
  <2> QED
    BY <2>1, RequestsKept
<1> QED
  BY <1>1, <1>2 DEF Tried

LEMMA PwInitInv ==
  ASSUME PwInit
  PROVE  PwInv /\ Tried
<1>1. Head(PwAccounts) \in Mine
  <2>1. 1 \in DOMAIN PwAccounts /\ Head(PwAccounts) = PwAccounts[1]
    BY PromptsAssumption
  <2> QED
    BY <2>1 DEF Mine, ToSet
<1>2. \A p \in PromptIds : prompt[p] = Unasked
  BY DEF PwInit
<1>3. Unasked \in PromptRecs /\ Unasked.kind = "none"
  BY DEF Unasked, PromptRecs
<1>4. prompt \in [PromptIds -> PromptRecs]
  BY <1>3 DEF PwInit
<1>5. hostList = <<>> /\ hostList \in Seq(PromptIds) /\ Len(hostList) = 0
  BY DEF PwInit
<1>6. flash \in [{"pending", "unlock"} -> [on : BOOLEAN, back : Titles]]
  <2>1. NoSignal \in [on : BOOLEAN, back : Titles]
    BY DEF NoSignal, Titles
  <2> QED
    BY <2>1 DEF PwInit
<1>7. popup \in PopupRecs /\ popup.pending = 0 /\ ~pwHello.sent
  BY DEF PwInit, PopupRecs
<1>8. PwTyped
  <2>1. pwActive \in Mine /\ hostPick = "none" /\ parked = {} /\ title \in Titles
    BY <1>1 DEF PwInit, Titles
  <2>2. pinAsked \in [{"popup", "main"} -> PromptIds \cup {0}]
    BY DEF PwInit
  <2> QED
    BY <1>4, <1>5, <1>6, <1>7, <2>1, <2>2 DEF PwTyped
<1>9. InMain /\ InPopup /\ InPin /\ InPark
  <2>1. 1..Len(hostList) = {} /\ parked = {} /\ \A w \in {"popup", "main"} : pinAsked[w] = 0
    BY <1>5 DEF PwInit
  <2> QED
    BY <1>7, <2>1 DEF InMain, InPopup, InPin, InPark
<1>10. ConnectsAnAccount /\ PopupShows
  BY <1>2, <1>3, <1>7 DEF ConnectsAnAccount, PopupShows
<1>11. Tried
  BY DEF PwInit, Tried, TriedTyped
<1> QED
  BY <1>8, <1>9, <1>10, <1>11, ScreensAre DEF PwInv

LEMMA PwStepInv == PwInv /\ Tried /\ [PwNext]_pw_vars => PwInv' /\ Tried'
<1> SUFFICES ASSUME PwInv, Tried, [PwNext]_pw_vars PROVE PwInv'
  BY TriedStep
<1>1. DOMAIN pinAsked = {"popup", "main"}
  BY DEF PwInv, PwTyped
<1>2. CASE PwUnlock
  BY <1>2, PwUnlockKeeps
<1>3. ASSUME NEW p \in PromptIds, Park(p) PROVE PwInv'
  BY <1>3, ParkKeeps
<1>4. ASSUME NEW p \in PromptIds, NEW k \in PwKinds, AskInPopup(p, k) \/ AskInMain(p, k) PROVE PwInv'
  BY <1>4, AskInPopupKeeps, AskInMainKeeps
<1>5. ASSUME NEW p \in PromptIds, NEW w \in DOMAIN pinAsked, AskPin(p, w) PROVE PwInv'
  BY <1>1, <1>5, AskPinKeeps
<1>6. ASSUME NEW yes \in BOOLEAN, DecideInPopup(yes) PROVE PwInv'
  BY <1>6, DecideInPopupKeeps
<1>7. ASSUME NEW yes \in BOOLEAN, NEW i \in DOMAIN hostList, DecideInMain(i, yes) PROVE PwInv'
  BY <1>7, DecideInMainKeeps
<1>8. CASE EscapeInMain
  BY <1>8, EscapeInMainKeeps
<1>9. ASSUME NEW w \in DOMAIN pinAsked,
             \/ CancelPin(w) \/ PwSubmitPin(w)
             \/ \E q \in PromptIds, right \in BOOLEAN : PinLands(w, q, right)
      PROVE  PwInv'
  BY <1>1, <1>9, PinStepsKeep
<1>10. ASSUME \/ \E s \in DOMAIN flash : Alternate(s)
              \/ PwLock \/ AccountsRead \/ BalanceLands
              \/ \E w \in DOMAIN pinAsked : TimePasses(w)
              \/ \E a \in ToSet(PwAccounts) : ActiveChanges(a) \/ SelectInPopup(a) \/ PickInMain(a)
              \/ UNCHANGED pw_vars
       PROVE  PwInv'
  BY <1>1, <1>10, QuietSteps DEF Mine
<1> QED
  BY <1>2, <1>3, <1>4, <1>5, <1>6, <1>7, <1>8, <1>9, <1>10 DEF PwNext

\* What either window draws waits for its answer, there and nowhere else.
THEOREM OnlyWaitingDrawn == PwSpec => []ScreensAskWhatWaits
<1>1. PwInit => PwInv /\ Tried
  BY PwInitInv
<1>2. PwInv => ScreensAskWhatWaits
  BY DEF PwInv
<1> QED
  BY <1>1, <1>2, PwStepInv, PTL DEF PwSpec

\* A connection that was approved has an account of the wallet.
THEOREM ConnectedToAnAccount == PwSpec => []ConnectsAnAccount
<1>1. PwInit => PwInv /\ Tried
  BY PwInitInv
<1>2. PwInv => ConnectsAnAccount
  BY DEF PwInv
<1> QED
  BY <1>1, <1>2, PwStepInv, PTL DEF PwSpec

LEMMA PwTypes == PwInv /\ Tried => PwTypeOK
<1> SUFFICES ASSUME PwInv, Tried PROVE PwTypeOK
  OBVIOUS
<1>1. popup.selected \in Mine \cup {"none"}
  BY DEF PwInv, PwTyped, PopupRecs
<1> QED
  BY <1>1 DEF PwInv, PwTyped, PwTypeOK, Mine, Tried, TriedTyped

-----------------------------------------------------------------------------
(***************************************************************************)
(* PrivatePanels, for any accounts, balances and typed amounts and any     *)
(* number of refreshes and operations.                                     *)
(***************************************************************************)

\* Whoever has the seed of the recipient finds a stealth send, can read its amount and
\* can claim it, nobody else can, and two sends share no tag (stealth/index.ts
\* prepareStealthSend, decryptStealthAmount); for any accounts and amounts.
THEOREM StealthForTheRecipient == StealthIsForTheRecipient
<1> SUFFICES ASSUME NEW to \in PpWallets, NEW other \in PpWallets, NEW text \in StealthTexts
             PROVE  LET sent == prepareStealthSend("eph", EdPublic(to), text)
                        Found(seed) == ecdhSharedSecret(ed25519SkToX25519(seed), sent.ephemeralPubkey)
                    IN  /\ computeStealthTag(Found(to)) = sent.stealthTag
                        /\ decryptStealthAmount(Found(to), sent.amountPayload) = text
                        /\ computeClaimPub(computeClaimSecret(Found(to))) = sent.claimPub
                        /\ other # to => /\ computeStealthTag(Found(other)) # sent.stealthTag
                                         /\ decryptStealthAmount(Found(other), sent.amountPayload) = <<"refused">>
                        /\ prepareStealthSend("eph2", EdPublic(to), text).stealthTag # sent.stealthTag
  BY DEF StealthIsForTheRecipient
<1> DEFINE secret == [sha256 |-> {"eph"} \cup {to}]
           sent == prepareStealthSend("eph", EdPublic(to), text)
           Found(seed) == ecdhSharedSecret(ed25519SkToX25519(seed), sent.ephemeralPubkey)
           noise == [i \in 1..BlindingLength |-> "r"]
<1>1. /\ sent.ephemeralPubkey = {"eph"} /\ sent.stealthTag = computeStealthTag(secret)
      /\ sent.claimPub = computeClaimPub(computeClaimSecret(secret))
      /\ sent.amountPayload = [key |-> deriveAmountKey(secret), plaintext |-> text \o noise]
  BY DEF prepareStealthSend, ecdhSharedSecret, ed25519PkToX25519, EdPublic, scalarMult,
         scalarMultBase, encryptStealthAmount
<1>2. \A seed : Found(seed) = [sha256 |-> {seed} \cup {"eph"}]
  BY <1>1 DEF ecdhSharedSecret, ed25519SkToX25519, scalarMult
<1>3. Found(to) = secret
  BY <1>2
<1>4. \A x, y : computeStealthTag(x) = computeStealthTag(y) => x = y
  BY DEF computeStealthTag
<1>5. \A x, y : deriveAmountKey(x) = deriveAmountKey(y) => x = y
  BY DEF deriveAmountKey
<1>6. SubSeq(text \o noise, 1, Len(text \o noise) - BlindingLength) = text
  <2>1. text \in Seq(STRING) /\ Len(text) \in Nat /\ \A i \in 1..Len(text) : text[i] \in STRING
    BY LenProperties, PpAssumption
  <2> DEFINE Chars == STRING \cup {"r"}
             n == Len(text)
             whole == text \o noise
  <2>2. noise \in Seq(Chars) /\ Len(noise) = 32 /\ BlindingLength = 32
    BY IsASeq DEF BlindingLength
  <2>3. text \in Seq(Chars)
    BY <2>1, IsASeq
  <2> HIDE DEF Chars, noise
  <2>4. /\ whole \in Seq(Chars) /\ Len(whole) = n + 32
        /\ \A i \in 1..n : whole[i] = text[i]
    <3>1. /\ whole \in Seq(Chars) /\ Len(whole) = Len(text) + Len(noise)
          /\ \A i \in 1..Len(text) + Len(noise) :
               whole[i] = IF i <= Len(text) THEN text[i] ELSE noise[i - Len(text)]
      BY <2>2, <2>3, ConcatProperties
    <3>2. \A i \in 1..n : i \in 1..Len(text) + Len(noise) /\ i <= Len(text)
      BY <2>1, <2>2
    <3> HIDE DEF whole
    <3> QED
      BY <2>2, <3>1, <3>2
  <2> HIDE DEF whole
  <2>5. n \in Int /\ 1 \in Int /\ Len(whole) - BlindingLength = n /\ \A i \in 1..n : whole[i] \in Chars
    BY <2>1, <2>2, <2>3, <2>4, LenProperties
  <2> HIDE DEF n
  <2>6. /\ SubSeq(whole, 1, n) \in Seq(Chars)
        /\ Len(SubSeq(whole, 1, n)) = IF 1 <= n THEN n - 1 + 1 ELSE 0
        /\ \A i \in 1..n - 1 + 1 : SubSeq(whole, 1, n)[i] = whole[1 + i - 1]
    BY <2>5, SubSeqProperties
  <2>7. Len(SubSeq(whole, 1, n)) = n /\ \A i \in 1..n : SubSeq(whole, 1, n)[i] = text[i]
    BY <2>1, <2>4, <2>6 DEF n
  <2>8. SubSeq(whole, 1, n) = text
    BY <2>3, <2>6, <2>7, SeqEqual DEF n
  <2> QED
    BY <2>5, <2>8 DEF whole
<1>7. decryptStealthAmount(secret, sent.amountPayload) = text
  <2> HIDE DEF noise, secret, sent
  <2>1. /\ sent.amountPayload.key = deriveAmountKey(secret)
        /\ sent.amountPayload.plaintext = text \o noise
    BY <1>1
  <2> QED
    BY <1>6, <2>1 DEF decryptStealthAmount
<1>8. ASSUME other # to PROVE Found(other) # secret
  <2>1. {other} \cup {"eph"} # {"eph"} \cup {to}
    BY <1>8
  <2>2. secret.sha256 = {"eph"} \cup {to}
    OBVIOUS
  <2>3. Found(other) = [sha256 |-> {other} \cup {"eph"}]
    BY <1>2
  <2> HIDE DEF Found, secret
  <2>4. Found(other).sha256 = {other} \cup {"eph"}
    BY <2>3
  <2> QED
    BY <2>1, <2>2, <2>4
<1>9. prepareStealthSend("eph2", EdPublic(to), text).stealthTag # sent.stealthTag
  <2> DEFINE again == [sha256 |-> {"eph2"} \cup {to}]
  <2>1. prepareStealthSend("eph2", EdPublic(to), text).stealthTag = computeStealthTag(again)
    BY DEF prepareStealthSend, ecdhSharedSecret, ed25519PkToX25519, EdPublic, scalarMult
  <2>2. again # secret
    <3>1. {"eph2"} \cup {to} # {"eph"} \cup {to}
      OBVIOUS
    <3> QED
      BY <3>1
  <2> HIDE DEF again, secret, sent
  <2> QED
    BY <1>1, <1>4, <2>1, <2>2
<1>10. other # to => decryptStealthAmount(Found(other), sent.amountPayload) = <<"refused">>
  <2> HIDE DEF noise, secret, sent, Found
  <2> QED
    BY <1>1, <1>5, <1>8 DEF decryptStealthAmount
<1> HIDE DEF secret
<1> QED
  BY <1>1, <1>3, <1>4, <1>7, <1>8, <1>9, <1>10

-----------------------------------------------------------------------------
(* The steps of an operation.                                              *)

PpKinds == {"encrypt", "decrypt", "stealth"}
StepNames ==
  {"validate", "fetch-pubkey", "convert-key", "ephemeral", "ecdh", "stealth-tag", "claim-key",
   "encrypt-amount", "nonce", "payload", "sign", "submit", "pvac-init", "pvac-register",
   "read-balance", "decrypt-balance", "fhe-encrypt", "commit", "zero-proof", "cache", "ct-sub",
   "commit-balance", "range-proof", "verify"}

\* What is in a list is in it when it goes on.
LEMMA JoinHas ==
  ASSUME NEW S, NEW a \in Seq(S), NEW b \in Seq(S), NEW x, \E i \in 1..Len(a) : a[i] = x
  PROVE  \E i \in 1..Len(a \o b) : (a \o b)[i] = x
<1> DEFINE c == a \o b
<1>1. Len(a) \in Nat /\ Len(b) \in Nat
  BY LenProperties
<1>2. /\ Len(c) = Len(a) + Len(b)
      /\ \A i \in 1..Len(a) + Len(b) : c[i] = IF i <= Len(a) THEN a[i] ELSE b[i - Len(a)]
  BY ConcatProperties
<1> HIDE DEF c
<1>3. \E i \in 1..Len(c) : c[i] = x
  BY <1>1, <1>2
<1> QED
  BY <1>3 DEF c

LEMMA BegunHas ==
  ASSUME NEW kind \in PpKinds
  PROVE  /\ BegunSteps(kind) \in Seq(StepNames)
         /\ \A x \in {"nonce", "submit"} :
              \E i \in 1..Len(BegunSteps(kind)) : BegunSteps(kind)[i] = x
<1> DEFINE enc == <<"fhe-encrypt", "commit", "zero-proof", "payload">>
           dec == <<"fhe-encrypt", "commit", "ct-sub", "commit-balance", "zero-proof", "range-proof", "verify", "payload">>
           all == <<"validate", "fetch-pubkey", "convert-key", "ephemeral", "ecdh", "stealth-tag",
                    "claim-key", "encrypt-amount", "nonce", "payload", "sign", "submit">>
<1>1. /\ READ_STEPS \in Seq(StepNames) /\ Submitted \in Seq(StepNames)
      /\ enc \in Seq(StepNames) /\ dec \in Seq(StepNames)
  BY DEF READ_STEPS, Submitted, StepNames
<1>2. all \in Seq(StepNames) /\ Len(all) = 12 /\ all[9] = "nonce" /\ all[12] = "submit"
  BY DEF StepNames
<1>3. /\ \E i \in 1..Len(READ_STEPS) : READ_STEPS[i] = "nonce"
      /\ \E i \in 1..Len(Submitted) : Submitted[i] = "submit"
  <2>1. Len(READ_STEPS) = 5 /\ READ_STEPS[5] = "nonce" /\ Len(Submitted) = 3 /\ Submitted[2] = "submit"
    BY DEF READ_STEPS, Submitted
  <2> QED
    BY <2>1
<1> HIDE DEF all, enc, dec
<1>4. ASSUME NEW mid \in Seq(StepNames)
      PROVE  /\ READ_STEPS \o mid \o Submitted \in Seq(StepNames)
             /\ \A x \in {"nonce", "submit"} :
                  \E i \in 1..Len(READ_STEPS \o mid \o Submitted) : (READ_STEPS \o mid \o Submitted)[i] = x
  <2> DEFINE first == READ_STEPS \o mid
  <2>1. first \in Seq(StepNames) /\ \E i \in 1..Len(first) : first[i] = "nonce"
    BY <1>1, <1>3, ConcatProperties, JoinHas
  <2> HIDE DEF first
  <2>2. first \o Submitted \in Seq(StepNames)
    BY <1>1, <2>1, ConcatProperties
  <2>3. \E i \in 1..Len(first \o Submitted) : (first \o Submitted)[i] = "nonce"
    BY <1>1, <2>1, JoinHas
  <2>4. \E i \in 1..Len(first \o Submitted) : (first \o Submitted)[i] = "submit"
    <3> DEFINE n == Len(first)
               c == first \o Submitted
    <3>1. /\ n \in Nat /\ Len(Submitted) = 3 /\ Submitted[2] = "submit"
          /\ first \in Seq(StepNames) /\ Submitted \in Seq(StepNames)
      BY <1>1, <2>1, LenProperties DEF Submitted
    <3>2. /\ Len(c) = n + Len(Submitted)
          /\ \A i \in 1..n + Len(Submitted) : c[i] = IF i <= n THEN first[i] ELSE Submitted[i - n]
      BY <3>1, ConcatProperties
    <3> HIDE DEF n, c
    <3>3. n + 2 \in 1..n + 3 /\ ~(n + 2 <= n) /\ (n + 2) - n = 2
      BY <3>1
    <3>4. n + 2 \in 1..Len(c) /\ c[n + 2] = "submit"
      BY <3>1, <3>2, <3>3
    <3>5. \E i \in 1..Len(c) : c[i] = "submit"
      BY <3>4
    <3> QED
      BY <3>5 DEF c
  <2> QED
    BY <2>2, <2>3, <2>4 DEF first
<1>5. CASE kind = "encrypt"
  <2>1. BegunSteps(kind) = READ_STEPS \o enc \o Submitted
    BY <1>5 DEF BegunSteps, enc
  <2> QED
    BY <1>1, <1>4, <2>1
<1>6. CASE kind = "decrypt"
  <2>1. BegunSteps(kind) = READ_STEPS \o dec \o Submitted
    BY <1>6 DEF BegunSteps, dec
  <2> QED
    BY <1>1, <1>4, <2>1
<1>7. CASE kind = "stealth"
  <2>1. BegunSteps(kind) = all
    BY <1>7 DEF BegunSteps, all
  <2>2. 9 \in 1..Len(all) /\ 12 \in 1..Len(all)
    BY <1>2
  <2> QED
    BY <1>2, <2>1, <2>2
<1> QED
  BY <1>5, <1>6, <1>7 DEF PpKinds

\* Of the steps followed, one reads the nonce and one submits.
LEMMA StepsHave ==
  ASSUME NEW kind \in PpKinds
  PROVE  /\ Len(Steps(kind)) \in Nat
         /\ \A x \in {"nonce", "submit"} : \E i \in 1..Len(Steps(kind)) : Steps(kind)[i] = x
<1> DEFINE b == BegunSteps(kind)
           I == {i \in DOMAIN b : b[i] \in PpFollowed}
<1>1. b \in Seq(StepNames) /\ \A x \in {"nonce", "submit"} : \E i \in 1..Len(b) : b[i] = x
  BY BegunHas
<1>2. Steps(kind) = Filtered(b, I)
  BY DEF Steps, Followed
<1> HIDE DEF b
<1>3. DOMAIN b = 1..Len(b) /\ Len(b) \in Nat
  BY <1>1, LenProperties
<1>4. I \in SUBSET (1..Len(b)) /\ \A i \in 1..Len(b) : i \in I <=> b[i] \in PpFollowed
  BY <1>3
<1> HIDE DEF I
<1>5. /\ Cardinality(I) \in Nat /\ Len(Filtered(b, I)) = Cardinality(I)
      /\ \A k \in 1..Cardinality(I) : Filtered(b, I)[k] = b[Nth(I, k)]
      /\ \A i \in I : \E k \in 1..Cardinality(I) : Nth(I, k) = i
  BY <1>1, <1>4, FilteredIs
<1>6. ASSUME NEW x \in {"nonce", "submit"}
      PROVE  \E k \in 1..Cardinality(I) : Filtered(b, I)[k] = x
  <2>1. PICK i \in 1..Len(b) : b[i] = x
    BY <1>1
  <2>2. i \in I
    BY <1>4, <2>1, PpAssumption
  <2> QED
    BY <1>5, <2>1, <2>2
<1> QED
  BY <1>2, <1>5, <1>6

-----------------------------------------------------------------------------
(* What is on the pages and in the operations.                             *)

AmountTexts == PpTyped \cup {""} \cup {ToString(n) : n \in Int}
Shown   == {Unknown} \cup {<<n>> : n \in Int}
PpPages ==
  [page : {"private", "stealth", "other"}, mount : Nat, mode : {"encrypt", "decrypt"},
   amount : AmountTexts, public : Shown, encrypted : Shown, of : PpWallets \cup {"none"},
   loading : BOOLEAN, to : PpWallets \cup {""}, pin : BOOLEAN, confirm : BOOLEAN, result : BOOLEAN]
PpJobs ==
  [pc : {"works", "failed", "succeeded"}, step : Nat, kind : PpKinds, of : PpWallets,
   amount : AmountTexts, mount : Nat, after : {<<>>} \cup {<<b>> : b \in [pub : Int, enc : Int]},
   sent : BOOLEAN]

PpTyping ==
  /\ ppWallet \in PpWallets /\ pp \in PpPages /\ ppTurns \in Nat
  /\ ppChain \in [PpWallets -> [pub : Nat, enc : Nat]]
  /\ ppJob \in [PpJobIds -> PpJobs \cup {PpNoJob}]

\* What an amount is read as, and the steps that an operation has behind it.
TextRaw(text)   == IF text \in DOMAIN PpRaw THEN PpRaw[text] ELSE 0
Passed(q, s) == \E i \in 1..q.step : Steps(q.kind)[i] = s

\* An operation moves what its amount is read as, has submitted once its step of that name
\* is behind it, and knows the balances after once the nonce is.
GoesRight(q) ==
  /\ q.kind # "stealth" => TextRaw(q.amount) > 0
  /\ Passed(q, "submit") => q.sent
  /\ Passed(q, "nonce") => q.after # <<>>
  /\ q.pc = "succeeded" => q.sent

PpInv ==
  /\ PpTyping
  /\ \A j \in PpJobIds : ppJob[j] # PpNoJob => GoesRight(ppJob[j])

LEMMA ReadIsNat == \A text : TextRaw(text) \in Nat
<1>1. ASSUME NEW text \in DOMAIN PpRaw PROVE PpRaw[text] \in Nat
  <2>1. PICK n \in 0..PpMost : text = ToString(n)
    BY <1>1 DEF PpRaw
  <2>2. PpRaw[text] \in 0..PpMost
    BY <1>1, <2>1 DEF PpRaw
  <2> QED
    BY <2>2, PpAssumption
<1> QED
  BY <1>1 DEF TextRaw

LEMMA RawIsRead == \A j \in PpJobIds : JobRaw(j) = TextRaw(ppJob[j].amount)
BY DEF JobRaw, TextRaw

LEMMA PpJobsAreThere == \A q \in PpJobs : q # PpNoJob
BY DEF PpJobs, PpNoJob

LEMMA BlankPage ==
  ASSUME NEW page \in {"private", "stealth", "other"}, NEW mount \in Nat
  PROVE  PpBlank(page, mount) \in PpPages /\ [PpBlank(page, mount) EXCEPT !.loading = TRUE] \in PpPages
BY DEF PpBlank, PpPages, AmountTexts, Shown

LEMMA PpInitInv == PpInit => PpInv
<1> SUFFICES ASSUME PpInit PROVE PpInv
  OBVIOUS
<1>1. pp \in PpPages
  <2>1. PpBlank("stealth", 0) \in PpPages /\ [PpBlank("private", 0) EXCEPT !.loading = TRUE] \in PpPages
    BY BlankPage
  <2> QED
    BY <2>1 DEF PpInit
<1>2. PpTyping
  <2>1. \A a \in PpWallets : PpStart[a] \in Nat
    BY PpAssumption
  <2> QED
    BY <1>1, <2>1 DEF PpInit, PpTyping
<1> QED
  BY <1>2 DEF PpInit, PpInv

-----------------------------------------------------------------------------
(* What the pages do leaves the operations and the node alone.             *)

LEMMA PagesKeep ==
  ASSUME PpInv, pp' \in PpPages, ppWallet' \in PpWallets, ppTurns' \in Nat,
         ppJob' = ppJob, ppChain' = ppChain
  PROVE  PpInv'
<1>1. PpTyping'
  BY DEF PpInv, PpTyping
<1> QED
  BY <1>1 DEF PpInv, GoesRight, Passed

LEMMA PpTurnCounts == PpInv /\ PpTurn => ppTurns' \in Nat
BY DEF PpInv, PpTyping, PpTurn

LEMMA OpeningKeeps ==
  ASSUME PpInv, (\E page \in {"private", "stealth", "other"} : OpenPage(page))
                \/ (\E a \in PpWallets : SwitchPpWallet(a)) \/ PressRefresh
  PROVE  PpInv'
<1>0. pp \in PpPages /\ ppWallet \in PpWallets
  BY DEF PpInv, PpTyping
<1>1. ASSUME NEW page \in {"private", "stealth", "other"}, OpenPage(page) PROVE PpInv'
  <2>1. ppTurns' \in Nat
    BY <1>1, PpTurnCounts DEF OpenPage
  <2>2. pp' \in PpPages
    BY <1>1, <2>1, BlankPage DEF OpenPage, RefreshBalances
  <2> QED
    BY <1>0, <1>1, <2>1, <2>2, PagesKeep DEF OpenPage
<1>2. [pp EXCEPT !.loading = TRUE] \in PpPages
  BY <1>0 DEF PpPages
<1>3. ASSUME NEW a \in PpWallets, SwitchPpWallet(a) PROVE PpInv'
  <2>1. ppTurns' \in Nat
    BY <1>3, PpTurnCounts DEF SwitchPpWallet
  <2>2. pp' \in PpPages
    BY <1>0, <1>2, <1>3 DEF SwitchPpWallet, RefreshBalances
  <2> QED
    BY <1>3, <2>1, <2>2, PagesKeep DEF SwitchPpWallet
<1>4. CASE PressRefresh
  <2>1. ppTurns' \in Nat
    BY <1>4, PpTurnCounts DEF PressRefresh
  <2>2. pp' \in PpPages
    BY <1>0, <1>2, <1>4 DEF PressRefresh, RefreshBalances
  <2> QED
    BY <1>0, <1>4, <2>1, <2>2, PagesKeep DEF PressRefresh
<1> QED
  BY <1>1, <1>3, <1>4

LEMMA ReadLandsKeeps ==
  ASSUME PpInv, NEW r \in PpReadIds, ReadLands(r)
  PROVE  PpInv'
<1> DEFINE q == ppReads[r]
           told == [pp EXCEPT !.loading = FALSE]
<1>0. pp \in PpPages /\ ppWallet \in PpWallets /\ ppTurns \in Nat
  BY DEF PpInv, PpTyping
<1>1. q.of \in PpWallets /\ ppChain[q.of].pub \in Int /\ ppChain[q.of].enc \in Int
  BY DEF ReadLands, PpInv, PpTyping
<1>2. told \in PpPages
  BY <1>0 DEF PpPages
<1>3. \A enc \in {0, ppChain[q.of].enc} :
        [told EXCEPT !.public = <<ppChain[q.of].pub>>, !.encrypted = <<enc>>, !.of = q.of] \in PpPages
  <2>1. \A enc \in {0, ppChain[q.of].enc} : <<enc>> \in Shown /\ <<ppChain[q.of].pub>> \in Shown
    BY <1>1 DEF Shown
  <2> HIDE DEF q, told
  <2> QED
    BY <1>1, <1>2, <2>1 DEF PpPages
<1>4. pp' \in PpPages
  <2>1. \/ pp' = pp \/ pp' = told
        \/ \E enc \in {0, ppChain[q.of].enc} :
             pp' = [told EXCEPT !.public = <<ppChain[q.of].pub>>, !.encrypted = <<enc>>, !.of = q.of]
    BY DEF ReadLands
  <2> HIDE DEF q, told
  <2> QED
    BY <1>0, <1>2, <1>3, <2>1
<1> QED
  BY <1>0, <1>4, PagesKeep DEF ReadLands

LEMMA PpFieldsKeep ==
  ASSUME PpInv, (\E mode \in {"encrypt", "decrypt"} : ChooseMode(mode))
                \/ (\E x \in PpTyped : TypeAmount(x)) \/ (\E a \in PpWallets : TypeRecipient(a))
                \/ maxAmount \/ RequestJob \/ CancelConfirm \/ ConfirmNothing \/ ClosePpModal
  PROVE  PpInv'
<1>0. pp \in PpPages /\ ppWallet \in PpWallets /\ ppTurns \in Nat
  BY DEF PpInv, PpTyping
<1>1. ASSUME NEW mode \in {"encrypt", "decrypt"}, ChooseMode(mode) PROVE pp' \in PpPages
  BY <1>0, <1>1 DEF ChooseMode, PpPages, AmountTexts
<1>2. ASSUME NEW x \in PpTyped, TypeAmount(x) PROVE pp' \in PpPages
  <2>1. x \in AmountTexts
    BY DEF AmountTexts
  <2> QED
    BY <1>0, <1>2, <2>1 DEF TypeAmount, PpPages
<1>3. ASSUME NEW a \in PpWallets, TypeRecipient(a) PROVE pp' \in PpPages
  BY <1>0, <1>3 DEF TypeRecipient, PpPages
<1>4. ASSUME maxAmount PROVE pp' \in PpPages
  <2> DEFINE source == IF pp.mode = "encrypt" THEN pp.public ELSE pp.encrypted
             fee    == IF pp.mode = "encrypt" THEN PpFee ELSE 0
             max    == IF source[1] > fee THEN source[1] - fee ELSE 0
  <2>1. pp' = [pp EXCEPT !.amount = ToString(max)] /\ source # Unknown
    BY <1>4 DEF maxAmount
  <2>2. source \in Shown /\ fee \in Int
    <3>1. pp.public \in Shown /\ pp.encrypted \in Shown
      BY <1>0 DEF PpPages
    <3> QED
      BY <3>1, PpAssumption
  <2> HIDE DEF source, fee
  <2>3. source[1] \in Int
    BY <2>1, <2>2 DEF Shown
  <2>4. max \in Int
    BY <2>2, <2>3
  <2> HIDE DEF max
  <2>5. ToString(max) \in AmountTexts
    BY <2>4 DEF AmountTexts
  <2> DEFINE text == ToString(max)
  <2> HIDE DEF text
  <2>6. pp' = [pp EXCEPT !.amount = text] /\ text \in AmountTexts
    BY <2>1, <2>5 DEF text
  <2> QED
    BY <1>0, <2>6 DEF PpPages
<1>5. ASSUME RequestJob \/ CancelConfirm \/ ConfirmNothing \/ ClosePpModal PROVE pp' \in PpPages
  <2>1. \A b \in BOOLEAN : [pp EXCEPT !.confirm = b] \in PpPages
    BY <1>0 DEF PpPages
  <2>2. pp' = pp \/ \E b \in BOOLEAN : pp' = [pp EXCEPT !.confirm = b]
    BY <1>5 DEF RequestJob, CancelConfirm, ConfirmNothing, ClosePpModal
  <2> QED
    BY <1>0, <2>1, <2>2
<1>6. pp' \in PpPages /\ UNCHANGED <<ppWallet, ppTurns, ppJob, ppChain>>
  <2>1. pp' \in PpPages
    BY <1>1, <1>2, <1>3, <1>4, <1>5
  <2>2. UNCHANGED <<ppWallet, ppTurns, ppJob, ppChain>>
    BY DEF ChooseMode, TypeAmount, TypeRecipient, maxAmount, RequestJob, CancelConfirm, ConfirmNothing, ClosePpModal
  <2> QED
    BY <2>1, <2>2
<1> QED
  BY <1>0, <1>6, PagesKeep

-----------------------------------------------------------------------------
(* The operations.                                                         *)

LEMMA OneJobKeeps ==
  ASSUME PpInv, NEW j \in PpJobIds, NEW q \in PpJobs, GoesRight(q), ppJob' = [ppJob EXCEPT ![j] = q],
         pp' \in PpPages, ppTurns' \in Nat, ppWallet' = ppWallet,
         ppChain' \in [PpWallets -> [pub : Nat, enc : Nat]]
  PROVE  PpInv'
<1>1. PpTyping'
  BY DEF PpInv, PpTyping
<1>2. ASSUME NEW i \in PpJobIds, ppJob'[i] # PpNoJob PROVE GoesRight(ppJob'[i])
  <2>1. ppJob'[i] = IF i = j THEN q ELSE ppJob[i]
    BY DEF PpInv, PpTyping
  <2> QED
    BY <1>2, <2>1 DEF PpInv
<1>3. \A i \in PpJobIds : (ppJob[i] # PpNoJob)' => GoesRight(ppJob[i])'
  BY <1>2 DEF GoesRight, Passed
<1> QED
  BY <1>1, <1>3 DEF PpInv

LEMMA ConfirmJobKeeps ==
  ASSUME PpInv, NEW j \in PpJobIds, ConfirmJob(j)
  PROVE  PpInv'
<1> DEFINE kind == IF pp.page = "stealth" THEN "stealth" ELSE pp.mode
           q == [pc |-> "works", step |-> 0, kind |-> kind, of |-> ppWallet,
                 amount |-> pp.amount, mount |-> pp.mount, after |-> <<>>, sent |-> FALSE]
<1>0. pp \in PpPages /\ ppWallet \in PpWallets /\ ppTurns \in Nat
      /\ ppChain \in [PpWallets -> [pub : Nat, enc : Nat]]
  BY DEF PpInv, PpTyping
<1>1. ppJob' = [ppJob EXCEPT ![j] = q] /\ FormHolds /\ ppWallet' = ppWallet /\ ppChain' = ppChain
      /\ pp' = [pp EXCEPT !.confirm = FALSE, !.result = FALSE] /\ PpTurn
  BY DEF ConfirmJob
<1>2. kind \in PpKinds /\ q \in PpJobs
  BY <1>0 DEF PpPages, PpJobs, PpKinds
<1>3. kind # "stealth" => TextRaw(q.amount) > 0
  BY <1>1 DEF FormHolds, PpValidAmount, TextRaw
<1>4. GoesRight(q)
  BY <1>3 DEF GoesRight, Passed
<1>5. pp' \in PpPages /\ ppTurns' \in Nat
  BY <1>0, <1>1, PpTurnCounts DEF PpPages
<1> HIDE DEF q
<1> QED
  BY <1>0, <1>1, <1>2, <1>4, <1>5, OneJobKeeps

\* Taking a transaction leaves no balance below zero.
LEMMA TakenKeepsNat ==
  ASSUME PpInv, NEW j \in PpJobIds, ppJob[j] # PpNoJob, NodeTakes(j)
  PROVE  ppChain' \in [PpWallets -> [pub : Nat, enc : Nat]]
<1> DEFINE q == ppJob[j]
           c == ppChain[q.of]
           n == JobRaw(j)
<1>1. q \in PpJobs /\ ppChain \in [PpWallets -> [pub : Nat, enc : Nat]]
  BY DEF PpInv, PpTyping
<1>2. q.kind \in PpKinds /\ q.of \in PpWallets /\ n \in Nat /\ PpFee \in Nat
  BY <1>1, RawIsRead, ReadIsNat, PpAssumption DEF PpJobs
<1>3. c \in [pub : Nat, enc : Nat] /\ c.pub \in Nat /\ c.enc \in Nat
  BY <1>1, <1>2
<1>4. PpCovers(q.kind, c, n) /\ ppChain' = [ppChain EXCEPT ![q.of] = PpAfter(q.kind, c, n)]
  BY <1>1, <1>2 DEF NodeTakes
<1> HIDE DEF q, c, n
<1>5. PpAfter(q.kind, c, n) \in [pub : Nat, enc : Nat]
  <2>1. CASE q.kind = "encrypt"
    BY <1>2, <1>3, <1>4, <2>1 DEF PpAfter, PpCovers
  <2>2. CASE q.kind = "decrypt"
    BY <1>2, <1>3, <1>4, <2>2 DEF PpAfter, PpCovers
  <2>3. CASE q.kind = "stealth"
    BY <1>2, <1>3, <1>4, <2>3 DEF PpAfter, PpCovers
  <2> QED
    BY <1>2, <2>1, <2>2, <2>3 DEF PpKinds
<1> QED
  BY <1>1, <1>2, <1>4, <1>5

LEMMA AfterIsInt ==
  ASSUME NEW kind \in PpKinds, NEW c \in [pub : Nat, enc : Nat], NEW n \in Nat
  PROVE  PpAfter(kind, c, n) \in [pub : Int, enc : Int]
<1>1. c.pub \in Nat /\ c.enc \in Nat /\ PpFee \in Nat
  BY PpAssumption
<1> QED
  BY <1>1 DEF PpAfter, PpKinds

LEMMA StepEndsKeeps ==
  ASSUME PpInv, NEW j \in PpJobIds, StepEnds(j)
  PROVE  PpInv'
<1> DEFINE q == ppJob[j]
           c == ppChain[q.of]
           s == PpStep(j)
           new == [q EXCEPT !.step = @ + 1, !.sent = @ \/ s = "submit",
                            !.after = IF s = "nonce" THEN <<PpAfter(q.kind, c, JobRaw(j))>> ELSE @]
<1>1. q # PpNoJob /\ q \in PpJobs
  <2>1. q.pc = "works"
    BY DEF StepEnds, PpWorks
  <2> QED
    BY <2>1 DEF PpInv, PpTyping, PpNoJob
<1>2. /\ ppChain \in [PpWallets -> [pub : Nat, enc : Nat]] /\ pp \in PpPages /\ ppTurns \in Nat
      /\ ppJob \in [PpJobIds -> PpJobs \cup {PpNoJob}]
  BY DEF PpInv, PpTyping
<1>3. ppJob' = [ppJob EXCEPT ![j] = new]
  <2>1. ppJob' = [ppJob EXCEPT ![j].step = @ + 1, ![j].sent = @ \/ s = "submit",
                    ![j].after = IF s = "nonce" THEN <<PpAfter(q.kind, c, JobRaw(j))>> ELSE @]
    BY DEF StepEnds
  <2> HIDE DEF s, c
  <2> QED
    BY <1>1, <1>2, <2>1
<1>4. ppChain' \in [PpWallets -> [pub : Nat, enc : Nat]]
  BY <1>1, <1>2, TakenKeepsNat DEF StepEnds
<1>5. /\ q.step \in Nat /\ q.kind \in PpKinds /\ q.of \in PpWallets /\ q.sent \in BOOLEAN
      /\ q.after \in {<<>>} \cup {<<b>> : b \in [pub : Int, enc : Int]}
  BY <1>1 DEF PpJobs
<1>6. PpAfter(q.kind, c, JobRaw(j)) \in [pub : Int, enc : Int]
  BY <1>2, <1>5, RawIsRead, ReadIsNat, AfterIsInt
<1>7. new \in PpJobs
  <2> DEFINE after == IF s = "nonce" THEN <<PpAfter(q.kind, c, JobRaw(j))>> ELSE q.after
             sent == (q.sent \/ s = "submit")
  <2>1. after \in {<<>>} \cup {<<b>> : b \in [pub : Int, enc : Int]} /\ sent \in BOOLEAN /\ q.step + 1 \in Nat
    BY <1>5, <1>6
  <2>2. new = [q EXCEPT !.step = @ + 1, !.sent = sent, !.after = after]
    BY <1>1 DEF PpJobs
  <2> HIDE DEF after, sent, new, q
  <2> QED
    BY <1>1, <2>1, <2>2 DEF PpJobs
<1>8. /\ new.kind = q.kind /\ new.amount = q.amount /\ new.pc = "works" /\ new.step = q.step + 1
      /\ new.sent = (q.sent \/ s = "submit")
      /\ new.after = IF s = "nonce" THEN <<PpAfter(q.kind, c, JobRaw(j))>> ELSE q.after
  <2>1. q.pc = "works"
    BY DEF StepEnds, PpWorks
  <2> HIDE DEF s, c
  <2> QED
    BY <1>1, <2>1 DEF PpJobs
<1>9. GoesRight(q) /\ s = Steps(q.kind)[q.step + 1]
  BY <1>1 DEF PpInv, PpStep
<1> HIDE DEF new, s, c, q
<1>10. \A x : Passed(new, x) => Passed(q, x) \/ s = x
  <2> SUFFICES ASSUME NEW x, NEW i \in 1..(q.step + 1), Steps(q.kind)[i] = x PROVE Passed(q, x) \/ s = x
    BY <1>8 DEF Passed
  <2>1. i \in 1..q.step \/ i = q.step + 1
    BY <1>5
  <2> QED
    BY <1>9, <2>1 DEF Passed
<1>11. <<PpAfter(q.kind, c, JobRaw(j))>> # <<>>
  OBVIOUS
<1>12. GoesRight(new)
  BY <1>8, <1>9, <1>10, <1>11 DEF GoesRight
<1> QED
  BY <1>2, <1>3, <1>4, <1>7, <1>12, OneJobKeeps DEF StepEnds

LEMMA StepFailsKeeps ==
  ASSUME PpInv, NEW j \in PpJobIds, StepFails(j)
  PROVE  PpInv'
<1> DEFINE q == ppJob[j]
<1>1. q # PpNoJob /\ q \in PpJobs
  <2>1. q.pc = "works"
    BY DEF StepFails, PpWorks
  <2> QED
    BY <2>1 DEF PpInv, PpTyping, PpNoJob
<1>2. /\ ppChain \in [PpWallets -> [pub : Nat, enc : Nat]] /\ pp \in PpPages /\ ppTurns \in Nat
      /\ ppJob \in [PpJobIds -> PpJobs \cup {PpNoJob}]
  BY DEF PpInv, PpTyping
<1>3. GoesRight(q)
  BY <1>1 DEF PpInv
<1>4. PICK sent \in {q.sent, TRUE} : ppJob' = [ppJob EXCEPT ![j] = [q EXCEPT !.pc = "failed", !.sent = sent]]
  BY <1>1, <1>2 DEF StepFails, PpJobs
<1> DEFINE new == [q EXCEPT !.pc = "failed", !.sent = sent]
<1>5. ppChain' \in [PpWallets -> [pub : Nat, enc : Nat]]
  BY <1>1, <1>2, TakenKeepsNat DEF StepFails
<1> HIDE DEF q
<1>6. /\ new \in PpJobs /\ new.kind = q.kind /\ new.amount = q.amount /\ new.pc = "failed"
      /\ new.step = q.step /\ new.after = q.after /\ (q.sent => new.sent)
  BY <1>1 DEF PpJobs
<1> HIDE DEF new
<1>7. GoesRight(new)
  BY <1>3, <1>6 DEF GoesRight, Passed
<1> QED
  BY <1>2, <1>4, <1>5, <1>6, <1>7, OneJobKeeps DEF StepFails, new

LEMMA JobSucceedsKeeps ==
  ASSUME PpInv, NEW j \in PpJobIds, JobSucceeds(j)
  PROVE  PpInv'
<1> DEFINE q == ppJob[j]
           new == [q EXCEPT !.pc = "succeeded"]
<1>1. q # PpNoJob /\ q \in PpJobs
  <2>1. q.pc = "works"
    BY DEF JobSucceeds
  <2> QED
    BY <2>1 DEF PpInv, PpTyping, PpNoJob
<1>2. /\ ppChain \in [PpWallets -> [pub : Nat, enc : Nat]] /\ pp \in PpPages /\ ppTurns \in Nat
      /\ ppJob \in [PpJobIds -> PpJobs \cup {PpNoJob}]
  BY DEF PpInv, PpTyping
<1>3. GoesRight(q) /\ q.kind \in PpKinds /\ q.of \in PpWallets
  BY <1>1 DEF PpInv, PpJobs
<1>4. ppJob' = [ppJob EXCEPT ![j] = new] /\ q.step = Len(Steps(q.kind))
  BY <1>1, <1>2 DEF JobSucceeds
<1>5. q.sent /\ q.after # <<>>
  BY <1>3, <1>4, StepsHave DEF GoesRight, Passed
<1>6. pp' \in PpPages
  <2> DEFINE done == [pp EXCEPT !.result = TRUE, !.amount = ""]
  <2>1. done \in PpPages
    BY <1>2 DEF PpPages, AmountTexts
  <2>2. [done EXCEPT !.to = "", !.pin = FALSE] \in PpPages
    BY <2>1 DEF PpPages
  <2>3. q.after[1].pub \in Int /\ q.after[1].enc \in Int
    <3>1. q.after \in {<<b>> : b \in [pub : Int, enc : Int]}
      BY <1>1, <1>5 DEF PpJobs
    <3>2. PICK b \in [pub : Int, enc : Int] : q.after = <<b>>
      BY <3>1
    <3> HIDE DEF q
    <3> QED
      BY <3>2
  <2>4. <<q.after[1].pub>> \in Shown /\ <<q.after[1].enc>> \in Shown
    BY <2>3 DEF Shown
  <2>5. [done EXCEPT !.public = <<q.after[1].pub>>, !.encrypted = <<q.after[1].enc>>, !.of = q.of] \in PpPages
    <3> HIDE DEF done, q
    <3> QED
      BY <1>3, <2>1, <2>4 DEF PpPages
  <2>6. \/ pp' = pp \/ pp' = [done EXCEPT !.to = "", !.pin = FALSE]
        \/ pp' = [done EXCEPT !.public = <<q.after[1].pub>>, !.encrypted = <<q.after[1].enc>>, !.of = q.of]
    BY DEF JobSucceeds
  <2> HIDE DEF done, q
  <2> QED
    BY <1>2, <2>2, <2>5, <2>6
<1> HIDE DEF q
<1>7. /\ new \in PpJobs /\ new.kind = q.kind /\ new.amount = q.amount
      /\ new.step = q.step /\ new.after = q.after /\ new.sent = q.sent
  BY <1>1 DEF PpJobs
<1> HIDE DEF new
<1>8. GoesRight(new)
  BY <1>3, <1>5, <1>7 DEF GoesRight, Passed
<1> QED
  BY <1>2, <1>4, <1>6, <1>7, <1>8, OneJobKeeps DEF JobSucceeds

LEMMA PpStepInv == PpInv /\ [PpNext]_pp_vars => PpInv'
<1> SUFFICES ASSUME PpInv, [PpNext]_pp_vars PROVE PpInv'
  OBVIOUS
<1>1. CASE UNCHANGED pp_vars
  BY <1>1, PagesKeep DEF pp_vars, PpInv, PpTyping
<1> QED
  BY <1>1, OpeningKeeps, ReadLandsKeeps, PpFieldsKeep, ConfirmJobKeeps, StepEndsKeeps,
     StepFailsKeeps, JobSucceedsKeeps DEF PpNext

\* An operation of the Private Balance or Stealth page that is shown as done was taken by
\* the node, what encrypts or decrypts has an amount, and no balance goes below zero
\* (components/EncryptPanel.tsx handleSubmit, StealthPanel.tsx handleSend); for any
\* accounts, balances and amounts and any number of operations.
THEOREM DoneWasTaken == PpSpec => []PpTypeOK
<1>1. PpInv => PpTypeOK
  <2> SUFFICES ASSUME PpInv PROVE PpTypeOK
    OBVIOUS
  <2>1. ppWallet \in PpWallets /\ pp.page \in {"private", "stealth", "other"}
    BY DEF PpInv, PpTyping, PpPages
  <2>2. \A a \in PpWallets : ppChain[a].pub \in Nat /\ ppChain[a].enc \in Nat
    BY DEF PpInv, PpTyping
  <2>3. ASSUME NEW j \in PpJobIds, ppJob[j] # PpNoJob
        PROVE  /\ ppJob[j].kind # "stealth" => JobRaw(j) > 0
               /\ ppJob[j].pc = "succeeded" => ppJob[j].sent
    BY <2>3, RawIsRead DEF PpInv, GoesRight
  <2> QED
    BY <2>1, <2>2, <2>3 DEF PpTypeOK
<1> QED
  BY <1>1, PpInitInv, PpStepInv, PTL DEF PpSpec

-----------------------------------------------------------------------------
(***************************************************************************)
(* Protocol.  A name that begins like an alias is the name of a wallet     *)
(* method with one word and an underscore before it.                       *)
(***************************************************************************)

\* The underscore is no word.
LEMMA UnderscoreIsNoWord ==
  Underscore \notin {"orion", "wallet", "send", "transaction", "broadcast", "transfer", "swap", "bridge"}
BY Zenon DEF Underscore

\* What stands after a prefix of so many words.
LEMMA AfterPrefix ==
  ASSUME NEW S, NEW p \in Seq(S), NEW m \in Seq(S)
  PROVE  /\ p \o m \in Seq(S) /\ Len(p \o m) = Len(p) + Len(m)
         /\ \A i \in 1..Len(p) : (p \o m)[i] = p[i]
         /\ \A i \in 1..Len(m) : (p \o m)[Len(p) + i] = m[i]
<1>1. Len(p) \in Nat /\ Len(m) \in Nat
  BY LenProperties
<1>2. /\ p \o m \in Seq(S) /\ Len(p \o m) = Len(p) + Len(m)
      /\ \A i \in 1..Len(p) + Len(m) : (p \o m)[i] = IF i <= Len(p) THEN p[i] ELSE m[i - Len(p)]
  BY ConcatProperties
<1>3. ASSUME NEW i \in 1..Len(p) PROVE (p \o m)[i] = p[i]
  BY <1>1, <1>2
<1>4. ASSUME NEW i \in 1..Len(m) PROVE (p \o m)[Len(p) + i] = m[i]
  <2>1. /\ Len(p) + i \in 1..Len(p) + Len(m) /\ ~(Len(p) + i <= Len(p))
        /\ (Len(p) + i) - Len(p) = i
    BY <1>1
  <2> QED
    BY <1>2, <2>1
<1> QED
  BY <1>2, <1>3, <1>4

\* The prefix of an alias, and what it shares with the method it stands for.
AliasWords == {"orion", Underscore, "wallet"}
Alias == <<"orion", Underscore, "wallet", Underscore>>

LEMMA AliasShape ==
  ASSUME NEW W, AliasWords \subseteq W, NEW m \in Seq(W)
  PROVE  /\ Alias \o m \in Seq(W) /\ WalletMethod(m) \in Seq(W)
         /\ Len(WalletMethod(m)) = 2 + Len(m) /\ Len(Alias \o m) = 4 + Len(m) /\ Len(m) \in Nat
         /\ (Alias \o m)[1] = "orion" /\ (Alias \o m)[2] = Underscore
         /\ \A i \in 1..Len(WalletMethod(m)) : (Alias \o m)[i + 2] = WalletMethod(m)[i]
         /\ WalletMethod(m)[1] = "wallet" /\ WalletMethod(m)[2] = Underscore
<1> DEFINE p == <<"wallet", Underscore>>
           a == Alias \o m
           w == p \o m
           L == Len(m)
<1>1. Alias \in Seq(W) /\ Len(Alias) = 4 /\ p \in Seq(W) /\ Len(p) = 2 /\ L \in Nat
  BY LenProperties DEF Alias, AliasWords
<1>2. Alias[1] = "orion" /\ Alias[2] = Underscore /\ Alias[3] = "wallet" /\ Alias[4] = Underscore
  BY DEF Alias
<1>3. p[1] = "wallet" /\ p[2] = Underscore
  OBVIOUS
<1> HIDE DEF p
<1>4. /\ a \in Seq(W) /\ Len(a) = 4 + L /\ \A i \in 1..4 : a[i] = Alias[i]
      /\ \A i \in 1..L : a[4 + i] = m[i]
  <2>0. Alias \in Seq(W)
    BY <1>1
  <2>1. /\ a \in Seq(W) /\ Len(a) = Len(Alias) + L /\ \A i \in 1..Len(Alias) : a[i] = Alias[i]
        /\ \A i \in 1..L : a[Len(Alias) + i] = m[i]
    BY <2>0, AfterPrefix
  <2> QED
    BY <1>1, <2>1, Zenon
<1>5. /\ w \in Seq(W) /\ Len(w) = 2 + L /\ \A i \in 1..2 : w[i] = p[i]
      /\ \A i \in 1..L : w[2 + i] = m[i]
  <2>0. p \in Seq(W)
    BY <1>1
  <2>1. /\ w \in Seq(W) /\ Len(w) = Len(p) + L /\ \A i \in 1..Len(p) : w[i] = p[i]
        /\ \A i \in 1..L : w[Len(p) + i] = m[i]
    BY <2>0, AfterPrefix
  <2> QED
    BY <1>1, <2>1, Zenon
<1> HIDE DEF a, w, L
<1>6. ASSUME NEW i \in 1..2 + L PROVE a[i + 2] = w[i]
  <2>1. CASE i = 1
    BY <1>2, <1>3, <1>4, <1>5, <2>1
  <2>2. CASE i = 2
    BY <1>2, <1>3, <1>4, <1>5, <2>2
  <2>3. CASE i > 2
    <3>1. i - 2 \in 1..L /\ 4 + (i - 2) = i + 2 /\ 2 + (i - 2) = i
      BY <1>1, <2>3
    <3>2. a[4 + (i - 2)] = m[i - 2] /\ w[2 + (i - 2)] = m[i - 2]
      BY <1>4, <1>5, <3>1
    <3> QED
      BY <3>1, <3>2
  <2> QED
    BY <1>1, <2>1, <2>2, <2>3
<1>7. a[1] = "orion" /\ a[2] = Underscore /\ w[1] = "wallet" /\ w[2] = Underscore
  BY <1>2, <1>3, <1>4, <1>5
<1> QED
  BY <1>1, <1>4, <1>5, <1>6, <1>7 DEF WalletMethod, p, a, w, L

LEMMA AliasIsCanonicalized ==
  ASSUME NEW W, AliasWords \subseteq W, NEW m \in Seq(W)
  PROVE  /\ CanonicalizeMethod(Alias \o m) = WalletMethod(m)
         /\ CanonicalizeMethod(WalletMethod(m)) = WalletMethod(m)
<1> DEFINE a == Alias \o m
           w == WalletMethod(m)
<1>1. /\ a \in Seq(W) /\ w \in Seq(W) /\ Len(m) \in Nat
      /\ Len(w) = 2 + Len(m) /\ Len(a) = 4 + Len(m) /\ w[1] = "wallet"
      /\ a[1] = "orion" /\ \A i \in 1..Len(w) : a[i + 2] = w[i]
  BY AliasShape
<1>2. IsPrefix(Alias, a)
  <2>1. Alias \in Seq(W) /\ Len(Alias) = 4
    BY DEF Alias, AliasWords
  <2>2. \A i \in 1..4 : a[i] = Alias[i]
    <3>1. \A i \in 1..Len(Alias) : a[i] = Alias[i]
      BY <2>1, AfterPrefix, Zenon
    <3> QED
      BY <2>1, <3>1, Zenon
  <2> HIDE DEF a
  <2>3. ASSUME NEW s \in Seq(W), Len(s) >= 4
        PROVE  SubSeq(s, 1, 4) \in Seq(W) /\ Len(SubSeq(s, 1, 4)) = 4 /\ \A i \in 1..4 : SubSeq(s, 1, 4)[i] = s[i]
    BY <2>3
  <2>4. SubSeq(Alias, 1, 4) = SubSeq(a, 1, 4)
    <3>1. Len(a) >= 4 /\ Len(Alias) >= 4
      BY <1>1, <2>1
    <3> DEFINE s == SubSeq(Alias, 1, 4)
               r == SubSeq(a, 1, 4)
    <3>2. s \in Seq(W) /\ r \in Seq(W) /\ Len(s) = 4 /\ Len(r) = 4
      BY <1>1, <2>1, <2>3, <3>1
    <3>3. \A i \in 1..4 : s[i] = Alias[i] /\ r[i] = a[i]
      BY <1>1, <2>1, <2>3, <3>1
    <3> HIDE DEF s, r
    <3>4. s = r
      BY <2>2, <3>2, <3>3, SeqEqual
    <3> QED
      BY <3>4 DEF s, r
  <2> QED
    BY <1>1, <2>1, <2>4 DEF IsPrefix
<1>3. SubSeq(a, 3, Len(a)) = w
  <2> HIDE DEF a, w
  <2> DEFINE s == SubSeq(a, 3, Len(a))
  <2>1. s \in Seq(W) /\ Len(s) = Len(w) /\ \A i \in 1..Len(w) : s[i] = a[i + 2]
    BY <1>1
  <2> HIDE DEF s
  <2>2. s = w
    BY <1>1, <2>1, SeqEqual
  <2> QED
    BY <2>2 DEF s
<1>4. ~IsPrefix(Alias, w)
  <2> HIDE DEF w
  <2> SUFFICES ASSUME Len(Alias) <= Len(w), SubSeq(Alias, 1, Len(Alias)) = SubSeq(w, 1, Len(Alias))
               PROVE  FALSE
    BY DEF IsPrefix
  <2>1. Alias \in Seq(W) /\ Len(Alias) = 4 /\ Alias[1] = "orion"
    BY DEF Alias, AliasWords
  <2>2. SubSeq(Alias, 1, 4)[1] = "orion"
    BY <2>1
  <2>3. SubSeq(w, 1, 4)[1] = "wallet"
    BY <1>1, <2>1
  <2> QED
    BY <2>1, <2>2, <2>3
<1> HIDE DEF a, w
<1>5. CanonicalizeMethod(a) = w /\ CanonicalizeMethod(w) = w
  BY <1>2, <1>3, <1>4 DEF CanonicalizeMethod, Alias
<1> QED
  BY <1>5 DEF a, w

\* Nothing that is listed begins like an alias.
LEMMA ListedNamesAreNoAliases ==
  ASSUME NEW a \in ProhibitedMethods
  PROVE  a[1] # "orion"
<1> DEFINE W == AliasWords \cup {"send", "transaction", "broadcast", "transfer", "swap", "bridge"}
           V == {<<"send", "transaction">>, <<"broadcast", "transaction">>, <<"transfer">>, <<"swap">>, <<"bridge">>}
<1>0. AliasWords \subseteq W
  OBVIOUS
<1>1. CASE a \in {<<"eth", Underscore, "send", "transaction">>, <<"eth", Underscore, "send", "raw", "transaction">>}
  BY <1>1
<1>2. CASE \E p \in {<<>>, <<"wallet", Underscore>>}, v \in V : a = p \o v
  <2>1. PICK p \in {<<>>, <<"wallet", Underscore>>}, v \in V : a = p \o v
    BY <1>2
  <2>2. v \in Seq(W) /\ Len(v) \in Nat /\ Len(v) > 0 /\ v[1] # "orion"
    <3>1. CASE v = <<"send", "transaction">>
      BY <3>1
    <3>2. CASE v = <<"broadcast", "transaction">>
      BY <3>2
    <3>3. CASE v = <<"transfer">>
      BY <3>3
    <3>4. CASE v = <<"swap">>
      BY <3>4
    <3>5. CASE v = <<"bridge">>
      BY <3>5
    <3> QED
      BY <3>1, <3>2, <3>3, <3>4, <3>5
  <2> HIDE DEF V, W
  <2>3. CASE p = <<>>
    <3>1. <<>> \o v = v
      BY <2>2
    <3> QED
      BY <2>1, <2>2, <2>3, <3>1
  <2>4. CASE p = <<"wallet", Underscore>>
    <3>1. p \in Seq(W) /\ Len(p) = 2 /\ p[1] = "wallet"
      BY <1>0, <2>4 DEF AliasWords
    <3>2. a[1] = p[1]
      BY <2>1, <2>2, <3>1, AfterPrefix
    <3> QED
      BY <3>1, <3>2
  <2> QED
    BY <2>3, <2>4
<1> QED
  BY <1>1, <1>2 DEF ProhibitedMethods

\* Whatever is prohibited of an alias is prohibited of its method.
LEMMA AliasHidesNothing ==
  ASSUME NEW W, AliasWords \subseteq W, NEW m \in Seq(W), IsProhibitedMethod(Alias \o m)
  PROVE  IsProhibitedMethod(WalletMethod(m))
<1> DEFINE a == Alias \o m
           w == WalletMethod(m)
           L == Len(m)
<1>1. /\ a \in Seq(W) /\ w \in Seq(W) /\ L \in Nat
      /\ Len(w) = 2 + L /\ Len(a) = 4 + L
      /\ a[1] = "orion" /\ a[2] = Underscore /\ \A i \in 1..Len(w) : a[i + 2] = w[i]
  BY AliasShape
<1>2. IsProhibitedMethod(a)
  OBVIOUS
<1> HIDE DEF a, w, L
<1>3. DOMAIN a = 1..4 + L /\ DOMAIN w = 1..2 + L
  BY <1>1, LenProperties
<1>4. ASSUME NEW i \in DOMAIN a, i > 2 PROVE i - 2 \in DOMAIN w /\ a[i] = w[i - 2]
  <2>1. i - 2 \in 1..Len(w) /\ (i - 2) + 2 = i
    BY <1>1, <1>3, <1>4
  <2>2. a[(i - 2) + 2] = w[i - 2]
    BY <1>1, <2>1
  <2> QED
    BY <1>1, <1>3, <2>1, <2>2
<1>5. CASE a \in ProhibitedMethods
  BY <1>1, <1>5, ListedNamesAreNoAliases
<1>6. CASE \E i \in DOMAIN a : a[i] = "broadcast" \/ (i < Len(a) /\ a[i] = "send" /\ a[i + 1] = "transaction")
  <2>1. PICK i \in DOMAIN a : a[i] = "broadcast" \/ (i < Len(a) /\ a[i] = "send" /\ a[i + 1] = "transaction")
    BY <1>6
  <2>2. i \in Nat /\ i # 0
    BY <1>1, <1>3
  <2>3. i > 2
    <3>1. a[1] = "orion" /\ a[2] = Underscore
      BY <1>1
    <3>2. i # 1
      BY <2>1, <3>1
    <3>3. i # 2
      BY <2>1, <3>1, UnderscoreIsNoWord
    <3> QED
      BY <2>2, <3>2, <3>3
  <2>4. i - 2 \in DOMAIN w /\ a[i] = w[i - 2]
    BY <1>4, <2>3
  <2>5. i < Len(a) => i - 2 < Len(w) /\ a[i + 1] = w[(i - 2) + 1]
    <3> SUFFICES ASSUME i < Len(a) PROVE i - 2 < Len(w) /\ a[i + 1] = w[(i - 2) + 1]
      OBVIOUS
    <3>1. i + 1 \in DOMAIN a /\ i + 1 > 2 /\ (i + 1) - 2 = (i - 2) + 1 /\ i - 2 < Len(w)
      BY <1>1, <1>3, <2>2, <2>3
    <3>2. a[i + 1] = w[(i + 1) - 2]
      BY <1>4, <3>1
    <3> QED
      BY <3>1, <3>2
  <2> DEFINE j == i - 2
  <2>6. j \in DOMAIN w /\ (w[j] = "broadcast" \/ (j < Len(w) /\ w[j] = "send" /\ w[j + 1] = "transaction"))
    BY <2>1, <2>4, <2>5
  <2> HIDE DEF j
  <2>7. IsProhibitedMethod(w)
    BY <2>6 DEF IsProhibitedMethod
  <2> QED
    BY <2>7 DEF w
<1>7. CASE a # <<>> /\ Last(a) \in {"transfer", "swap", "bridge"} /\ (Len(a) = 1 \/ a[Len(a) - 1] = Underscore)
  <2>1. a[Len(a)] \in {"transfer", "swap", "bridge"} /\ a[Len(a) - 1] = Underscore
    BY <1>1, <1>7 DEF Last
  <2>2. Len(a) \in DOMAIN a /\ Len(a) > 2 /\ Len(a) - 2 = Len(w) /\ Len(w) \in Nat
    BY <1>1, <1>3
  <2>3. w[Len(w)] = a[Len(a)]
    BY <1>4, <2>2
  <2>4. Len(a) - 1 \in DOMAIN a /\ Len(a) - 1 > 2 /\ (Len(a) - 1) - 2 = Len(w) - 1
    BY <1>1, <1>3
  <2>5. w[Len(w) - 1] = a[Len(a) - 1]
    BY <1>4, <2>4
  <2>6. w # <<>>
    BY <1>1, EmptySeq
  <2>7. IsProhibitedMethod(w)
    BY <2>1, <2>3, <2>5, <2>6 DEF IsProhibitedMethod, Last
  <2> QED
    BY <2>7 DEF w
<1> QED
  BY <1>2, <1>5, <1>6, <1>7 DEF IsProhibitedMethod

\* An alias, of any number of words, is answered like the method it stands for: no name gets
\* past the list of what is prohibited by being written as an alias (canonicalizeMethod and
\* isProhibitedMethod of sdk/protocol.ts, dispatch of the handler).
THEOREM NoAliasGoesAround ==
  \A W : \A m \in Seq(W) : Route(<<"orion", Underscore, "wallet", Underscore>> \o m) = Route(WalletMethod(m))
<1> SUFFICES ASSUME NEW V, NEW m \in Seq(V) PROVE Route(Alias \o m) = Route(WalletMethod(m))
  BY DEF Alias
<1> DEFINE W == V \cup AliasWords
           a == Alias \o m
           w == WalletMethod(m)
<1>0. AliasWords \subseteq W /\ m \in Seq(W)
  OBVIOUS
<1> HIDE DEF W
<1>1. CanonicalizeMethod(a) = w /\ CanonicalizeMethod(w) = w
  BY <1>0, AliasIsCanonicalized
<1>2. IsProhibitedMethod(a) => IsProhibitedMethod(w)
  BY <1>0, AliasHidesNothing
<1> HIDE DEF a, w
<1>3. Route(a) = Route(w)
  <2>1. CASE IsProhibitedMethod(w)
    BY <1>1, <2>1 DEF Route
  <2>2. CASE ~IsProhibitedMethod(w)
    BY <1>1, <1>2, <2>2 DEF Route
  <2> QED
    BY <2>1, <2>2
<1> QED
  BY <1>3 DEF a, w
=============================================================================
