------------------------------ MODULE Accounts ------------------------------
(***************************************************************************)
(* The accounts on the device: their keystores (store `wallets'), the      *)
(* manifest that lists them, the passkey record, and the operations of     *)
(* api/wallet-api.ts on the three.                                         *)
(*                                                                         *)
(* Every account with keys has a slot for its keystore, named after the    *)
(* start of its address (so two accounts could share one); the first one   *)
(* is stored a second time as `default'.  Each IndexedDB transaction is a  *)
(* step: the tabs' operations interleave between them, and a tab can be    *)
(* closed between any two.  Within a tab a loading overlay keeps the user  *)
(* from starting a second operation.                                       *)
(***************************************************************************)
EXTENDS Naturals, FiniteSets

CONSTANTS
  Tabs,       \* the wallet's tabs
  Addrs,      \* addresses
  Phrase,     \* [Addrs -> recovery phrase, or RawKey]
  HdIndex,    \* [Addrs -> index of the account under its phrase]
  RawKey,     \* the "phrase" of an account that was imported as a private key
  Slot,       \* [Addrs -> walletIdForAddr, the start of the address]
  Hint,       \* [Addrs -> addrHint, an even shorter start]
  Pins,
  Earlier,    \* sets of accounts that earlier sessions may have stored
  Nobody,     \* no address
  MaxTasks    \* bound: operations started

ASSUME AccountsAssumption ==
  /\ Nobody \notin Addrs /\ \A a \in Addrs : Slot[a] # "default"
  /\ \A a, b \in Addrs : Slot[a] = Slot[b] => Hint[a] = Hint[b]
  /\ HdIndex \in [Addrs -> Nat] /\ MaxTasks \in Nat
  /\ Pins # {} /\ \A p \in Pins : \E q \in Pins : q # p
  /\ \A S \in Earlier : S \subseteq Addrs /\ (S # {} => \E a \in S : HdIndex[a] = 0)

VARIABLES
  keystore,   \* `wallets': [id -> NoBlob, or whose keys are sealed under which PIN]
  manifest,   \* how each address is listed, and which one is active
  passkey,    \* whose wallet the passkey record seals, or Nobody
  files,      \* wallet files downloaded, sealed like keystores
  open,       \* [tab -> the wallet in its memory]
  task,       \* [tab -> the operation it is in the middle of]
  started,    \* bound: operations started
  unwanted    \* history: accounts whose removal began since they were last stored

acct_vars == <<keystore, manifest, passkey, files, open, task, started, unwanted>>

NoBlob == [addr |-> Nobody, pin |-> "none"]
Ids    == {Slot[a] : a \in Addrs} \cup {"default"}

\* The records of `wallets', `manifest' and `passkey-unlock'.
StoredWallets == [Ids -> {NoBlob} \cup [addr : Addrs, pin : Pins]]
Manifests == [listed : [Addrs -> {"no", "keys", "watch"}], active : Addrs \cup {Nobody}]
PasskeyUnlocks == Addrs \cup {Nobody}
Closed == [addr |-> Nobody, keys |-> FALSE]
Idle   == [op |-> "none", addr |-> Nobody, pin |-> "none", pc |-> "none",
           found |-> Closed, seen |-> "none", ids |-> {}, sealed |-> FALSE,
           failed |-> FALSE, alone |-> FALSE]

\* Earlier sessions stored the accounts in S, the first of them also as `default'.
AcctInit ==
  /\ \E S \in Earlier :
       LET first == IF S = {} THEN Nobody ELSE CHOOSE a \in S : HdIndex[a] = 0
           pin   == CHOOSE p \in Pins : TRUE
           owner(id) == IF id = "default" THEN first
                        ELSE IF \E a \in S : Slot[a] = id THEN CHOOSE a \in S : Slot[a] = id
                        ELSE Nobody
       IN
       /\ keystore = [id \in Ids |-> IF owner(id) \in S THEN [addr |-> owner(id), pin |-> pin]
                                     ELSE NoBlob]
       /\ manifest = [listed |-> [a \in Addrs |-> IF a \in S THEN "keys" ELSE "no"],
                       active |-> first]
  /\ passkey = Nobody /\ files = {}
  /\ open = [t \in Tabs |-> Closed]
  /\ task = [t \in Tabs |-> Idle]
  /\ started = 0
  /\ unwanted = {}

\* deriveHdAccount: the account of index i under the phrase of root.
DerivedFrom(root, i) ==
  IF \E a \in Addrs : Phrase[a] = Phrase[root] /\ HdIndex[a] = i
    THEN CHOOSE a \in Addrs : Phrase[a] = Phrase[root] /\ HdIndex[a] = i
    ELSE Nobody

-----------------------------------------------------------------------------
(* The manifest is read, changed and written back in two transactions.     *)

\* addAccountToManifest, removeAccountFromManifest (the active one becomes the
\* first of those left) and setActiveAccount.
Changed(op, a, m) ==
  LET left == {b \in Addrs \ {a} : m.listed[b] # "no"} IN
  CASE op = "remove" ->
         {[listed |-> [m.listed EXCEPT ![a] = "no"], active |-> b] :
            b \in IF m.active # a THEN {m.active} ELSE IF left = {} THEN {Nobody} ELSE left}
    [] op = "activate" -> {[m EXCEPT !.active = a]}
    [] OTHER ->
         {[m EXCEPT !.listed[a] = IF op = "watch" THEN "watch" ELSE "keys",
                    !.active = IF @ = Nobody THEN a ELSE @]}

Goto(t, pc) == task' = [task EXCEPT ![t].pc = pc]
Stop(t)     == task' = [task EXCEPT ![t] = Idle]

LoadManifest(t) ==
  /\ task[t].pc = "load"
  /\ IF task[t].op = "activate" /\ manifest.listed[task[t].addr] = "no"
       THEN Stop(t)
       ELSE task' = [task EXCEPT ![t].pc = "save", ![t].seen = manifest]
  /\ UNCHANGED <<keystore, manifest, passkey, files, open, started, unwanted>>

\* What the caller does then: the imported, derived or unlocked wallet is opened;
\* one whose account is gone is locked.
SaveManifest(t) ==
  LET op == task[t].op
      a == task[t].addr
  IN
  /\ task[t].pc = "save"
  /\ manifest' \in Changed(op, a, task[t].seen)
  /\ open' = CASE op \in {"persist", "derive"} -> [open EXCEPT ![t] = [addr |-> a, keys |-> TRUE]]
               [] op = "activate" /\ task[t].found # Closed -> [open EXCEPT ![t] = task[t].found]
               [] op = "remove" /\ open[t].addr = a -> [open EXCEPT ![t] = Closed]
               [] OTHER -> open
  /\ IF op = "create" THEN Goto(t, "backup") ELSE Stop(t)
  /\ UNCHANGED <<keystore, passkey, files, started, unwanted>>

-----------------------------------------------------------------------------
(* Starting an operation.                                                  *)

\* `alone' remembers (for a property) that no other tab was busy meanwhile.
Begun(t, op, a, pin, pc) ==
  [u \in Tabs |-> IF u # t THEN [task[u] EXCEPT !.alone = FALSE]
                  ELSE [Idle EXCEPT !.op = op, !.addr = a, !.pin = pin, !.pc = pc,
                                    !.alone = \A v \in Tabs \ {t} : task[v] = Idle]]

Begin(t, op, a, pin, pc) ==
  /\ task[t] = Idle /\ started < MaxTasks
  /\ task' = Begun(t, op, a, pin, pc)
  /\ started' = started + 1
  /\ UNCHANGED <<keystore, manifest, passkey, files, open>>

\* The import forms, on the start screen and among the accounts: importMnemonic gives the
\* account at index 0 of the phrase, importPrivateKey that of the key.
ImportPhrase(t, a, pin) ==
  /\ Phrase[a] # RawKey /\ HdIndex[a] = 0
  /\ Begin(t, "persist", a, pin, "own") /\ UNCHANGED unwanted

ImportKey(t, a, pin) ==
  /\ Phrase[a] = RawKey
  /\ Begin(t, "persist", a, pin, "own") /\ UNCHANGED unwanted

\* handleCreate: a phrase that no account here has yet.
CreateWallet(t, a, pin) ==
  /\ open[t] = Closed /\ HdIndex[a] = 0
  /\ \A b \in Addrs : Phrase[b] = Phrase[a] => manifest.listed[b] = "no" /\ b \notin unwanted
  /\ Begin(t, "create", a, pin, "own") /\ UNCHANGED unwanted

\* confirmBackup: the wallet, stored by now, is opened when the quiz is answered.
ConfirmBackup(t) ==
  /\ task[t].pc = "backup"
  /\ open' = [open EXCEPT ![t] = [addr |-> task[t].addr, keys |-> TRUE]]
  /\ Stop(t)
  /\ UNCHANGED <<keystore, manifest, passkey, files, started, unwanted>>

\* findWalletEntryFor: what is in the account's slot, or else `default', whoever owns it.
EntryFor(a) == IF keystore[Slot[a]] # NoBlob THEN keystore[Slot[a]] ELSE keystore["default"]

\* handleExport: the PIN is checked against the keystore, if there still is one.  (Bound:
\* one file.)
ExportFile(t, pin) ==
  LET a == open[t].addr
      entry == EntryFor(a)
  IN
  /\ open[t].keys /\ task[t] = Idle /\ files = {}
  /\ entry = NoBlob \/ entry.pin = pin
  /\ files' = {[addr |-> a, pin |-> pin]}
  /\ UNCHANGED <<keystore, manifest, passkey, open, task, started, unwanted>>

\* handleImport of a file, under a PIN of this device.
ImportFile(t, f, pin) ==
  /\ f \in files /\ open[t] # Closed
  /\ Begin(t, "persist", f.addr, pin, "own") /\ UNCHANGED unwanted

\* deriveNewHdAccount, from the master seed of the open wallet.
BeginDerive(t, a, pin) ==
  /\ open[t].keys /\ Phrase[open[t].addr] # RawKey
  /\ DerivedFrom(open[t].addr, HdIndex[a]) = a
  /\ Begin(t, "derive", a, pin, "own") /\ UNCHANGED unwanted

BeginWatch(t, a)   == Begin(t, "watch", a, "none", "check") /\ UNCHANGED unwanted
BeginRemove(t, a)  == Begin(t, "remove", a, "none", "own") /\ unwanted' = unwanted \cup {a}
BeginUnlock(t, a, pin) == Begin(t, "unlock", a, pin, "preflight") /\ UNCHANGED unwanted

\* changePin, of the open wallet; `pin' is the old one.
BeginChangePin(t, pin) ==
  /\ open[t].keys
  /\ Begin(t, "changePin", open[t].addr, pin, "find")
  /\ UNCHANGED unwanted

-----------------------------------------------------------------------------
(* persistImportedWallet and deriveNewHdAccount.                           *)

\* What the user wants again, unless a removal is under way.
Wanted(a) ==
  unwanted' = IF \E u \in Tabs : task[u].op = "remove" /\ task[u].addr = a
                THEN unwanted ELSE unwanted \ {a}

\* Mutant: one slot for whichever account was stored last.
PutOwnSingleSlot(t) ==
  LET a == task[t].addr IN
  /\ task[t].op \in {"persist", "create", "derive"} /\ task[t].pc = "own"
  /\ keystore' = [keystore EXCEPT !["default"] = [addr |-> a, pin |-> task[t].pin]]
  /\ Goto(t, IF task[t].op = "derive" THEN "load" ELSE "default?")
  /\ Wanted(a)
  /\ UNCHANGED <<manifest, passkey, files, open, started>>

PutOwn(t) ==
  LET a == task[t].addr IN
  /\ task[t].op \in {"persist", "create", "derive"} /\ task[t].pc = "own"
  /\ keystore' = [keystore EXCEPT ![Slot[a]] = [addr |-> a, pin |-> task[t].pin]]
  /\ Goto(t, IF task[t].op = "derive" THEN "load" ELSE "default?")
  /\ Wanted(a)
  /\ UNCHANGED <<manifest, passkey, files, open, started>>

LookForDefault(t) ==
  /\ task[t].op \in {"persist", "create"} /\ task[t].pc = "default?"
  /\ Goto(t, IF keystore["default"] = NoBlob THEN "default" ELSE "load")
  /\ UNCHANGED <<keystore, manifest, passkey, files, open, started, unwanted>>

PutDefault(t) ==
  /\ task[t].op \in {"persist", "create"} /\ task[t].pc = "default"
  /\ keystore' = [keystore EXCEPT !["default"] = [addr |-> task[t].addr, pin |-> task[t].pin]]
  /\ Goto(t, "load")
  /\ UNCHANGED <<manifest, passkey, files, open, started, unwanted>>

\* addWatchOnlyAccount refuses to shadow an account that has keys.
CheckWatch(t) ==
  /\ task[t].op = "watch" /\ task[t].pc = "check"
  /\ IF manifest.listed[task[t].addr] = "keys" THEN Stop(t) ELSE Goto(t, "load")
  /\ UNCHANGED <<keystore, manifest, passkey, files, open, started, unwanted>>

(* removeAccount.                                                          *)

DeleteOwn(t) ==
  /\ task[t].op = "remove" /\ task[t].pc = "own"
  /\ keystore' = [keystore EXCEPT ![Slot[task[t].addr]] = NoBlob]
  /\ Goto(t, "default?")
  /\ UNCHANGED <<manifest, passkey, files, open, started, unwanted>>

\* The default copy goes with its owner, known by the address hint.
LookAtDefault(t) ==
  LET copy == keystore["default"] IN
  /\ task[t].op = "remove" /\ task[t].pc = "default?"
  /\ Goto(t, IF copy # NoBlob /\ Hint[copy.addr] = Hint[task[t].addr] THEN "default" ELSE "load")
  /\ UNCHANGED <<keystore, manifest, passkey, files, open, started, unwanted>>

DeleteDefault(t) ==
  /\ task[t].op = "remove" /\ task[t].pc = "default"
  /\ keystore' = [keystore EXCEPT !["default"] = NoBlob]
  /\ Goto(t, "load")
  /\ UNCHANGED <<manifest, passkey, files, open, started, unwanted>>

-----------------------------------------------------------------------------
(* unlockAccount.                                                          *)

\* A wallet is resolved.  The caller opens it once setActiveAccount (of the address asked
\* for), which is all that is left to do, has succeeded.
Found(t, w) == task' = [task EXCEPT ![t].op = "activate", ![t].pc = "load", ![t].found = w]

Preflight(t) ==
  LET how == manifest.listed[task[t].addr] IN
  /\ task[t].pc = "preflight"
  /\ IF how = "no" THEN Stop(t) ELSE Goto(t, IF how = "watch" THEN "watched" ELSE "keystore")
  /\ UNCHANGED <<keystore, manifest, passkey, files, open, started, unwanted>>

\* openWatchOnlyAccount reads the manifest again.
OpenWatched(t) ==
  LET a == task[t].addr IN
  /\ task[t].pc = "watched"
  /\ IF manifest.listed[a] = "watch" THEN Found(t, [addr |-> a, keys |-> FALSE]) ELSE Stop(t)
  /\ UNCHANGED <<keystore, manifest, passkey, files, open, started, unwanted>>

\* Mutant: what is in the slot is taken for the account's.
OwnKeystoreUnchecked(t) ==
  LET own == keystore[Slot[task[t].addr]] IN
  /\ task[t].pc = "keystore"
  /\ CASE own = NoBlob -> Goto(t, "root")
       [] own # NoBlob /\ own.pin = task[t].pin -> Found(t, [addr |-> own.addr, keys |-> TRUE])
       [] OTHER -> Stop(t)
  /\ UNCHANGED <<keystore, manifest, passkey, files, open, started, unwanted>>

\* The account's slot: a wrong PIN ends it; nothing, or another account's keystore, leaves
\* the default.
OwnKeystore(t) ==
  LET own == keystore[Slot[task[t].addr]] IN
  /\ task[t].pc = "keystore"
  /\ CASE own # NoBlob /\ own.pin # task[t].pin -> Stop(t)
       [] own # NoBlob /\ own.pin = task[t].pin /\ own.addr = task[t].addr ->
            Found(t, [addr |-> own.addr, keys |-> TRUE])
       [] OTHER -> Goto(t, "root")
  /\ UNCHANGED <<keystore, manifest, passkey, files, open, started, unwanted>>

\* The wallet that the default keystore of owner yields for a: itself, or the one derived
\* from its master seed at the index listed for a.
FromRoot(owner, a) ==
  CASE owner = a -> owner
    [] owner # a /\ Phrase[owner] = RawKey -> Nobody
    [] OTHER -> DerivedFrom(owner, HdIndex[a])

RootKeystore(t) ==
  LET root == keystore["default"]
      w == FromRoot(root.addr, task[t].addr)
  IN
  /\ task[t].pc = "root"
  /\ IF root # NoBlob /\ root.pin = task[t].pin /\ w = task[t].addr
       THEN Found(t, [addr |-> w, keys |-> TRUE])
       ELSE Stop(t)
  /\ UNCHANGED <<keystore, manifest, passkey, files, open, started, unwanted>>

\* The unlock screen: any stored keystore, and the manifest follows best-effort.
UnlockScreen(t, id, pin) ==
  /\ open[t] = Closed
  /\ task[t] = Idle /\ started < MaxTasks
  /\ keystore[id] # NoBlob /\ keystore[id].pin = pin
  /\ open' = [open EXCEPT ![t] = [addr |-> keystore[id].addr, keys |-> TRUE]]
  /\ task' = Begun(t, "activate", keystore[id].addr, pin, "load")
  /\ started' = started + 1
  /\ UNCHANGED <<keystore, manifest, passkey, files, unwanted>>

-----------------------------------------------------------------------------
(* changePin.                                                              *)

OtherPin(pin) == CHOOSE p \in Pins : p # pin

\* The old PIN must open the keystore that findWalletEntryFor gives.
FindKeystore(t) ==
  LET found == EntryFor(task[t].addr) IN
  /\ task[t].pc = "find"
  /\ IF found # NoBlob /\ found.pin = task[t].pin THEN Goto(t, "list") ELSE Stop(t)
  /\ UNCHANGED <<keystore, manifest, passkey, files, open, started, unwanted>>

\* Mutant: only the account's own entry.
ListKeystoresOwn(t) ==
  LET a == task[t].addr
      ids == {id \in {Slot[a]} : keystore[id] = [addr |-> a, pin |-> task[t].pin]}
  IN
  /\ task[t].pc = "list"
  /\ task' = [task EXCEPT ![t].pc = "seal", ![t].ids = ids]
  /\ UNCHANGED <<keystore, manifest, passkey, files, open, started, unwanted>>

\* The entries that hold this account and open with the old PIN.
ListKeystores(t) ==
  LET a == task[t].addr
      ids == {id \in Ids : keystore[id] = [addr |-> a, pin |-> task[t].pin]}
  IN
  /\ task[t].pc = "list"
  /\ task' = [task EXCEPT ![t].pc = "seal", ![t].ids = ids]
  /\ UNCHANGED <<keystore, manifest, passkey, files, open, started, unwanted>>

\* They are sealed again one by one, `default' last.  A save that fails is caught and the
\* loop goes on.
SealKeystore(t, id, lands) ==
  /\ task[t].pc = "seal"
  /\ id \in task[t].ids /\ (id = "default" => task[t].ids = {"default"})
  /\ keystore' = IF lands
                   THEN [keystore EXCEPT ![id] = [addr |-> task[t].addr,
                                                  pin |-> OtherPin(task[t].pin)]]
                   ELSE keystore
  /\ task' = [task EXCEPT ![t].ids = @ \ {id}, ![t].sealed = @ \/ lands,
                           ![t].failed = @ \/ ~lands]
  /\ UNCHANGED <<manifest, passkey, files, open, started, unwanted>>

\* changePin has returned, `No stored wallet to re-encrypt' not thrown: the change is
\* reported as done.
PinChanged(t) == task[t].pc = "seal" /\ task[t].ids = {} /\ task[t].sealed

ChangePinEnds(t) ==
  /\ task[t].pc = "seal" /\ task[t].ids = {}
  /\ Stop(t)
  /\ UNCHANGED <<keystore, manifest, passkey, files, open, started, unwanted>>

-----------------------------------------------------------------------------
(* Passkey, lock, the end of a tab.                                        *)

EnablePasskey(t) ==
  /\ open[t].keys /\ task[t] = Idle
  /\ passkey' = open[t].addr
  /\ UNCHANGED <<keystore, manifest, files, open, task, started, unwanted>>

\* disablePasskeyUnlock, or a record that no longer opens.
DisablePasskey ==
  /\ passkey # Nobody
  /\ passkey' = Nobody
  /\ UNCHANGED <<keystore, manifest, files, open, task, started, unwanted>>

UnlockWithPasskey(t) ==
  /\ open[t] = Closed /\ passkey # Nobody /\ task[t] = Idle
  /\ open' = [open EXCEPT ![t] = [addr |-> passkey, keys |-> TRUE]]
  /\ UNCHANGED <<keystore, manifest, passkey, files, task, started, unwanted>>

\* A lock does not stop an operation that is under way.
Lock(t) ==
  /\ open[t] # Closed
  /\ open' = [open EXCEPT ![t] = Closed]
  /\ UNCHANGED <<keystore, manifest, passkey, files, task, started, unwanted>>

\* The tab is closed in the middle of what it does, and opened again.
CloseTab(t) ==
  /\ task[t] # Idle
  /\ open' = [open EXCEPT ![t] = Closed]
  /\ Stop(t)
  /\ UNCHANGED <<keystore, manifest, passkey, files, started, unwanted>>

TaskStep(t) ==
  \/ LoadManifest(t) \/ SaveManifest(t)
  \/ PutOwn(t) \/ LookForDefault(t) \/ PutDefault(t) \/ CheckWatch(t)
  \/ DeleteOwn(t) \/ LookAtDefault(t) \/ DeleteDefault(t)
  \/ Preflight(t) \/ OpenWatched(t) \/ OwnKeystore(t) \/ RootKeystore(t)
  \/ FindKeystore(t) \/ ListKeystores(t)
  \/ \E id \in Ids, lands \in BOOLEAN : SealKeystore(t, id, lands)
  \/ ChangePinEnds(t)

AcctNext ==
  \E t \in Tabs :
    \/ TaskStep(t)
    \/ \E a \in Addrs : BeginWatch(t, a) \/ BeginRemove(t, a)
    \/ \E a \in Addrs, pin \in Pins :
         ImportPhrase(t, a, pin) \/ ImportKey(t, a, pin) \/ CreateWallet(t, a, pin)
         \/ BeginDerive(t, a, pin) \/ BeginUnlock(t, a, pin)
    \/ ConfirmBackup(t)
    \/ \E pin \in Pins : BeginChangePin(t, pin) \/ ExportFile(t, pin)
    \/ \E f \in files, pin \in Pins : ImportFile(t, f, pin)
    \/ \E id \in Ids, pin \in Pins : UnlockScreen(t, id, pin)
    \/ EnablePasskey(t) \/ UnlockWithPasskey(t)
    \/ Lock(t) \/ CloseTab(t)
    \/ DisablePasskey

AcctSpec == AcctInit /\ [][AcctNext]_acct_vars

-----------------------------------------------------------------------------
(* Properties.                                                             *)

AcctTypeOK ==
  /\ keystore \in StoredWallets /\ manifest \in Manifests
  /\ passkey \in PasskeyUnlocks /\ files \subseteq [addr : Addrs, pin : Pins]
  /\ open \in [Tabs -> [addr : Addrs \cup {Nobody}, keys : BOOLEAN]]
  /\ started \in 0..MaxTasks
  /\ unwanted \subseteq Addrs

\* No other account's keystore goes into the slot of a.
OwnSlot(a) == \A b \in Addrs : Slot[b] = Slot[a] => b = a

\* An account that is listed with keys, that shares its slot with no other, and that
\* nobody asked to remove, can be opened with some PIN, whatever the tabs do and wherever
\* one is closed: its keystore is written before it is listed, and no removal of another
\* account takes it.  And the active account is one of those listed.
ListedAccountOpens ==
  /\ \A a \in Addrs \ unwanted :
       OwnSlot(a) /\ manifest.listed[a] = "keys" => keystore[Slot[a]].addr = a
  /\ manifest.active # Nobody => manifest.listed[manifest.active] # "no"

\* The keys in memory are those of the account the user picked: unlockAccount
\* either opens that address or fails, from whichever keystore it works and whoever else
\* has a keystore in the account's slot.
OpensTheAccountAsked ==
  [][\A t \in Tabs :
       task[t].op = "activate" /\ open'[t] # open[t] /\ open'[t] # Closed
         => open'[t].addr = task[t].addr]_acct_vars

\* No stored copy of the account opens with its old PIN.
OldPinIsUseless(t) ==
  \A id \in Ids : keystore[id] # [addr |-> task[t].addr, pin |-> task[t].pin]

\* When a change of PIN is reported as done, every save succeeded, and no other tab was
\* busy with the accounts meanwhile, no stored copy of that account opens with the old
\* PIN: `default' would be one more way in.
OldPinOpensNothing ==
  \A t \in Tabs : PinChanged(t) /\ ~task[t].failed /\ task[t].alone => OldPinIsUseless(t)

\* Not so: a change reported as done reached every copy of the account, "its per-account
\* keystore plus the `default` copy".  The loop also swallows a save that fails.
PinChangeIsWhole ==
  \A t \in Tabs : PinChanged(t) /\ task[t].alone => OldPinIsUseless(t)

=============================================================================
