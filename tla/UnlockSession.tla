---------------------------- MODULE UnlockSession ----------------------------
(***************************************************************************)
(* What keeps the wallet unlocked over a page reload                       *)
(* (wallet/unlock-session.ts), as the wallet store                         *)
(* (store/wallet-store.ts: setWallet, lock, resumeSession,                 *)
(* publishSettings) and the idle lock (hooks/useAutoLock.ts) use it.       *)
(*                                                                         *)
(* The unlocked wallet is sealed: the bytes go to the tab's                *)
(* sessionStorage (env), the key to IndexedDB, which every tab shares      *)
(* (keys).  sessionStorage is synchronous; sealing, opening and everything *)
(* in IndexedDB is awaited, so a save or a restore is an operation with a  *)
(* program counter, and an action is its code between two awaits.  A key   *)
(* id is the number of the operation that draws it: the ids are random and *)
(* only ever compared for equality, so drawing them in order loses nothing.*)
(***************************************************************************)
EXTENDS Integers, FiniteSets

CONSTANTS
  Tabs,        \* browser tabs of the wallet
  MaxOps,      \* bound: the saves and restores that are ever started
  Accounts,
  None,        \* null
  MaxNow,      \* bound: ticks of the clock
  IdleTTL,     \* the idle window, in ticks
  AbsTTL,      \* ABS_TTL_MS, in ticks
  SlowAwaits   \* the clock may move while an operation is awaited

Ops    == 1..MaxOps
Times  == 0..MaxNow
Idles  == {0, IdleTTL}     \* 0: no idle expiry
Whys   == {"fresh", "reseal", "restore"}
PCs    == {"free", "open", "settings", "seal", "write", "prune", "done"}

ASSUME NoneAssumption == None \notin Accounts \cup Int

ASSUME TimeAssumption ==
  /\ MaxOps \in Nat /\ MaxNow \in Nat /\ IdleTTL \in Nat \ {0} /\ AbsTTL \in Nat \ {0}
  /\ SlowAwaits \in BOOLEAN

\* An unlocked wallet: its account, whether its keys have been wiped, and
\* (history) when the user unlocked it.
Wallets == [acct : Accounts, wiped : BOOLEAN, since : Times]

\* SessionEnvelope; keyId is the operation that drew it.
Envelopes == [key : Ops, w : Wallets, created : Times, used : Times, idle : Idles]

NoWallet == [acct |-> None]
NoEnv    == [key |-> None]

Settings == [keep : BOOLEAN, idle : Idles]

VARIABLES
  settings,    \* the settings record in IndexedDB
  keys,        \* unlock-session-keys: key -> createdAt, or None
  env,         \* tab -> the envelope in its sessionStorage
  wallet,      \* tab -> the store's wallet; unlocked when there is one
  policy,      \* tab -> autoLockMinutes of the store's settings, None until read
  restoring,   \* tab -> isRestoringSession, with resumeInFlight
  last,        \* tab -> lastActivityRef of useAutoLock while unlocked, else 0
  op,          \* the operations
  now,         \* Date.now(), in ticks
  cleared,     \* history: keys that a tab cleared together with its envelope
  given,       \* history: those of them that the user gave up, by a lock or the settings
  copied,      \* history: keys of envelopes that were duplicated with their tab
  minted       \* history: the times from which an unlock or a change of settings
               \* by the user counted a new absolute deadline

page_vars == <<wallet, policy, restoring, last>>
vars == <<settings, keys, env, wallet, policy, restoring, last, op, now, cleared, given, copied, minted>>

Expired(e) ==
  \/ now - e.created >= AbsTTL
  \/ e.idle > 0 /\ now - e.used >= e.idle

\* hasUnlockSession
Live(t) == env[t] # NoEnv /\ ~Expired(env[t])

Unlocked(t) == wallet[t] # NoWallet

Free(o)     == op[o].pc = "free" /\ \A q \in Ops : q < o => op[q].pc # "free"
InFlight(o) == op[o].pc \notin {"free", "done"}
Quiet(t)    == \A o \in Ops : op[o].tab = t => ~InFlight(o)

\* Mutant: settings that are not read yet mean no idle expiry.
IdleMsRead(t) == IF policy[t] = None THEN 0 ELSE policy[t]

\* idleMsFromSettings, with DEFAULT_IDLE_MS for settings that are not read yet.
IdleMs(t) == IF policy[t] = None THEN IdleTTL ELSE policy[t]

NewOp == [pc |-> "free", tab |-> None, why |-> "fresh", w |-> NoWallet, mine |-> FALSE,
          created |-> None, at |-> 0, idle |-> 0, env |-> NoEnv]
Done  == [NewOp EXCEPT !.pc = "done"]

-----------------------------------------------------------------------------
Init ==
  /\ settings \in [keep : {TRUE}, idle : Idles]
  /\ keys = [o \in Ops |-> None]
  /\ env = [t \in Tabs |-> NoEnv]
  /\ wallet = [t \in Tabs |-> NoWallet]
  /\ policy = [t \in Tabs |-> None]
  /\ restoring = [t \in Tabs |-> FALSE]
  /\ last = [t \in Tabs |-> 0]
  /\ op = [o \in Ops |-> NewOp]
  /\ now = 0
  /\ cleared = {} /\ given = {} /\ copied = {}
  /\ minted = {}

-----------------------------------------------------------------------------
(* clearUnlockSession.  The envelope goes at once, and its key with it.    *)

Clear(t) ==
  /\ env' = [env EXCEPT ![t] = NoEnv]
  /\ IF env[t] = NoEnv
       THEN UNCHANGED <<keys, cleared>>
       ELSE /\ keys' = [keys EXCEPT ![env[t].key] = None]
            /\ cleared' = cleared \cup {env[t].key}

\* The user ends the session of the tab.
GiveUp(t) ==
  /\ Clear(t)
  /\ given' = IF env[t] = NoEnv THEN given ELSE given \cup {env[t].key}

\* Mutant: it seals the wallet that the store held before.
SaveStored(t, w, o) ==
  [NewOp EXCEPT !.pc = "settings", !.tab = t, !.w = wallet[t], !.mine = TRUE]

\* saveUnlockSession up to its first await.
Save(t, w, o) ==
  [NewOp EXCEPT !.pc = "settings", !.tab = t, !.w = w, !.mine = TRUE]

\* setWallet after a PIN, a passkey, an import or a switch of account; the
\* wallet it replaces is left as it is.
SetWallet(t, a, o) ==
  LET w == [acct |-> a, wiped |-> FALSE, since |-> now] IN
  /\ Free(o)
  /\ ~restoring[t]
  /\ wallet' = [wallet EXCEPT ![t] = w]
  /\ op' = [q \in Ops |-> IF q = o THEN Save(t, w, o)
                          ELSE IF op[q].tab = t THEN [op[q] EXCEPT !.mine = FALSE]
                          ELSE op[q]]
  /\ last' = IF Unlocked(t) THEN last ELSE [last EXCEPT ![t] = now]
  /\ UNCHANGED <<settings, keys, env, policy, restoring, now, cleared, given, copied, minted>>

\* lock: the keys are wiped in place, also under a save that has not read them.
LockStore(t) ==
  /\ Unlocked(t)
  /\ wallet' = [wallet EXCEPT ![t] = NoWallet]
  /\ op' = [o \in Ops |-> IF op[o].tab = t /\ op[o].mine /\ op[o].pc \in {"settings", "seal"}
                            THEN [op[o] EXCEPT !.w.wiped = TRUE] ELSE op[o]]
  /\ last' = [last EXCEPT ![t] = 0]
  /\ Clear(t)
  /\ UNCHANGED <<settings, policy, restoring, now, copied, minted>>

Lock(t) == LockStore(t) /\ GiveUp(t)

\* useAutoLock's check, by the timer or when the tab becomes visible.
AutoLock(t) ==
  /\ IdleMs(t) > 0
  /\ now - last[t] >= IdleMs(t)
  /\ LockStore(t) /\ UNCHANGED given

\* onActivity and touchUnlockSession; its throttle is below a tick.
Activity(t) ==
  /\ Unlocked(t)
  /\ IdleMs(t) > 0
  /\ last' = [last EXCEPT ![t] = now]
  /\ IF env[t] # NoEnv /\ Expired(env[t])
       THEN Clear(t)
       ELSE /\ env' = IF env[t] = NoEnv THEN env ELSE [env EXCEPT ![t].used = now]
            /\ UNCHANGED <<keys, cleared>>
  /\ UNCHANGED <<settings, wallet, policy, restoring, op, now, given, copied, minted>>

\* initRpc reads the settings into the store.
LoadPolicy(t) ==
  /\ policy[t] = None
  /\ policy' = [policy EXCEPT ![t] = settings.idle]
  /\ last' = IF Unlocked(t) /\ IdleMs(t) # settings.idle THEN [last EXCEPT ![t] = now] ELSE last
  /\ UNCHANGED <<settings, keys, env, wallet, restoring, op, now, cleared, given, copied, minted>>

\* setSettings and publishSettings: the session is re-sealed, or cleared.
SetSettings(t, s, o) ==
  LET w == wallet[t]
      c == IF env[t] = NoEnv THEN None ELSE env[t].created
  IN
  /\ Unlocked(t)
  /\ s # settings
  /\ Free(o)
  /\ settings' = s
  /\ policy' = [policy EXCEPT ![t] = s.idle]
  /\ last' = [last EXCEPT ![t] = now]
  /\ IF s.keep
       THEN /\ op' = [op EXCEPT ![o] = [NewOp EXCEPT !.pc = "seal", !.tab = t, !.w = w,
                        !.why = "reseal", !.mine = TRUE, !.at = now, !.idle = s.idle,
                        !.created = c]]
            /\ minted' = IF c = None THEN minted \cup {now} ELSE minted
            /\ UNCHANGED <<keys, env, cleared, given>>
       ELSE GiveUp(t) /\ UNCHANGED <<op, minted>>
  /\ UNCHANGED <<wallet, restoring, now, copied>>

-----------------------------------------------------------------------------
(* Page loads.                                                             *)

\* What a load takes away: the store, and every operation of the page.
Fresh(t) == [q \in Ops |-> IF op[q].tab = t /\ InFlight(q) THEN Done ELSE op[q]]

\* resumeSession on mount, called by every root and twice by StrictMode:
\* resumeInFlight makes it one restoreUnlockSession.
Resume(t, e, o) ==
  /\ Free(o)
  /\ op' = [Fresh(t) EXCEPT ![o] = [NewOp EXCEPT !.pc = "open", !.tab = t, !.why = "restore",
                                                 !.w = e.w, !.created = e.created, !.env = e]]
  /\ restoring' = [restoring EXCEPT ![t] = TRUE]

\* A load with no live envelope leaves the PIN screen.
Reload(t) ==
  /\ wallet' = [wallet EXCEPT ![t] = NoWallet]
  /\ policy' = [policy EXCEPT ![t] = None]
  /\ \/ /\ ~Live(t)
        /\ op' = Fresh(t)
        /\ restoring' = [restoring EXCEPT ![t] = FALSE]
     \/ Live(t) /\ \E o \in Ops : Resume(t, env[t], o)
  /\ last' = [last EXCEPT ![t] = 0]
  /\ UNCHANGED <<settings, keys, env, now, cleared, given, copied, minted>>

\* The browser duplicates a tab, or the wallet opens a window: the new one
\* starts with a copy of the envelope.
Duplicate(t, u, o) ==
  /\ Live(t)
  /\ ~Unlocked(u) /\ ~restoring[u] /\ env[u] = NoEnv /\ Quiet(u)
  /\ env' = [env EXCEPT ![u] = env[t]]
  /\ policy' = [policy EXCEPT ![u] = None]
  /\ Resume(u, env[t], o)
  /\ copied' = copied \cup {env[t].key}
  /\ UNCHANGED <<settings, keys, wallet, last, now, cleared, given, minted>>

\* The tab goes away with its sessionStorage; the key stays.
Close(t) ==
  /\ env[t] # NoEnv \/ Unlocked(t)
  /\ env' = [env EXCEPT ![t] = NoEnv]
  /\ wallet' = [wallet EXCEPT ![t] = NoWallet]
  /\ policy' = [policy EXCEPT ![t] = None]
  /\ restoring' = [restoring EXCEPT ![t] = FALSE]
  /\ op' = Fresh(t)
  /\ last' = [last EXCEPT ![t] = 0]
  /\ UNCHANGED <<settings, keys, now, cleared, given, copied, minted>>

-----------------------------------------------------------------------------
(* The steps of saveUnlockSession and restoreUnlockSession.                *)

Goes(o, pc) == op' = [op EXCEPT ![o].pc = pc]

\* The operation returns; a restore puts its wallet into the store.
Return(o) ==
  LET t == op[o].tab IN
  /\ op' = [op EXCEPT ![o] = Done]
  /\ IF op[o].why = "restore"
       THEN /\ wallet' = [wallet EXCEPT ![t] = op[o].w]
            /\ restoring' = [restoring EXCEPT ![t] = FALSE]
            /\ last' = [last EXCEPT ![t] = now]
       ELSE UNCHANGED <<wallet, restoring, last>>

\* Mutant: the flag of a restore that throws is never taken back.
ThrowRestoring(o) ==
  /\ op' = [op EXCEPT ![o] = Done]
  /\ IF op[o].why = "restore" THEN Clear(op[o].tab) ELSE UNCHANGED <<keys, env, cleared>>
  /\ UNCHANGED <<wallet, restoring, last>>

\* It throws; a restore clears the session and leaves the PIN screen.
Throw(o) ==
  /\ op' = [op EXCEPT ![o] = Done]
  /\ IF op[o].why = "restore"
       THEN /\ Clear(op[o].tab)
            /\ restoring' = [restoring EXCEPT ![op[o].tab] = FALSE]
       ELSE UNCHANGED <<keys, env, cleared, restoring>>
  /\ UNCHANGED <<wallet, last>>

\* Mutant: a wallet that was restored is sealed like one that was unlocked.
OpenSealedAnew(o) ==
  /\ op[o].pc = "open"
  /\ keys[op[o].env.key] # None
  /\ op' = [op EXCEPT ![o].pc = "settings", ![o].created = None]
  /\ UNCHANGED <<settings, keys, env, wallet, policy, restoring, last, now, cleared, given, copied, minted>>

\* getUnlockSessionKey returned the key: the wallet is opened.
OpenSealed(o) ==
  /\ op[o].pc = "open"
  /\ IF keys[op[o].env.key] # None
       THEN Goes(o, "settings") /\ UNCHANGED <<keys, env, wallet, restoring, last, cleared>>
       ELSE Throw(o)
  /\ UNCHANGED <<settings, policy, now, given, copied, minted>>

\* loadSettings returned, or failed: then the session is kept.  createdAt is
\* carried forward, or minted now.
ReadSettings(o) ==
  /\ op[o].pc = "settings"
  /\ \/ /\ \/ settings.keep /\ \E i \in {settings.idle, IdleTTL} :
                op' = [op EXCEPT ![o].pc = "seal", ![o].at = now, ![o].idle = i]
           \/ ~settings.keep /\ op' = [op EXCEPT ![o].pc = "seal", ![o].at = now,
                                                 ![o].idle = IdleTTL]
        /\ minted' = IF op[o].why = "fresh" THEN minted \cup {now} ELSE minted
        /\ UNCHANGED <<keys, env, wallet, restoring, last, cleared, given>>
     \/ /\ ~settings.keep
        /\ GiveUp(op[o].tab)
        /\ Return(o)
        /\ UNCHANGED minted
  /\ UNCHANGED <<settings, policy, now, copied>>

\* The key is generated: serializeWallet reads the wallet as it is now, and
\* putUnlockSessionKey is issued.
PutKey(o) ==
  /\ op[o].pc = "seal"
  /\ keys' = [keys EXCEPT ![o] = op[o].at]
  /\ Goes(o, "write")
  /\ UNCHANGED <<settings, env, page_vars, now, cleared, given, copied, minted>>

\* It returned: writeEnvelope.
WriteEnvelope(o) ==
  /\ op[o].pc = "write"
  /\ env' = [env EXCEPT ![op[o].tab] =
               [key |-> o, w |-> op[o].w, used |-> op[o].at, idle |-> op[o].idle,
                created |-> IF op[o].created = None THEN op[o].at ELSE op[o].created]]
  /\ Goes(o, "prune")
  /\ UNCHANGED <<settings, keys, page_vars, now, cleared, given, copied, minted>>

\* Mutant: keys are pruned by the idle window.
PruneIdle(o) ==
  /\ op[o].pc = "prune"
  /\ keys' = [q \in Ops |-> IF keys[q] # None /\ keys[q] <= now - IdleTTL THEN None
                            ELSE keys[q]]
  /\ Return(o)
  /\ UNCHANGED <<settings, env, policy, now, cleared, given, copied, minted>>

\* pruneUnlockSessionKeys(ABS_TTL_MS); that it fails is ignored.
Prune(o) ==
  /\ op[o].pc = "prune"
  /\ \/ keys' = [q \in Ops |-> IF keys[q] # None /\ keys[q] <= now - AbsTTL THEN None
                               ELSE keys[q]]
     \/ UNCHANGED keys
  /\ Return(o)
  /\ UNCHANGED <<settings, env, policy, now, cleared, given, copied, minted>>

\* IndexedDB or the cipher fails.
Fail(o) ==
  /\ op[o].pc \in {"open", "seal", "write"}
  /\ Throw(o)
  /\ UNCHANGED <<settings, policy, now, given, copied, minted>>

Tick ==
  /\ now < MaxNow
  /\ SlowAwaits \/ \A o \in Ops : ~InFlight(o)
  /\ now' = now + 1
  /\ UNCHANGED <<settings, keys, env, page_vars, op, cleared, given, copied, minted>>

-----------------------------------------------------------------------------
Continue(o) ==
  \/ OpenSealed(o) \/ ReadSettings(o) \/ PutKey(o) \/ WriteEnvelope(o) \/ Prune(o)

Next ==
  \/ \E t \in Tabs, a \in Accounts, o \in Ops : SetWallet(t, a, o)
  \/ \E t \in Tabs : Lock(t) \/ AutoLock(t) \/ Activity(t) \/ LoadPolicy(t) \/ Reload(t) \/ Close(t)
  \/ \E t \in Tabs, s \in Settings, o \in Ops : SetSettings(t, s, o)
  \/ \E t, u \in Tabs, o \in Ops : Duplicate(t, u, o)
  \/ \E o \in Ops : Continue(o) \/ Fail(o)
  \/ Tick

Spec == Init /\ [][Next]_vars

\* Awaits return, and the timer of the idle lock keeps running.
Fairness ==
  /\ \A o \in Ops : WF_vars(Continue(o))
  /\ \A t \in Tabs : WF_vars(AutoLock(t))

FairSpec == Spec /\ Fairness

-----------------------------------------------------------------------------
(* Properties.                                                             *)

OpRec == [pc : PCs, tab : Tabs \cup {None}, why : Whys, w : Wallets \cup {NoWallet},
          mine : BOOLEAN, created : Times \cup {None}, at : Times, idle : Idles,
          env : Envelopes \cup {NoEnv}]

\* The type invariant.
TypeOK ==
  /\ settings \in Settings
  /\ keys \in [Ops -> Times \cup {None}]
  /\ env \in [Tabs -> Envelopes \cup {NoEnv}]
  /\ wallet \in [Tabs -> Wallets \cup {NoWallet}]
  /\ policy \in [Tabs -> Idles \cup {None}]
  /\ restoring \in [Tabs -> BOOLEAN]
  /\ last \in [Tabs -> Times]
  /\ op \in [Ops -> OpRec]
  /\ now \in Times
  /\ cleared \subseteq Ops /\ given \subseteq Ops /\ copied \subseteq Ops
  /\ minted \subseteq Times

\* "Key first": a live envelope can be opened. No rotation, prune, crash or failure takes its
\* key; only a tab that holds a copy of the same envelope does, when it clears its own.
LiveEnvelopeOpens ==
  \A t \in Tabs : Live(t) => \/ keys[env[t].key] # None
                            \/ env[t].key \in copied \cap cleared

\* Not so: a key that "another tab (or a /connect popup that inherited a copy of this
\* envelope) may still be pointing at" is left for the age prune, unless the user ends the
\* session. A copy whose restore fails deletes it.
CopyLeavesTheKey ==
  \A t \in Tabs : Live(t) => keys[env[t].key] # None \/ env[t].key \in given

\* However often a session is reloaded, rotated or duplicated, its absolute
\* deadline is one that the user's own unlock or change of settings minted.
RefreshNeverExtends ==
  \A t \in Tabs : env[t] # NoEnv => env[t].created \in minted

\* A broken session never wedges the app on the restoring screen.
RestoreEnds == \A t \in Tabs : restoring[t] ~> ~restoring[t]

\* A tab left alone for as long as the settings in force allow: those it has read, or has
\* not been able to read so far.
LeftAlone(t) ==
  /\ Unlocked(t) /\ settings.idle > 0 /\ now - last[t] >= settings.idle
  /\ policy[t] \in {None, settings.idle}

\* A tab that is left alone locks itself, whether or not it was reloaded and whether or not
\* its settings could be read: not to know them is no reason to stay open.
IdleTabLocks == \A t \in Tabs : LeftAlone(t) ~> ~LeftAlone(t)

\* "An explicit lock destroys both halves immediately": a locked tab in which
\* nothing is under way has no session from which a reload would open the
\* wallet again.
LockedHasNoSession ==
  \A t \in Tabs :
    ~Unlocked(t) /\ ~restoring[t] /\ Quiet(t) => ~Live(t) \/ env[t].w.wiped

\* "An 8-hour absolute cap from the original unlock": no envelope counts its
\* deadline from later than the PIN that opened its wallet.
CapFromUnlock ==
  \A t \in Tabs : env[t] # NoEnv => env[t].created <= env[t].w.since

=============================================================================
