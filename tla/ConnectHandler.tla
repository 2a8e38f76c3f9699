--------------------------- MODULE ConnectHandler ---------------------------
(***************************************************************************)
(* The wallet side of a dApp connection: class ConnectHandler              *)
(* (connect/rpc-handler.ts) with its sessions (connect/session.ts, the     *)
(* sdk-sessions store of wallet/storage.ts), run first by the /connect     *)
(* popup (connect/ConnectApp.tsx) and, after the port has been handed off, *)
(* by the main wallet window (connect/host.ts, components/Layout.tsx).     *)
(*                                                                         *)
(* A handler is asynchronous: every `await' is a place where other code    *)
(* runs.  A request is a record with a program counter, and an action is   *)
(* the code between two awaits.  IndexedDB serves its operations in the    *)
(* order they are issued, so a read or a write of the store takes effect   *)
(* in the step that issues it and the code after it is a later step.       *)
(*                                                                         *)
(* A port has one handler at a time: the popup's, then the main window's.  *)
(* Its fields are functions on Ports, and stage says whose they are.       *)
(***************************************************************************)
EXTENDS Integers, FiniteSets

CONSTANTS
  Ports,      \* MessagePorts, one for each connection a dApp opens
  Reqs,       \* requests; each is delivered once, to one port
  Origins,    \* dApp origins
  Accounts,   \* accounts of the wallet
  WatchOnly,  \* the accounts that hold no keys
  Main,       \* the main wallet window
  None,       \* null
  OriginOf,   \* origin of each port, checked during the handshake
  PortOf,     \* the port each request is sent on
  KindsOf,    \* the methods each request may call
  MaxSid,     \* bound: session ids that are ever minted
  MaxNow,     \* bound: ticks of the clock
  IdleTTL,    \* IDLE_TTL_MS
  AbsTTL      \* ABS_TTL_MS

SignKinds  == {"signMsg", "signTx"}
ReadKinds  == {"readAddr", "readBal"}
EndKinds   == {"disconnect", "userDisconnect"}
Kinds      == {"connect"} \cup EndKinds \cup ReadKinds \cup SignKinds
Stages     == {"popup", "transit", "main", "closed"}
Hosts      == {"popup", "main"}
Windows    == Ports \cup {Main}
Sids       == 1..MaxSid
Deadlines  == 0..(MaxNow + AbsTTL)
Results    == {"none", "ok", "unauthorized", "expired", "rejected", "locked",
               "internal", "dropped"}
PCs        == {"new", "restored", "approve", "pin", "keyed", "chain", "created",
               "bound", "reply", "ending", "expiring", "touched", "nonce",
               "granted", "done"}

ASSUME NoneAssumption ==
  None \notin Ports \cup Reqs \cup Origins \cup Accounts \cup {Main} \cup Int

ASSUME MainAssumption == Main \notin Ports

ASSUME WiringAssumption ==
  /\ WatchOnly \subseteq Accounts
  /\ OriginOf \in [Ports -> Origins]
  /\ PortOf \in [Reqs -> Ports]
  /\ KindsOf \in [Reqs -> SUBSET Kinds]

ASSUME BoundAssumption ==
  /\ MaxSid \in Nat /\ MaxNow \in Nat /\ IdleTTL \in Nat /\ AbsTTL \in Nat
  /\ 0 < IdleTTL /\ IdleTTL < AbsTTL

VARIABLES
  store,      \* sdk-sessions: sid -> the persisted record, or NoRec
  minted,     \* number of sids minted so far
  trusted,    \* sdk-trusted-sites
  now,        \* Date.now(), in ticks
  stage,      \* who runs the handler of a port
  session,    \* this.session (its sid): null when not connected
  mem,        \* the in-memory record objects a port's handler works on
  addr,       \* this.sessionAddress
  wallet,     \* this.sessionWallet: the account whose keys it holds
  carried,    \* the wallet travelling in the handoff message
  adopting,   \* 0: no adoption under way; else what restoreSession returned
  active,     \* window -> account unlocked in it; null = the window is locked
  chosen,     \* window -> the host's session account
  slot,       \* popup -> the request whose prompt is on screen
  pin,        \* window -> the request waiting for an account PIN
  verifying,  \* window -> the request whose PIN is being checked
  unlockAddr, \* the main window's prompt holds the address it asks for
  tearDown,   \* the main window locked, its effect has not run yet
  rq,         \* the requests
  consented   \* history: <<origin, account>> the user has agreed to share

store_vars  == <<store, minted>>
pin_vars    == <<pin, verifying, unlockAddr>>
host_vars   == <<active, chosen, slot, pin_vars>>
conn_vars   == <<session, mem, addr, wallet>>
vars == <<store, minted, trusted, now, stage, session, mem, addr, wallet, carried,
          adopting, active, chosen, slot, pin, verifying, unlockAddr, tearDown, rq,
          consented>>

-----------------------------------------------------------------------------
(* SdkSessionRecord.  idleExpiresAt is min(used + IdleTTL, abs).           *)

Rec == [origin : Origins, addr : Accounts, granted : SUBSET SignKinds,
        used : 0..MaxNow, abs : Deadlines]

NoRec == [origin |-> None, addr |-> None, granted |-> {}, used |-> 0, abs |-> 0]

isExpired(rec) == rec.abs <= now \/ rec.used + IdleTTL <= now

\* Mutant: every live session, whatever its origin.
LiveOfAnyone(o) == {s \in Sids : store[s] # NoRec /\ ~isExpired(store[s])}

\* findSdkSessionByOrigin: the live sessions of an origin, most recent first.
Live(o)   == {s \in Sids : store[s].origin = o /\ ~isExpired(store[s])}
Latest(o) == {s \in Live(o) : \A t \in Live(o) : store[t].used <= store[s].used}
Restored(o, s) == IF Live(o) = {} THEN s = None ELSE s \in Latest(o)

Win(x)    == IF stage[x] = "popup" THEN x ELSE Main
ReqWin(r) == IF rq[r].host = "popup" THEN PortOf[r] ELSE Main

\* The request's own handler still owns its port: replies reach the dApp.
Owns(r) == stage[PortOf[r]] = rq[r].host

InFlight(r) == rq[r].pc \notin {"new", "done"}

currentAccount(x) == IF addr[x] # None THEN addr[x] ELSE active[Win(x)]
currentWallet(x)  == IF addr[x] # None /\ wallet[x] # None THEN wallet[x]
                     ELSE active[Win(x)]
hostAccount(w)    == IF chosen[w] # None THEN chosen[w] ELSE active[w]

NewReq == [kind |-> None, pc |-> "new", host |-> "popup", sid |-> None,
           acct |-> None, signer |-> None, nonceOf |-> None, result |-> "none"]

ReqRec == [kind : Kinds \cup {None}, pc : PCs, host : Hosts,
           sid : Sids \cup {None}, acct : Accounts \cup {None},
           signer : Accounts \cup {None}, nonceOf : Accounts \cup {None},
           result : Results]

\* reply/fail: a handler that no longer owns its port answers nobody.
Finish(r, res) ==
  rq' = [rq EXCEPT ![r].pc = "done", ![r].result = IF Owns(r) THEN res ELSE "dropped"]

\* handleRequest, by the window that owns the port now.
Started(r, k, pc, s, res) ==
  [kind |-> k, pc |-> pc, host |-> stage[PortOf[r]], sid |-> s, acct |-> None,
   signer |-> None, nonceOf |-> None, result |-> res]

\* ... up to the first await of the method,
Begin(r, k, next, s) == rq' = [rq EXCEPT ![r] = Started(r, k, next, s, "none")]

\* ... and when it answers without one.
Answer(r, k, res) == rq' = [rq EXCEPT ![r] = Started(r, k, "done", None, res)]

\* A request is delivered to whoever owns the port.
Delivered(r, k) ==
  /\ rq[r].pc = "new"
  /\ k \in KindsOf[r]
  /\ stage[PortOf[r]] \in Hosts

\* The locked-wallet gate lets these through: {DISCONNECT, PING}.  A popup is
\* unlocked before it opens the channel and has no way to lock again.
Gate(r, k) == k \in EndKinds \/ active[Win(PortOf[r])] # None

-----------------------------------------------------------------------------
Init ==
  /\ store = [s \in Sids |-> NoRec]
  /\ minted = 0
  /\ trusted = {}
  /\ now = 0
  /\ stage = [x \in Ports |-> "popup"]
  /\ session = [x \in Ports |-> None]
  /\ mem = [x \in Ports |-> [s \in Sids |-> NoRec]]
  /\ addr = [x \in Ports |-> None]
  /\ wallet = [x \in Ports |-> None]
  /\ carried = [x \in Ports |-> None]
  /\ adopting = [x \in Ports |-> 0]
  /\ \E a \in Accounts : active = [w \in Windows |-> a]
  /\ chosen = [w \in Windows |-> None]
  /\ slot = [x \in Ports |-> None]
  /\ pin = [w \in Windows |-> None]
  /\ verifying = [w \in Windows |-> None]
  /\ unlockAddr = FALSE
  /\ tearDown = FALSE
  /\ rq = [r \in Reqs |-> NewReq]
  /\ consented = {}

-----------------------------------------------------------------------------
(* Arrival.                                                                *)

\* requestUnlock of the main window resolves at once with isUnlocked.
ArriveLocked(r) ==
  \E k \in Kinds :
    /\ Delivered(r, k)
    /\ k # "userDisconnect"
    /\ ~Gate(r, k)
    /\ Answer(r, k, "locked")
    /\ UNCHANGED <<store_vars, host_vars, conn_vars, trusted, now, stage, carried,
                   adopting, tearDown, consented>>

\* onConnect: restoreSession(origin).  The SDK has one connect at a time.
StartConnect(r) ==
  LET x == PortOf[r] IN
  /\ Delivered(r, "connect")
  /\ Gate(r, "connect")
  /\ \A q \in Reqs : PortOf[q] = x /\ rq[q].kind = "connect" => ~InFlight(q)
  /\ \E s \in Sids \cup {None} :
       /\ Restored(OriginOf[x], s)
       /\ Begin(r, "connect", "restored", s)
       /\ mem' = IF s = None THEN mem ELSE [mem EXCEPT ![x][s] = store[s]]
  /\ UNCHANGED <<store_vars, host_vars, trusted, now, stage, session, addr, wallet,
                 carried, adopting, tearDown, consented>>

\* endCurrentSession, called by the dApp or by the popup's Disconnect button,
\* which is enabled while a session is shown.
StartDisconnect(r) ==
  LET x == PortOf[r] IN
  \E k \in EndKinds :
    /\ Delivered(r, k)
    /\ k = "userDisconnect" => stage[x] = "popup" /\ session[x] # None
    /\ IF session[x] = None
         THEN Answer(r, k, "ok") /\ UNCHANGED store
         ELSE /\ Begin(r, k, "ending", session[x])
              /\ store' = [store EXCEPT ![session[x]] = NoRec]
    /\ UNCHANGED <<minted, host_vars, conn_vars, trusted, now, stage, carried, adopting,
                   tearDown, consented>>

\* requireSession, the entry of every read and every signature.
StartUse(r) ==
  LET x == PortOf[r]
      s == session[x]
  IN
  \E k \in ReadKinds \cup SignKinds :
    /\ Delivered(r, k)
    /\ Gate(r, k)
    /\ \/ /\ s = None
          /\ Answer(r, k, "unauthorized")
          /\ UNCHANGED <<store, mem>>
       \/ /\ s # None
          /\ isExpired(mem[x][s])
          /\ Begin(r, k, "expiring", s)
          /\ store' = [store EXCEPT ![s] = NoRec]
          /\ UNCHANGED mem
       \/ /\ s # None
          /\ ~isExpired(mem[x][s])
          /\ Begin(r, k, "touched", s)
          /\ mem' = [mem EXCEPT ![x][s].used = now]
          /\ store' = [store EXCEPT ![s] = mem'[x][s]]
    /\ UNCHANGED <<minted, host_vars, trusted, now, stage, session, addr, wallet, carried,
                   adopting, tearDown, consented>>

-----------------------------------------------------------------------------
(* onConnect.                                                              *)

\* setSessionAccount, sessionAddress and requestUnlockAccount: the account
\* unlocked in the window is at hand, any other asks for its PIN.  There is one
\* PIN prompt to a window, and a newer one takes the place of an older.
BindAccount(r, a) ==
  LET x == PortOf[r]
      w == ReqWin(r)
      atHand == active[w] = a
  IN
  /\ chosen' = [chosen EXCEPT ![w] = a]
  /\ addr' = [addr EXCEPT ![x] = a]
  /\ rq' = [rq EXCEPT ![r].acct = a,
                      ![r].pc = IF atHand THEN "keyed" ELSE "pin",
                      ![r].signer = IF atHand THEN a ELSE None]
  /\ pin' = IF atHand THEN pin ELSE [pin EXCEPT ![w] = r]
  /\ unlockAddr' = IF atHand \/ w # Main THEN unlockAddr ELSE active[Main] # None
  /\ UNCHANGED verifying

\* requestApproval: the popup shows one prompt, the newest; the main window
\* lists them all.
Ask(r) ==
  slot' = IF rq[r].host = "popup" THEN [slot EXCEPT ![PortOf[r]] = r] ELSE slot

\* What follows restoreSession.  The read of sdk-trusted-sites is merged in.
Reconnect(r) ==
  /\ rq[r].pc = "restored"
  /\ rq[r].sid # None
  /\ BindAccount(r, mem[PortOf[r]][rq[r].sid].addr)
  /\ UNCHANGED <<store_vars, trusted, now, stage, session, mem, wallet, carried, adopting,
                 active, slot, tearDown, consented>>

ConnectTrusted(r) ==
  LET x == PortOf[r] IN
  /\ rq[r].pc = "restored"
  /\ rq[r].sid = None
  /\ OriginOf[x] \in trusted
  /\ \E a \in Accounts :
       /\ active[ReqWin(r)] # None => a = active[ReqWin(r)]
       /\ BindAccount(r, a)
       /\ consented' = consented \cup {<<OriginOf[x], a>>}
  /\ UNCHANGED <<store_vars, trusted, now, stage, session, mem, wallet, carried, adopting,
                 active, slot, tearDown>>

AskConnect(r) ==
  /\ rq[r].pc = "restored"
  /\ rq[r].sid = None
  /\ OriginOf[PortOf[r]] \notin trusted
  /\ rq' = [rq EXCEPT ![r].pc = "approve"]
  /\ Ask(r)
  /\ UNCHANGED <<store_vars, conn_vars, pin_vars, trusted, now, stage, carried, adopting,
                 active, chosen, tearDown, consented>>

\* The user can decide on r: its prompt is on screen.  The main window renders
\* its prompts only while it is unlocked.
Prompted(r) ==
  /\ rq[r].pc = "approve"
  /\ IF rq[r].host = "popup" THEN slot[PortOf[r]] = r ELSE active[Main] # None

TakeDown(r) ==
  slot' = IF rq[r].host = "popup" THEN [slot EXCEPT ![PortOf[r]] = None] ELSE slot

\* Mutant: the account that is active in the window, not the one picked.
ApproveConnectActive(r) ==
  LET o == OriginOf[PortOf[r]]
      w == ReqWin(r)
  IN
  /\ Prompted(r)
  /\ rq[r].kind = "connect"
  /\ TakeDown(r)
  /\ \E a \in Accounts :
       /\ BindAccount(r, IF active[w] # None THEN active[w] ELSE a)
       /\ consented' = consented \cup {<<o, a>>}
  /\ trusted' \in {trusted, trusted \cup {o}}
  /\ UNCHANGED <<store_vars, now, stage, session, mem, wallet, carried, adopting, active,
                 tearDown>>

\* The user picks an account in the prompt, and may trust the site.
ApproveConnect(r) ==
  LET o == OriginOf[PortOf[r]] IN
  /\ Prompted(r)
  /\ rq[r].kind = "connect"
  /\ TakeDown(r)
  /\ \E a \in Accounts :
       /\ BindAccount(r, a)
       /\ consented' = consented \cup {<<o, a>>}
  /\ trusted' \in {trusted, trusted \cup {o}}
  /\ UNCHANGED <<store_vars, now, stage, session, mem, wallet, carried, adopting, active,
                 tearDown>>

Reject(r) ==
  /\ Prompted(r)
  /\ TakeDown(r)
  /\ Finish(r, "rejected")
  /\ UNCHANGED <<store_vars, conn_vars, pin_vars, trusted, now, stage, carried, adopting,
                 active, chosen, tearDown, consented>>

\* The user types a PIN; unlockAccount is awaited, and cannot be cancelled.
PinSubmit(w) ==
  /\ pin[w] # None
  /\ verifying[w] = None
  /\ w = Main => active[Main] # None /\ unlockAddr
  /\ verifying' = [verifying EXCEPT ![w] = pin[w]]
  /\ UNCHANGED <<store_vars, conn_vars, trusted, now, stage, carried, adopting, active,
                 chosen, slot, pin, unlockAddr, tearDown, rq, consented>>

\* The PIN was right.  The popup resolves the request it was typed for and
\* empties the prompt; the main window resolves the request now in the prompt.
PinVerified(w) ==
  LET v == verifying[w]
      r == IF w = Main THEN pin[Main] ELSE v
  IN
  /\ v # None
  /\ rq' = IF r = None THEN rq
           ELSE [rq EXCEPT ![r].pc = "keyed", ![r].signer = rq[v].acct]
  /\ pin' = [pin EXCEPT ![w] = None]
  /\ verifying' = [verifying EXCEPT ![w] = None]
  /\ unlockAddr' = IF w = Main THEN FALSE ELSE unlockAddr
  /\ UNCHANGED <<store_vars, conn_vars, trusted, now, stage, carried, adopting, active,
                 chosen, slot, tearDown, consented>>

PinWrong(w) ==
  /\ verifying[w] # None
  /\ verifying' = [verifying EXCEPT ![w] = None]
  /\ UNCHANGED <<store_vars, conn_vars, trusted, now, stage, carried, adopting, active,
                 chosen, slot, pin, unlockAddr, tearDown, rq, consented>>

\* Mutant: the prompt closes and its promise is left pending.
PinCancelSilent(w) ==
  /\ pin[w] # None
  /\ verifying[w] = None
  /\ pin' = [pin EXCEPT ![w] = None]
  /\ UNCHANGED <<store_vars, conn_vars, verifying, unlockAddr, trusted, now, stage, carried,
                 adopting, active, chosen, slot, tearDown, rq, consented>>

PinCancel(w) ==
  /\ pin[w] # None
  /\ verifying[w] = None
  /\ w = Main => active[Main] # None
  /\ rq' = [rq EXCEPT ![pin[w]].pc = "keyed"]
  /\ pin' = [pin EXCEPT ![w] = None]
  /\ unlockAddr' = IF w = Main THEN FALSE ELSE unlockAddr
  /\ UNCHANGED <<store_vars, conn_vars, verifying, trusted, now, stage, carried, adopting,
                 active, chosen, slot, tearDown, consented>>

\* Mutant: the absolute deadline slides with use.
TouchSliding(x, s) ==
  /\ mem' = [mem EXCEPT ![x][s].used = now, ![x][s].abs = now + AbsTTL]
  /\ store' = [store EXCEPT ![s] = mem'[x][s]]

\* touchSession: the record is changed in place and saved.
Touch(x, s) ==
  /\ mem' = [mem EXCEPT ![x][s].used = now]
  /\ store' = [store EXCEPT ![s] = mem'[x][s]]

\* requestUnlockAccount returned, to a connect that restored a session ...
KeyedRestored(r) ==
  LET x == PortOf[r] IN
  /\ rq[r].pc = "keyed"
  /\ rq[r].sid # None
  /\ wallet' = [wallet EXCEPT ![x] =
                  IF rq[r].signer # None THEN rq[r].signer ELSE active[ReqWin(r)]]
  /\ Touch(x, rq[r].sid)
  /\ rq' = [rq EXCEPT ![r].pc = "bound"]
  /\ UNCHANGED <<minted, host_vars, trusted, now, stage, session, addr, carried, adopting,
                 tearDown, consented>>

\* ... and to one that did not.
KeyedFresh(r) ==
  /\ rq[r].pc = "keyed"
  /\ rq[r].sid = None
  /\ IF rq[r].signer = None
       THEN Finish(r, "rejected") /\ UNCHANGED wallet
       ELSE /\ wallet' = [wallet EXCEPT ![PortOf[r]] = rq[r].signer]
            /\ rq' = [rq EXCEPT ![r].pc = "chain"]
  /\ UNCHANGED <<store_vars, host_vars, trusted, now, stage, session, mem, addr, carried,
                 adopting, tearDown, consented>>

\* Mutant: the absolute deadline is counted from the idle one.
CreateSessionLate(r) ==
  LET x == PortOf[r]
      s == minted + 1
      rec == [origin |-> OriginOf[x], addr |-> rq[r].acct, granted |-> {}, used |-> now,
              abs |-> now + IdleTTL + AbsTTL]
  IN
  /\ rq[r].pc = "chain"
  /\ minted < MaxSid
  /\ minted' = s
  /\ store' = [store EXCEPT ![s] = rec]
  /\ mem' = [mem EXCEPT ![x][s] = rec]
  /\ rq' = [rq EXCEPT ![r].pc = "created", ![r].sid = s]
  /\ UNCHANGED <<host_vars, trusted, now, stage, session, addr, wallet, carried, adopting,
                 tearDown, consented>>

\* getChainId answered: createSession.
CreateSession(r) ==
  LET x == PortOf[r]
      s == minted + 1
      rec == [origin |-> OriginOf[x], addr |-> rq[r].acct, granted |-> {}, used |-> now,
              abs |-> now + AbsTTL]
  IN
  /\ rq[r].pc = "chain"
  /\ minted < MaxSid
  /\ minted' = s
  /\ store' = [store EXCEPT ![s] = rec]
  /\ mem' = [mem EXCEPT ![x][s] = rec]
  /\ rq' = [rq EXCEPT ![r].pc = "created", ![r].sid = s]
  /\ UNCHANGED <<host_vars, trusted, now, stage, session, addr, wallet, carried, adopting,
                 tearDown, consented>>

TouchCreated(r) ==
  /\ rq[r].pc = "created"
  /\ Touch(PortOf[r], rq[r].sid)
  /\ rq' = [rq EXCEPT ![r].pc = "bound"]
  /\ UNCHANGED <<minted, host_vars, trusted, now, stage, session, addr, wallet, carried,
                 adopting, tearDown, consented>>

\* touchSession returned: setSession, then getChainId is awaited for the reply.
SetSession(r) ==
  LET x == PortOf[r] IN
  /\ rq[r].pc = "bound"
  /\ session' = [session EXCEPT ![x] = rq[r].sid]
  /\ rq' = [rq EXCEPT ![r].pc = "reply",
                      ![r].acct = IF currentAccount(x) # None THEN currentAccount(x)
                                  ELSE mem[x][rq[r].sid].addr]
  /\ UNCHANGED <<store_vars, host_vars, trusted, now, stage, mem, addr, wallet, carried,
                 adopting, tearDown, consented>>

\* this.session!.sid throws when the session was ended meanwhile.
ReplyConnect(r) ==
  /\ rq[r].pc = "reply"
  /\ Finish(r, IF session[PortOf[r]] = None THEN "internal" ELSE "ok")
  /\ UNCHANGED <<store_vars, host_vars, conn_vars, trusted, now, stage, carried, adopting,
                 tearDown, consented>>

-----------------------------------------------------------------------------
(* onDisconnect, requireSession's expiry, onRead and onSign.               *)

\* deleteSdkSession returned.  A popup that has handed its port off clears the
\* fields of its own, dead handler only.
EndSession(r) ==
  LET x == PortOf[r]
      mine == stage[x] = "closed" \/ Owns(r)
      cleared(f) == IF mine THEN [f EXCEPT ![x] = None] ELSE f
  IN
  /\ rq[r].pc = "ending"
  /\ session' = cleared(session)
  /\ addr' = cleared(addr)
  /\ wallet' = cleared(wallet)
  /\ Finish(r, "ok")
  /\ UNCHANGED <<store_vars, host_vars, mem, trusted, now, stage, carried, adopting,
                 tearDown, consented>>

\* SESSION_EXPIRED: the account and the wallet stay set.
ExpireSession(r) ==
  /\ rq[r].pc = "expiring"
  /\ session' = [session EXCEPT ![PortOf[r]] = None]
  /\ Finish(r, "expired")
  /\ UNCHANGED <<store_vars, host_vars, mem, addr, wallet, trusted, now, stage, carried,
                 adopting, tearDown, consented>>

\* this.session = await touchSession(this.session)
Resume(r) == session' = [session EXCEPT ![PortOf[r]] = rq[r].sid]

Read(r) ==
  /\ rq[r].pc = "touched"
  /\ rq[r].kind \in ReadKinds
  /\ Resume(r)
  /\ rq' = [rq EXCEPT ![r].pc = "done",
                      ![r].result = IF Owns(r) THEN "ok" ELSE "dropped",
                      ![r].acct = IF rq[r].kind = "readAddr" THEN currentAccount(PortOf[r])
                                  ELSE hostAccount(ReqWin(r))]
  /\ UNCHANGED <<store_vars, host_vars, mem, addr, wallet, trusted, now, stage, carried,
                 adopting, tearDown, consented>>

\* onSign up to its next await: the prompt, or the nonce of a transaction.
Sign(r) ==
  LET signer == currentWallet(PortOf[r])
      nonceOf == hostAccount(ReqWin(r))
      ask == rq[r].kind = "signMsg"
  IN
  /\ rq[r].pc = "touched"
  /\ rq[r].kind \in SignKinds
  /\ Resume(r)
  /\ \/ /\ signer = None
        /\ Finish(r, "locked")
        /\ UNCHANGED slot
     \/ /\ signer \in WatchOnly
        /\ Finish(r, "unauthorized")
        /\ UNCHANGED slot
     \/ /\ signer \in Accounts \ WatchOnly
        /\ ask \/ nonceOf # None
        /\ rq' = [rq EXCEPT ![r].pc = IF ask THEN "approve" ELSE "nonce",
                            ![r].signer = signer,
                            ![r].nonceOf = IF ask THEN None ELSE nonceOf]
        /\ IF ask THEN Ask(r) ELSE UNCHANGED slot
     \/ /\ signer \in Accounts \ WatchOnly
        /\ ~ask /\ nonceOf = None
        /\ Finish(r, "internal")
        /\ UNCHANGED slot
  /\ UNCHANGED <<store_vars, mem, addr, wallet, active, chosen, pin_vars, trusted, now,
                 stage, carried, adopting, tearDown, consented>>

\* Mutant: a trusted site's transactions are not asked for either.
NonceArrivedUnasked(r) ==
  LET known == OriginOf[PortOf[r]] \in trusted IN
  /\ rq[r].pc = "nonce"
  /\ rq' = [rq EXCEPT ![r].pc = IF known THEN "granted" ELSE "approve"]
  /\ IF known THEN UNCHANGED slot ELSE Ask(r)
  /\ UNCHANGED <<store_vars, conn_vars, pin_vars, active, chosen, trusted, now, stage,
                 carried, adopting, tearDown, consented>>

\* The nonce arrived and the transaction is shown; or either of them failed.
NonceArrived(r) ==
  /\ rq[r].pc = "nonce"
  /\ \/ rq' = [rq EXCEPT ![r].pc = "approve"] /\ Ask(r)
     \/ Finish(r, "internal") /\ UNCHANGED slot
  /\ UNCHANGED <<store_vars, conn_vars, pin_vars, active, chosen, trusted, now, stage,
                 carried, adopting, tearDown, consented>>

\* grantPermission: saved only when the scope is new.
ApproveSign(r) ==
  LET x == PortOf[r]
      s == rq[r].sid
      isNew == rq[r].kind \notin mem[x][s].granted
  IN
  /\ Prompted(r)
  /\ rq[r].kind \in SignKinds
  /\ TakeDown(r)
  /\ mem' = [mem EXCEPT ![x][s].granted = @ \cup {rq[r].kind}]
  /\ store' = IF isNew THEN [store EXCEPT ![s] = mem'[x][s]] ELSE store
  /\ rq' = [rq EXCEPT ![r].pc = "granted"]
  /\ UNCHANGED <<minted, session, addr, wallet, active, chosen, pin_vars, trusted, now,
                 stage, carried, adopting, tearDown, consented>>

\* this.session = ..., then sign and reply.
ReplySigned(r) ==
  /\ rq[r].pc = "granted"
  /\ Resume(r)
  /\ Finish(r, "ok")
  /\ UNCHANGED <<store_vars, host_vars, mem, addr, wallet, trusted, now, stage, carried,
                 adopting, tearDown, consented>>

-----------------------------------------------------------------------------
(* Handoff: maybeHandoff in the popup, adoptHandoff in the main window.    *)

\* Mutant: requests in flight are not waited for.
IdleScreen(x) == slot[x] = None /\ pin[x] = None

\* After a connect reply, as soon as nothing is in flight and nothing is on
\* screen.  inFlight counts the dApp's requests; disconnectByUser is not one.
Idle(x) ==
  /\ slot[x] = None
  /\ pin[x] = None
  /\ \A r \in Reqs : PortOf[r] = x /\ InFlight(r) => rq[r].kind = "userDisconnect"

Handoff(x) ==
  /\ stage[x] = "popup"
  /\ \E r \in Reqs : (PortOf[r] = x) /\ rq[r].kind = "connect" /\ rq[r].result = "ok"
  /\ Idle(x)
  /\ stage' = [stage EXCEPT ![x] = "transit"]
  /\ carried' = [carried EXCEPT ![x] = wallet[x]]
  /\ session' = [session EXCEPT ![x] = None]
  /\ addr' = [addr EXCEPT ![x] = None]
  /\ wallet' = [wallet EXCEPT ![x] = None]
  /\ mem' = [mem EXCEPT ![x] = [s \in Sids |-> NoRec]]
  /\ UNCHANGED <<store_vars, host_vars, trusted, now, adopting, tearDown, rq, consented>>

\* Mutant: the session travels in the message and is not read again.
AdoptFromMessage(x) ==
  /\ stage[x] = "transit"
  /\ stage' = [stage EXCEPT ![x] = "main"]
  /\ \E r \in Reqs :
       /\ (PortOf[r] = x) /\ rq[r].kind = "connect" /\ rq[r].result = "ok"
       /\ adopting' = [adopting EXCEPT ![x] = rq[r].sid]
       /\ mem' = [mem EXCEPT ![x][rq[r].sid] =
                    [origin |-> OriginOf[x], addr |-> rq[r].acct, granted |-> {},
                     used |-> now, abs |-> now + AbsTTL]]
  /\ UNCHANGED <<store_vars, host_vars, session, addr, wallet, trusted, now, carried,
                 tearDown, rq, consented>>

\* The handler is constructed, and restoreSession(origin) issued.
Adopt(x) ==
  /\ stage[x] = "transit"
  /\ stage' = [stage EXCEPT ![x] = "main"]
  /\ \E s \in Sids \cup {None} :
       /\ Restored(OriginOf[x], s)
       /\ adopting' = [adopting EXCEPT ![x] = s]
       /\ mem' = IF s = None THEN mem ELSE [mem EXCEPT ![x][s] = store[s]]
  /\ UNCHANGED <<store_vars, host_vars, session, addr, wallet, trusted, now, carried,
                 tearDown, rq, consented>>

\* adoptSession; a read that failed adopts no session.
AdoptSession(x) ==
  LET s == adopting[x] IN
  /\ s # 0
  /\ \/ /\ s # None
        /\ session' = [session EXCEPT ![x] = s]
        /\ addr' = [addr EXCEPT ![x] = mem[x][s].addr]
        /\ wallet' = [wallet EXCEPT ![x] = carried[x]]
        /\ chosen' = [chosen EXCEPT ![Main] = mem[x][s].addr]
     \/ UNCHANGED <<session, addr, wallet, chosen>>
  /\ adopting' = [adopting EXCEPT ![x] = 0]
  /\ UNCHANGED <<store_vars, mem, active, slot, pin_vars, trusted, now, stage, carried,
                 tearDown, rq, consented>>

-----------------------------------------------------------------------------
(* The windows, the user and the clock.                                    *)

Lock ==
  /\ active[Main] # None
  /\ active' = [active EXCEPT ![Main] = None]
  /\ tearDown' = TRUE
  /\ unlockAddr' = FALSE
  /\ UNCHANGED <<store_vars, conn_vars, chosen, slot, pin, verifying, trusted, now, stage,
                 carried, adopting, rq, consented>>

\* Mutant: the adopted handlers keep their ports.
TearDownNothing ==
  /\ tearDown
  /\ tearDown' = FALSE
  /\ UNCHANGED <<store_vars, host_vars, conn_vars, trusted, now, stage, carried, adopting,
                 rq, consented>>

\* Layout's effect on lock disposes every adopted handler.
TearDown ==
  /\ tearDown
  /\ tearDown' = FALSE
  /\ stage' = [x \in Ports |-> IF stage[x] = "main" THEN "closed" ELSE stage[x]]
  /\ UNCHANGED <<store_vars, host_vars, conn_vars, trusted, now, carried, adopting, rq,
                 consented>>

\* Unlock the main window, or switch to another account in it.
SetWallet(a) ==
  /\ ~tearDown
  /\ active[Main] # a
  /\ active' = [active EXCEPT ![Main] = a]
  /\ UNCHANGED <<store_vars, conn_vars, chosen, slot, pin_vars, trusted, now, stage,
                 carried, adopting, tearDown, rq, consented>>

\* The popup goes away, and with it every request it was serving.
ClosePopup(x) ==
  /\ stage[x] = "popup"
  /\ stage' = [stage EXCEPT ![x] = "closed"]
  /\ slot' = [slot EXCEPT ![x] = None]
  /\ pin' = [pin EXCEPT ![x] = None]
  /\ verifying' = [verifying EXCEPT ![x] = None]
  /\ rq' = [r \in Reqs |-> IF PortOf[r] = x /\ InFlight(r)
                             THEN [rq[r] EXCEPT !.pc = "done", !.result = "dropped"]
                             ELSE rq[r]]
  /\ UNCHANGED <<store_vars, conn_vars, active, chosen, unlockAddr, trusted, now, carried,
                 adopting, tearDown, consented>>

\* Settings, Connected Sites: revoke a session, remove a trusted site.
Revoke(s) ==
  /\ store[s] # NoRec
  /\ active[Main] # None
  /\ store' = [store EXCEPT ![s] = NoRec]
  /\ UNCHANGED <<minted, host_vars, conn_vars, trusted, now, stage, carried, adopting,
                 tearDown, rq, consented>>

Untrust(o) ==
  /\ o \in trusted
  /\ active[Main] # None
  /\ trusted' = trusted \ {o}
  /\ UNCHANGED <<store_vars, host_vars, conn_vars, now, stage, carried, adopting, tearDown,
                 rq, consented>>

Tick ==
  /\ now < MaxNow
  /\ now' = now + 1
  /\ UNCHANGED <<store_vars, host_vars, conn_vars, trusted, stage, carried, adopting,
                 tearDown, rq, consented>>

-----------------------------------------------------------------------------
\* What a dApp's call sets off.
Arrive(r) == ArriveLocked(r) \/ StartConnect(r) \/ StartDisconnect(r) \/ StartUse(r)

\* What runs by itself once an await has returned.
Continue(r) ==
  \/ Reconnect(r) \/ ConnectTrusted(r) \/ AskConnect(r)
  \/ KeyedRestored(r) \/ KeyedFresh(r) \/ CreateSession(r) \/ TouchCreated(r)
  \/ SetSession(r) \/ ReplyConnect(r)
  \/ EndSession(r) \/ ExpireSession(r)
  \/ Read(r) \/ Sign(r) \/ NonceArrived(r) \/ ReplySigned(r)

Decide(r) == ApproveConnect(r) \/ ApproveSign(r) \/ Reject(r)

Next ==
  \/ \E r \in Reqs : Arrive(r) \/ Continue(r) \/ Decide(r)
  \/ \E w \in Windows : PinSubmit(w) \/ PinVerified(w) \/ PinWrong(w) \/ PinCancel(w)
  \/ \E x \in Ports : Handoff(x) \/ Adopt(x) \/ AdoptSession(x) \/ ClosePopup(x)
  \/ Lock \/ TearDown
  \/ \E a \in Accounts : SetWallet(a)
  \/ \E s \in Sids : Revoke(s)
  \/ \E o \in Origins : Untrust(o)
  \/ Tick

Spec == Init /\ [][Next]_vars

\* The code runs its continuations; the user answers what is on the screen, and
\* sooner or later types the right PIN or gives up.
Fairness ==
  /\ \A r \in Reqs : WF_vars(Continue(r)) /\ WF_vars(Decide(r))
  /\ \A w \in Windows : WF_vars(PinVerified(w) \/ PinWrong(w)) /\ SF_vars(PinCancel(w))
  /\ \A x \in Ports : WF_vars(Adopt(x)) /\ WF_vars(AdoptSession(x))
  /\ WF_vars(TearDown)

FairSpec == Spec /\ Fairness

-----------------------------------------------------------------------------
(* Properties.                                                             *)

RecordType ==
  /\ store \in [Sids -> Rec \cup {NoRec}]
  /\ mem \in [Ports -> [Sids -> Rec \cup {NoRec}]]
  /\ minted \in 0..MaxSid
  /\ now \in 0..MaxNow

HandlerType ==
  /\ stage \in [Ports -> Stages]
  /\ session \in [Ports -> Sids \cup {None}]
  /\ addr \in [Ports -> Accounts \cup {None}]
  /\ wallet \in [Ports -> Accounts \cup {None}]
  /\ carried \in [Ports -> Accounts \cup {None}]
  /\ adopting \in [Ports -> Sids \cup {0, None}]

HostType ==
  /\ active \in [Windows -> Accounts \cup {None}]
  /\ chosen \in [Windows -> Accounts \cup {None}]
  /\ slot \in [Ports -> Reqs \cup {None}]
  /\ pin \in [Windows -> Reqs \cup {None}]
  /\ verifying \in [Windows -> Reqs \cup {None}]
  /\ unlockAddr \in BOOLEAN
  /\ tearDown \in BOOLEAN
  /\ trusted \subseteq Origins
  /\ consented \subseteq Origins \X Accounts

RequestType == rq \in [Reqs -> ReqRec]

\* The type invariant.
TypeOK == RecordType /\ HandlerType /\ HostType /\ RequestType

\* Where the code of a port still has a session at hand.  A popup's own
\* disconnect only needs the id it has already deleted.
Holds(x, s) ==
  \/ session[x] = s
  \/ adopting[x] = s
  \/ \E r \in Reqs : PortOf[r] = x /\ InFlight(r) /\ rq[r].sid = s
                       /\ rq[r].kind # "userDisconnect"

Copies(s) == {store[s]} \cup {mem[x][s] : x \in Ports}

\* A dApp never works under the session of another origin: whatever the
\* handlers of its ports restore, adopt, touch or resurrect was minted for it.
OriginIsolation ==
  \A x \in Ports, s \in Sids : Holds(x, s) => mem[x][s].origin = OriginOf[x]

\* Every session there is, saved or in memory, binds an account that the user
\* agreed to share with that very origin, in a prompt or by trusting the site;
\* a picker, a prompt or a PIN of another request never leaks into it.
ConsentedSessions ==
  \A s \in Sids : \A c \in Copies(s) :
    c # NoRec => <<c.origin, c.addr>> \in consented

SameSession(c, d) ==
  c # NoRec /\ d # NoRec => c.origin = d.origin /\ c.addr = d.addr /\ c.abs = d.abs

\* The origin, the account and the absolute deadline of a session are settled
\* when it is created: no touch, grant, reconnect, handoff or write of a stale
\* copy by another tab moves them.
CapIsFixed ==
  [][\A s \in Sids : \A c \in Copies(s), d \in Copies(s)' : SameSession(c, d)]_vars

\* A deleted session that no handler, adoption or request holds any more is
\* gone for good: neither a reconnect nor a handoff brings it back.
EndedStaysEnded ==
  [][\A s \in 1..minted :
       store[s] = NoRec /\ (\A x \in Ports : ~Holds(x, s))
         => store'[s] = NoRec /\ \A x \in Ports : ~Holds(x, s)']_vars

\* The port is never transferred under a request: a dApp's call loses its
\* answer only when the window that serves it goes away.
NoReplyLost ==
  \A r \in Reqs : rq[r].result = "dropped" /\ rq[r].kind # "userDisconnect"
                    => stage[PortOf[r]] = "closed"

\* Once the main window is locked and its effect has run, no signature reaches
\* a dApp through it, not even one that was approved before the lock.
LockSilences ==
  [][\A r \in Reqs :
       rq[r].pc # "done" /\ rq'[r].result = "ok" /\ rq'[r].kind \in SignKinds
         => rq[r].host = "popup" \/ active[Main] # None \/ tearDown]_vars

\* Another request's prompt has taken the place of r's: the popup's setPending and
\* setPinRequest, and the main window's requestUnlockAccount, drop the older one.
Overtaken(r) ==
  \/ rq[r].pc = "approve" /\ rq[r].host = "popup" /\ slot[PortOf[r]] \notin {r, None}
  \/ rq[r].pc = "pin" /\ pin[ReqWin(r)] \notin {r, None}

Settled(r) == rq[r].pc = "done" \/ stage[PortOf[r]] = "closed"

\* Every call a dApp makes is answered, if its window is there to answer it and the
\* user reacts to the prompts: no prompt, PIN, handoff, lock or end of the session
\* strands it.  The one thing that does is a newer prompt in its place, and the
\* newer one does not suffer for it.
EveryRequestAnswered ==
  \A r \in Reqs : <>Overtaken(r) \/ (InFlight(r) ~> Settled(r))

\* Not so: the approval promises are resolved with the user's decision, all of
\* them.  The popup keeps one prompt, and the promise of an older one is dropped.
EveryPromptResolved ==
  \A r \in Reqs : rq[r].pc = "approve" ~> rq[r].pc # "approve" \/ Settled(r)

\* What a session signs is signed with the keys of the account it is bound to,
\* as the test "signs with the session account keys, not the active wallet" says.
SignerIsSessionAccount ==
  [][\A r \in Reqs :
       rq[r].pc = "granted" /\ rq'[r].result = "ok"
         => rq[r].signer = mem[PortOf[r]][rq[r].sid].addr]_vars

\* A disconnect revokes the session: once the user has disconnected in the popup
\* its record is not saved again.
DisconnectIsFinal ==
  \A r \in Reqs : rq[r].kind = "userDisconnect" /\ rq[r].pc = "done" /\ rq[r].sid # None
                    => store[rq[r].sid] = NoRec

\* The host's session account follows the connection that is being served: the
\* nonce of a transaction is that of the account that signs it.
NonceIsSigners ==
  \A r \in Reqs : rq[r].kind = "signTx" /\ rq[r].result = "ok"
                    => rq[r].nonceOf = rq[r].signer

=============================================================================
