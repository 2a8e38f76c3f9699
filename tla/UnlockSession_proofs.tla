------------------------ MODULE UnlockSession_proofs ------------------------
(***************************************************************************)
(* However saves, restores, locks, changes of settings, reloads and        *)
(* duplicated tabs interleave: no envelope outlives the cap it was cleared,  *)
(* and the key of a live one is kept, unless a tab with a copy of the same *)
(* envelope clears its own.  For any number of tabs, operations and        *)
(* accounts.                                                               *)
(***************************************************************************)
EXTENDS UnlockSession, TLAPS

\* The key k is in IndexedDB and no older than c, or was cleared, or whatever
\* counts its cap from c has reached it.
KeyHeld(k, c) ==
  \/ k \in cleared
  \/ keys[k] # None /\ keys[k] >= c
  \/ now - c >= AbsTTL

\* An operation under way has a wallet and a tab.  The cap it will write was minted and does
\* not lie ahead; if it has none yet, it was started by an unlock and will mint one, or its
\* own time was minted.  Its key is put once, and then held.
Going(r) == r.pc \notin {"free", "done"}

Capped(r) ==
  /\ r.tab \in Tabs /\ r.w \in Wallets /\ r.at <= now
  /\ \/ r.created = None /\ r.pc = "settings" /\ r.why = "fresh"
     \/ r.created = None /\ r.pc \in {"seal", "write", "prune"} /\ r.at \in minted
     \/ /\ r.created # None /\ r.created \in minted /\ r.created <= now
        /\ r.pc \in {"seal", "write"} => r.created <= r.at

OpFine(o, r) ==
  /\ Going(r) => Capped(r)
  /\ r.pc \in {"free", "open", "settings", "seal"} => keys[o] = None
  /\ r.pc = "write" => KeyHeld(o, r.at)

EnvFine(e) ==
  e # NoEnv => e.created \in minted /\ e.created <= now /\ KeyHeld(e.key, e.created)

UnlockInv ==
  /\ TypeOK
  /\ \A o \in Ops : OpFine(o, op[o])
  /\ \A t \in Tabs : EnvFine(env[t])

-----------------------------------------------------------------------------
LEMMA InvImplies ==
  UnlockInv => /\ RefreshNeverExtends
               /\ \A t \in Tabs : Live(t) => env[t].key \in cleared \/ keys[env[t].key] # None
<1> SUFFICES ASSUME UnlockInv, NEW t \in Tabs, env[t] # NoEnv
             PROVE  /\ env[t].created \in minted
                    /\ Live(t) => env[t].key \in cleared \/ keys[env[t].key] # None
  BY DEF RefreshNeverExtends, Live
<1>1. EnvFine(env[t])
  BY DEF UnlockInv
<1> QED BY <1>1 DEF EnvFine, KeyHeld, Live, Expired

LEMMA InitUnlockInv == Init => UnlockInv
<1> SUFFICES ASSUME Init PROVE UnlockInv
  OBVIOUS
<1>1. NewOp \in OpRec
  BY TimeAssumption DEF NewOp, OpRec, PCs, Whys, Times, Idles
<1>2. settings \in Settings
  BY DEF Init, Settings
<1>3. 0 \in Times
  BY TimeAssumption DEF Times
<1>4. TypeOK
  BY <1>1, <1>2, <1>3 DEF Init, TypeOK
<1>5. \A o \in Ops : OpFine(o, op[o])
  BY DEF Init, OpFine, NewOp, Going
<1>6. \A t \in Tabs : EnvFine(env[t])
  BY DEF Init, EnvFine
<1> QED BY <1>4, <1>5, <1>6 DEF UnlockInv

-----------------------------------------------------------------------------
(* What no step takes back.                                                *)

Forward ==
  /\ now' \in Times /\ now <= now' /\ minted \subseteq minted'
  /\ \A k \in Ops, c \in Times : KeyHeld(k, c) => KeyHeld(k, c)'

LEMMA OpForward ==
  ASSUME UnlockInv, Forward, NEW o \in Ops, NEW r \in OpRec, OpFine(o, r), keys[o] = None => keys'[o] = None
  PROVE  OpFine(o, r)'
<1>1. r.at \in Times /\ r.created \in Times \cup {None} /\ r.at <= MaxNow
  BY TimeAssumption DEF OpRec, Times
<1>2. now \in Times /\ now' \in Times /\ now <= now' /\ minted \subseteq minted'
  BY DEF UnlockInv, TypeOK, Forward
<1>3. r.pc = "write" => KeyHeld(o, r.at)'
  BY <1>1 DEF OpFine, Forward
<1>4. r.pc \in {"free", "open", "settings", "seal"} => keys'[o] = None
  BY DEF OpFine
<1>5. Capped(r) => Capped(r)'
  BY <1>1, <1>2, TimeAssumption DEF Capped, Times
<1> QED BY <1>3, <1>4, <1>5 DEF OpFine, Going, KeyHeld

LEMMA EnvForward ==
  ASSUME UnlockInv, Forward, NEW e \in Envelopes \cup {NoEnv}, EnvFine(e)
  PROVE  EnvFine(e)'
<1> SUFFICES ASSUME e # NoEnv PROVE e.created \in minted' /\ e.created <= now' /\ KeyHeld(e.key, e.created)'
  BY DEF EnvFine
<1>1. e.key \in Ops /\ e.created \in Times
  BY DEF Envelopes
<1>2. now \in Times /\ now' \in Times /\ now <= now' /\ minted \subseteq minted'
  BY DEF UnlockInv, TypeOK, Forward
<1> QED BY <1>1, <1>2, TimeAssumption DEF EnvFine, Forward, Times

LEMMA CapStaysReached == \A n, m, c, d \in Int : n <= m /\ n - c >= d => m - c >= d
OBVIOUS

\* Time passes, the user mints a cap, nothing happens to the keys.
LEMMA KeysStay ==
  ASSUME UnlockInv, keys' = keys, cleared' = cleared, now' \in Times, now <= now', minted \subseteq minted'
  PROVE  Forward /\ \A o \in Ops : keys[o] = None => keys'[o] = None
<1>1. now \in Times
  BY DEF UnlockInv, TypeOK
<1>2. ASSUME NEW c \in Times, now - c >= AbsTTL PROVE now' - c >= AbsTTL
  <2>1. now \in Int /\ now' \in Int /\ c \in Int /\ AbsTTL \in Int
    BY <1>1, TimeAssumption DEF Times
  <2> QED BY <1>2, <2>1, CapStaysReached
<1>3. \A k \in Ops, c \in Times : KeyHeld(k, c) => KeyHeld(k, c)'
  BY <1>2 DEF KeyHeld
<1> QED BY <1>3 DEF Forward

\* clearUnlockSession gives up the key it deletes.
LEMMA ClearForward ==
  ASSUME UnlockInv, NEW t \in Tabs, Clear(t), now' = now, minted \subseteq minted'
  PROVE  /\ Forward /\ \A o \in Ops : keys[o] = None => keys'[o] = None
         /\ keys' \in [Ops -> Times \cup {None}] /\ cleared' \subseteq Ops
         /\ env' = [env EXCEPT ![t] = NoEnv]
<1>1. now \in Times /\ keys \in [Ops -> Times \cup {None}] /\ cleared \subseteq Ops /\ env[t] \in Envelopes \cup {NoEnv}
  BY DEF UnlockInv, TypeOK
<1>2. env[t] # NoEnv => env[t].key \in Ops
  BY <1>1 DEF Envelopes
<1>3. env[t] # NoEnv => keys' = [keys EXCEPT ![env[t].key] = None] /\ cleared' = cleared \cup {env[t].key}
  BY DEF Clear
<1>4. env[t] = NoEnv => keys' = keys /\ cleared' = cleared
  BY DEF Clear
<1>5. keys' \in [Ops -> Times \cup {None}] /\ cleared' \subseteq Ops
  BY <1>1, <1>2, <1>3, <1>4
<1>6. \A k \in Ops : /\ keys[k] = None => keys'[k] = None
                     /\ k \in cleared => k \in cleared'
                     /\ keys'[k] = keys[k] \/ k \in cleared'
  BY <1>1, <1>2, <1>3, <1>4
<1>7. \A k \in Ops, c \in Times : KeyHeld(k, c) => KeyHeld(k, c)'
  BY <1>6 DEF KeyHeld
<1>8. now <= now'
  BY <1>1, TimeAssumption DEF Times
<1> QED BY <1>1, <1>5, <1>6, <1>7, <1>8 DEF Forward, Clear

\* A step shows of each operation and each envelope that it is fine as things were, or as
\* they are now.
LEMMA Step ==
  ASSUME UnlockInv, TypeOK', Forward,
         \A o \in Ops : \/ OpFine(o, op'[o]) /\ (keys[o] = None => keys'[o] = None)
                        \/ OpFine(o, op[o])',
         \A t \in Tabs : EnvFine(env'[t]) \/ EnvFine(env[t])'
  PROVE  UnlockInv'
<1>1. \A o \in Ops : op'[o] \in OpRec
  BY DEF TypeOK
<1>2. \A t \in Tabs : env'[t] \in Envelopes \cup {NoEnv}
  BY DEF TypeOK
<1>3. ASSUME NEW o \in Ops, OpFine(o, op'[o]), keys[o] = None => keys'[o] = None
      PROVE  OpFine(o, op[o])'
  BY <1>1, <1>3, OpForward DEF OpFine, Capped, Going, KeyHeld
<1>4. ASSUME NEW t \in Tabs, EnvFine(env'[t]) PROVE EnvFine(env[t])'
  BY <1>2, <1>4, EnvForward DEF EnvFine, KeyHeld
<1> QED BY <1>3, <1>4 DEF UnlockInv

LEMMA DoneIsFine == Done \in OpRec /\ \A o \in Ops : OpFine(o, Done)
<1>1. 0 \in Times
  BY TimeAssumption DEF Times
<1> QED BY <1>1 DEF Done, NewOp, OpRec, PCs, Whys, Idles, OpFine, Going

\* An operation that is changed in nothing that OpFine looks at.
LEMMA SameIsFine ==
  ASSUME NEW o \in Ops, NEW r \in OpRec, OpFine(o, r), NEW s \in OpRec,
         s.pc = r.pc, s.tab = r.tab, s.why = r.why, s.created = r.created, s.at = r.at,
         r.w \in Wallets => s.w \in Wallets
  PROVE  OpFine(o, s)
BY DEF OpFine, Capped, Going

\* A page that is loaded anew or closed takes its operations with it.
LEMMA FreshIsFine ==
  ASSUME UnlockInv, NEW t \in Tabs
  PROVE  Fresh(t) \in [Ops -> OpRec] /\ \A o \in Ops : OpFine(o, Fresh(t)[o])
BY DoneIsFine DEF Fresh, UnlockInv, TypeOK

-----------------------------------------------------------------------------
(* One lemma per action.                                                   *)

LEMMA SetWalletStep ==
  ASSUME UnlockInv, NEW t \in Tabs, NEW a \in Accounts, NEW o \in Ops, SetWallet(t, a, o)
  PROVE  UnlockInv'
<1> DEFINE w == [acct |-> a, wiped |-> FALSE, since |-> now]
<1>1. TypeOK /\ op[o].pc = "free" /\ now \in Times /\ 0 \in Times /\ 0 <= now
  BY TimeAssumption DEF SetWallet, Free, UnlockInv, TypeOK, Times
<1>2. w \in Wallets
  BY <1>1 DEF Wallets
<1>3. Save(t, w, o) \in OpRec /\ OpFine(o, Save(t, w, o))
  <2>1. keys[o] = None
    BY <1>1 DEF UnlockInv, OpFine
  <2> QED BY <1>1, <1>2, <2>1 DEF Save, NewOp, OpRec, PCs, Whys, Idles, OpFine, Capped, Going
<1>4. op' = [q \in Ops |-> IF q = o THEN Save(t, w, o)
                           ELSE IF op[q].tab = t THEN [op[q] EXCEPT !.mine = FALSE] ELSE op[q]]
  BY DEF SetWallet
<1>5. ASSUME NEW q \in Ops PROVE op'[q] \in OpRec /\ OpFine(q, op'[q])
  <2>1. op[q] \in OpRec /\ OpFine(q, op[q])
    BY DEF UnlockInv, TypeOK
  <2>2. [op[q] EXCEPT !.mine = FALSE] \in OpRec
    BY <2>1 DEF OpRec
  <2>3. OpFine(q, [op[q] EXCEPT !.mine = FALSE])
    BY <2>1, <2>2 DEF OpRec, OpFine, Capped, Going
  <2> QED BY <1>3, <1>4, <2>1, <2>2, <2>3
<1>6. TypeOK'
  <2>1. wallet' \in [Tabs -> Wallets \cup {NoWallet}] /\ last' \in [Tabs -> Times]
    BY <1>1, <1>2 DEF SetWallet, TypeOK
  <2> QED BY <1>1, <1>4, <1>5, <2>1 DEF SetWallet, TypeOK
<1>7. Forward /\ \A q \in Ops : keys[q] = None => keys'[q] = None
  BY <1>1, KeysStay, TimeAssumption DEF SetWallet, Times
<1>8. \A u \in Tabs : EnvFine(env'[u])
  BY DEF SetWallet, UnlockInv
<1> QED BY <1>5, <1>6, <1>7, <1>8, Step

\* What clearUnlockSession does to the types and to the envelopes.
LEMMA ClearKeeps ==
  ASSUME UnlockInv, NEW t \in Tabs, Clear(t)
  PROVE  /\ env' \in [Tabs -> Envelopes \cup {NoEnv}]
         /\ \A u \in Tabs : EnvFine(env'[u])
<1>1. env' = [env EXCEPT ![t] = NoEnv]
  BY DEF Clear
<1> QED BY <1>1 DEF UnlockInv, TypeOK, EnvFine

\* What the user gives up are keys.
LEMMA GiveUpKeeps ==
  ASSUME UnlockInv, NEW t \in Tabs, GiveUp(t) \/ given' = given
  PROVE  given' \subseteq Ops
<1>1. given \subseteq Ops /\ (env[t] # NoEnv => env[t].key \in Ops)
  BY DEF UnlockInv, TypeOK, Envelopes
<1> QED BY <1>1 DEF GiveUp

LEMMA LockStep ==
  ASSUME UnlockInv, NEW t \in Tabs, LockStore(t), GiveUp(t) \/ given' = given
  PROVE  UnlockInv'
<1>1. TypeOK /\ now' = now /\ minted' = minted /\ Clear(t) /\ 0 \in Times
  BY TimeAssumption DEF LockStore, UnlockInv, TypeOK, Times
<1>2. ASSUME NEW q \in Ops PROVE op'[q] \in OpRec /\ OpFine(q, op'[q])
  <2>1. op[q] \in OpRec /\ OpFine(q, op[q])
    BY DEF UnlockInv, TypeOK
  <2>2. CASE op[q].pc \in {"settings", "seal"} /\ op'[q] = [op[q] EXCEPT !.w.wiped = TRUE]
    <3>1. op[q].w \in Wallets
      BY <2>1, <2>2 DEF OpFine, Capped, Going
    <3>2. [op[q].w EXCEPT !.wiped = TRUE] \in Wallets
      BY <3>1 DEF Wallets
    <3>3. op'[q] = [op[q] EXCEPT !.w = [op[q].w EXCEPT !.wiped = TRUE]]
      BY <2>2
    <3>4. op'[q] \in OpRec
      BY <2>1, <3>2, <3>3 DEF OpRec
    <3> QED BY <2>1, <3>2, <3>3, <3>4 DEF OpRec, OpFine, Capped, Going
  <2>3. CASE op'[q] = op[q]
    BY <2>1, <2>3
  <2> QED BY <2>2, <2>3 DEF LockStore
<1>3. TypeOK'
  <2>1. op' \in [Ops -> OpRec]
    BY <1>2 DEF LockStore
  <2>2. wallet' \in [Tabs -> Wallets \cup {NoWallet}] /\ last' \in [Tabs -> Times]
    BY <1>1 DEF LockStore, TypeOK
  <2> QED BY <1>1, <2>1, <2>2, ClearForward, ClearKeeps, GiveUpKeeps DEF LockStore, TypeOK
<1> QED BY <1>1, <1>2, <1>3, ClearForward, ClearKeeps, Step

LEMMA ActivityStep ==
  ASSUME UnlockInv, NEW t \in Tabs, Activity(t)
  PROVE  UnlockInv'
<1>1. /\ TypeOK /\ now \in Times /\ now' = now /\ minted' = minted /\ op' = op
      /\ last' = [last EXCEPT ![t] = now]
  BY DEF Activity, UnlockInv, TypeOK
<1>2. \A q \in Ops : OpFine(q, op'[q])
  BY <1>1 DEF UnlockInv
<1>3. CASE Clear(t)
  <2>1. TypeOK'
    BY <1>1, <1>3, ClearForward, ClearKeeps DEF Activity, TypeOK
  <2> QED BY <1>1, <1>2, <1>3, <2>1, ClearForward, ClearKeeps, Step
<1>4. CASE /\ env' = IF env[t] = NoEnv THEN env ELSE [env EXCEPT ![t].used = now]
           /\ UNCHANGED <<keys, cleared>>
  <2>1. ASSUME NEW u \in Tabs PROVE env'[u] \in Envelopes \cup {NoEnv} /\ EnvFine(env'[u])
    <3>1. env[u] \in Envelopes \cup {NoEnv} /\ EnvFine(env[u])
      BY DEF UnlockInv, TypeOK
    <3>2. CASE env'[u] = env[u]
      BY <3>1, <3>2
    <3>3. CASE env[u] # NoEnv /\ env'[u] = [env[u] EXCEPT !.used = now]
      <4>1. env'[u] \in Envelopes
        BY <1>1, <3>1, <3>3 DEF Envelopes
      <4> QED BY <3>1, <3>3, <4>1 DEF EnvFine, Envelopes
    <3> QED BY <1>1, <1>4, <3>2, <3>3 DEF TypeOK
  <2>2. env' \in [Tabs -> Envelopes \cup {NoEnv}]
    BY <1>1, <1>4, <2>1 DEF TypeOK
  <2>3. TypeOK'
    BY <1>1, <1>4, <2>2 DEF Activity, TypeOK
  <2>4. Forward /\ \A q \in Ops : keys[q] = None => keys'[q] = None
    BY <1>1, <1>4, KeysStay, TimeAssumption DEF Times
  <2> QED BY <1>2, <2>1, <2>3, <2>4, Step
<1> QED BY <1>3, <1>4 DEF Activity

LEMMA LoadPolicyStep ==
  ASSUME UnlockInv, NEW t \in Tabs, LoadPolicy(t)
  PROVE  UnlockInv'
<1>1. TypeOK /\ now \in Times /\ settings.idle \in Idles
  BY DEF UnlockInv, TypeOK, Settings
<1>2. policy' \in [Tabs -> Idles \cup {None}] /\ last' \in [Tabs -> Times]
  BY <1>1 DEF LoadPolicy, TypeOK
<1>3. TypeOK'
  BY <1>1, <1>2 DEF LoadPolicy, TypeOK
<1>4. Forward /\ \A q \in Ops : keys[q] = None => keys'[q] = None
  BY <1>1, KeysStay, TimeAssumption DEF LoadPolicy, Times
<1>5. (\A q \in Ops : OpFine(q, op'[q])) /\ \A u \in Tabs : EnvFine(env'[u])
  BY DEF LoadPolicy, UnlockInv
<1> QED BY <1>3, <1>4, <1>5, Step

LEMMA SetSettingsStep ==
  ASSUME UnlockInv, NEW t \in Tabs, NEW s \in Settings, NEW o \in Ops, SetSettings(t, s, o)
  PROVE  UnlockInv'
<1> DEFINE c == IF env[t] = NoEnv THEN None ELSE env[t].created
           r == [NewOp EXCEPT !.pc = "seal", !.tab = t, !.w = wallet[t], !.why = "reseal", !.mine = TRUE,
                              !.at = now, !.idle = s.idle, !.created = c]
<1>1. /\ TypeOK /\ now \in Times /\ now' = now /\ op[o].pc = "free" /\ op[o] \in OpRec
      /\ wallet[t] \in Wallets /\ s.idle \in Idles
  BY DEF SetSettings, Unlocked, Free, UnlockInv, TypeOK, Settings
<1>2. /\ settings' \in Settings /\ policy' \in [Tabs -> Idles \cup {None}] /\ last' \in [Tabs -> Times]
      /\ wallet' = wallet /\ restoring' = restoring
  BY <1>1 DEF SetSettings, TypeOK
<1>3. CASE s.keep
  <2>1. /\ op' = [op EXCEPT ![o] = r] /\ keys' = keys /\ env' = env
        /\ cleared' = cleared /\ given' = given /\ copied' = copied
        /\ minted' = IF c = None THEN minted \cup {now} ELSE minted
    BY <1>3 DEF SetSettings
  <2>2. minted \subseteq minted' /\ minted' \subseteq Times /\ (c = None => now \in minted')
    BY <1>1, <2>1 DEF TypeOK
  <2>3. c # None => c \in minted /\ c <= now /\ c \in Times
    BY DEF UnlockInv, EnvFine, TypeOK, Envelopes
  <2>4. r \in OpRec
    BY <1>1, <2>3 DEF NewOp, OpRec, PCs, Whys
  <2>5. OpFine(o, op[o])'
    <3>1. keys'[o] = None
      BY <1>1, <2>1 DEF UnlockInv, OpFine
    <3>2. op'[o] = r
      BY <2>1 DEF UnlockInv, TypeOK
    <3>3. /\ op'[o].pc = "seal" /\ op'[o].tab = t /\ op'[o].w = wallet[t] /\ op'[o].at = now
          /\ op'[o].created = c
      BY <3>2 DEF NewOp
    <3>4. now <= now'
      BY <1>1, TimeAssumption DEF Times
    <3> HIDE DEF r, c
    <3>5. Capped(op[o])'
      BY <1>1, <2>2, <2>3, <3>3, <3>4 DEF Capped
    <3> QED BY <3>1, <3>3, <3>5 DEF OpFine
  <2>6. \A q \in Ops : OpFine(q, op'[q]) \/ OpFine(q, op[q])'
    <3> HIDE DEF r
    <3> SUFFICES ASSUME NEW q \in Ops, q # o PROVE OpFine(q, op'[q])
      BY <2>5
    <3> QED BY <2>1 DEF UnlockInv, TypeOK
  <2>7. Forward /\ \A q \in Ops : keys[q] = None => keys'[q] = None
    BY <1>1, <2>1, <2>2, KeysStay, TimeAssumption DEF Times
  <2>8. TypeOK'
    <3>1. op' \in [Ops -> OpRec]
      <4> HIDE DEF r
      <4> QED BY <1>1, <2>1, <2>4 DEF TypeOK
    <3> HIDE DEF r, c
    <3> QED BY <1>1, <1>2, <2>1, <2>2, <3>1 DEF TypeOK
  <2>9. \A u \in Tabs : EnvFine(env'[u])
    BY <2>1 DEF UnlockInv
  <2> QED BY <2>6, <2>7, <2>8, <2>9, Step
<1>4. CASE ~s.keep
  <2>1. GiveUp(t) /\ Clear(t) /\ op' = op /\ minted' = minted /\ copied' = copied
    BY <1>4 DEF SetSettings, GiveUp
  <2>2. TypeOK'
    BY <1>1, <1>2, <2>1, ClearForward, ClearKeeps, GiveUpKeeps DEF TypeOK
  <2>3. \A q \in Ops : OpFine(q, op'[q])
    BY <2>1 DEF UnlockInv
  <2> QED BY <1>1, <2>1, <2>2, <2>3, ClearForward, ClearKeeps, Step
<1> QED BY <1>3, <1>4

\* The restore that a page starts with its envelope.
LEMMA ResumeStarts ==
  ASSUME UnlockInv, NEW t \in Tabs, NEW e \in Envelopes, EnvFine(e), e # NoEnv, NEW o \in Ops, Resume(t, e, o)
  PROVE  op' \in [Ops -> OpRec] /\ \A q \in Ops : OpFine(q, op'[q])
<1> DEFINE r == [NewOp EXCEPT !.pc = "open", !.tab = t, !.why = "restore", !.w = e.w, !.created = e.created, !.env = e]
<1>1. /\ op[o].pc = "free" /\ op' = [Fresh(t) EXCEPT ![o] = r] /\ now \in Times /\ 0 \in Times /\ 0 <= now
      /\ OpFine(o, op[o]) /\ None \notin Times
  BY TimeAssumption, NoneAssumption DEF Resume, Free, UnlockInv, TypeOK, Times
<1>2. e.w \in Wallets /\ e.created \in Times /\ e.created \in minted /\ e.created <= now
  BY DEF Envelopes, EnvFine
<1>3. r \in OpRec
  BY <1>1, <1>2 DEF NewOp, OpRec, PCs, Whys, Idles
<1>4. OpFine(o, r)
  <2>1. keys[o] = None
    BY <1>1 DEF OpFine
  <2>2. r.pc = "open" /\ r.tab = t /\ r.w = e.w /\ r.at = 0 /\ r.created = e.created
    BY DEF NewOp
  <2> HIDE DEF r
  <2> QED BY <1>1, <1>2, <2>1, <2>2 DEF OpFine, Capped, Going
<1> HIDE DEF r
<1> QED BY <1>1, <1>3, <1>4, FreshIsFine

LEMMA ReloadStep ==
  ASSUME UnlockInv, NEW t \in Tabs, Reload(t)
  PROVE  UnlockInv'
<1>1. TypeOK /\ now \in Times /\ 0 \in Times
  BY TimeAssumption DEF UnlockInv, TypeOK, Times
<1>2. /\ wallet' \in [Tabs -> Wallets \cup {NoWallet}] /\ policy' \in [Tabs -> Idles \cup {None}]
      /\ last' \in [Tabs -> Times]
  BY <1>1 DEF Reload, TypeOK
<1>3. op' \in [Ops -> OpRec] /\ restoring' \in [Tabs -> BOOLEAN] /\ \A q \in Ops : OpFine(q, op'[q])
  <2>1. CASE op' = Fresh(t) /\ restoring' = [restoring EXCEPT ![t] = FALSE]
    BY <1>1, <2>1, FreshIsFine DEF TypeOK
  <2>2. ASSUME Live(t), NEW o \in Ops, Resume(t, env[t], o)
        PROVE  op' \in [Ops -> OpRec] /\ restoring' \in [Tabs -> BOOLEAN] /\ \A q \in Ops : OpFine(q, op'[q])
    <3>1. env[t] \in Envelopes /\ env[t] # NoEnv /\ EnvFine(env[t])
      BY <2>2 DEF Live, UnlockInv, TypeOK
    <3>2. restoring' \in [Tabs -> BOOLEAN]
      BY <1>1, <2>2 DEF Resume, TypeOK
    <3> QED BY <2>2, <3>1, <3>2, ResumeStarts
  <2> QED BY <2>1, <2>2 DEF Reload
<1>4. TypeOK'
  BY <1>1, <1>2, <1>3 DEF Reload, TypeOK
<1>5. Forward /\ \A q \in Ops : keys[q] = None => keys'[q] = None
  BY <1>1, KeysStay, TimeAssumption DEF Reload, Times
<1>6. \A u \in Tabs : EnvFine(env'[u])
  BY DEF Reload, UnlockInv
<1> QED BY <1>3, <1>4, <1>5, <1>6, Step

LEMMA DuplicateStep ==
  ASSUME UnlockInv, NEW t \in Tabs, NEW u \in Tabs, NEW o \in Ops, Duplicate(t, u, o)
  PROVE  UnlockInv'
<1>1. /\ TypeOK /\ now \in Times /\ env[t] \in Envelopes /\ env[t] # NoEnv /\ EnvFine(env[t])
      /\ env' = [env EXCEPT ![u] = env[t]]
  BY DEF Duplicate, Live, UnlockInv, TypeOK
<1>2. op' \in [Ops -> OpRec] /\ \A q \in Ops : OpFine(q, op'[q])
  BY <1>1, ResumeStarts DEF Duplicate
<1>3. env' \in [Tabs -> Envelopes \cup {NoEnv}] /\ \A v \in Tabs : EnvFine(env'[v])
  BY <1>1 DEF UnlockInv, TypeOK
<1>4. policy' \in [Tabs -> Idles \cup {None}] /\ restoring' \in [Tabs -> BOOLEAN]
  BY <1>1 DEF Duplicate, Resume, TypeOK
<1>5. TypeOK'
  <2>1. copied' \subseteq Ops
    BY <1>1 DEF Duplicate, TypeOK, Envelopes
  <2> QED BY <1>1, <1>2, <1>3, <1>4, <2>1 DEF Duplicate, TypeOK
<1>6. Forward /\ \A q \in Ops : keys[q] = None => keys'[q] = None
  BY <1>1, KeysStay, TimeAssumption DEF Duplicate, Times
<1> QED BY <1>2, <1>3, <1>5, <1>6, Step

LEMMA CloseStep ==
  ASSUME UnlockInv, NEW t \in Tabs, Close(t)
  PROVE  UnlockInv'
<1>1. TypeOK /\ now \in Times /\ 0 \in Times /\ env' = [env EXCEPT ![t] = NoEnv]
  BY TimeAssumption DEF Close, UnlockInv, TypeOK, Times
<1>2. /\ wallet' \in [Tabs -> Wallets \cup {NoWallet}] /\ policy' \in [Tabs -> Idles \cup {None}]
      /\ last' \in [Tabs -> Times] /\ restoring' \in [Tabs -> BOOLEAN]
  BY <1>1 DEF Close, TypeOK
<1>3. env' \in [Tabs -> Envelopes \cup {NoEnv}] /\ \A v \in Tabs : EnvFine(env'[v])
  BY <1>1 DEF UnlockInv, TypeOK, EnvFine
<1>4. op' \in [Ops -> OpRec] /\ \A q \in Ops : OpFine(q, op'[q])
  BY FreshIsFine DEF Close
<1>5. TypeOK'
  BY <1>1, <1>2, <1>3, <1>4 DEF Close, TypeOK
<1>6. Forward /\ \A q \in Ops : keys[q] = None => keys'[q] = None
  BY <1>1, KeysStay, TimeAssumption DEF Close, Times
<1> QED BY <1>3, <1>4, <1>5, <1>6, Step

-----------------------------------------------------------------------------
\* What is known of an operation that takes a step.
LEMMA GoingKnown ==
  ASSUME UnlockInv, NEW o \in Ops, Going(op[o])
  PROVE  /\ TypeOK /\ op[o] \in OpRec /\ OpFine(o, op[o]) /\ Capped(op[o])
         /\ op[o].tab \in Tabs /\ op[o].w \in Wallets /\ op[o].at \in Times
         /\ now \in Times /\ None \notin Times
BY TimeAssumption, NoneAssumption DEF UnlockInv, TypeOK, OpRec, OpFine, Capped, Times

\* An operation that is over.
LEMMA EndsFine ==
  ASSUME UnlockInv, NEW o \in Ops, op' = [op EXCEPT ![o] = Done]
  PROVE  op' \in [Ops -> OpRec] /\ \A q \in Ops : OpFine(q, op'[q])
BY DoneIsFine DEF UnlockInv, TypeOK

LEMMA ThrowStep ==
  ASSUME UnlockInv, NEW o \in Ops, Going(op[o]), Throw(o), UNCHANGED <<settings, policy, now, given, copied, minted>>
  PROVE  UnlockInv'
<1>1. /\ TypeOK /\ op[o].tab \in Tabs /\ now \in Times
  BY GoingKnown
<1>2. op' \in [Ops -> OpRec] /\ \A q \in Ops : OpFine(q, op'[q])
  BY EndsFine DEF Throw
<1>3. CASE op[o].why = "restore"
  <2>1. Clear(op[o].tab) /\ restoring' \in [Tabs -> BOOLEAN]
    BY <1>1, <1>3 DEF Throw, TypeOK
  <2>2. TypeOK'
    BY <1>1, <1>2, <2>1, ClearForward, ClearKeeps DEF Throw, TypeOK
  <2> QED BY <1>1, <1>2, <2>1, <2>2, ClearForward, ClearKeeps, Step
<1>4. CASE op[o].why # "restore"
  <2>1. UNCHANGED <<keys, env, cleared, restoring>>
    BY <1>4 DEF Throw
  <2>2. TypeOK'
    BY <1>1, <1>2, <2>1 DEF Throw, TypeOK
  <2>3. Forward /\ \A q \in Ops : keys[q] = None => keys'[q] = None
    BY <1>1, <2>1, KeysStay, TimeAssumption DEF Times
  <2>4. \A u \in Tabs : EnvFine(env'[u])
    BY <2>1 DEF UnlockInv
  <2> QED BY <1>2, <2>2, <2>3, <2>4, Step
<1> QED BY <1>3, <1>4

LEMMA ReturnTypes ==
  ASSUME UnlockInv, NEW o \in Ops, Going(op[o]), Return(o)
  PROVE  /\ wallet' \in [Tabs -> Wallets \cup {NoWallet}] /\ restoring' \in [Tabs -> BOOLEAN]
         /\ last' \in [Tabs -> Times]
         /\ op' \in [Ops -> OpRec] /\ \A q \in Ops : OpFine(q, op'[q])
<1>1. TypeOK /\ op[o].tab \in Tabs /\ op[o].w \in Wallets /\ now \in Times
  BY GoingKnown
<1>2. op' \in [Ops -> OpRec] /\ \A q \in Ops : OpFine(q, op'[q])
  BY EndsFine DEF Return
<1>3. CASE op[o].why = "restore"
  BY <1>1, <1>2, <1>3 DEF Return, TypeOK
<1>4. CASE op[o].why # "restore"
  BY <1>1, <1>2, <1>4 DEF Return, TypeOK
<1> QED BY <1>3, <1>4

LEMMA OpenSealedStep ==
  ASSUME UnlockInv, NEW o \in Ops, OpenSealed(o)
  PROVE  UnlockInv'
<1>1. op[o].pc = "open" /\ Going(op[o]) /\ UNCHANGED <<settings, policy, now, given, copied, minted>>
  BY DEF OpenSealed, Going
<1>2. /\ TypeOK /\ op[o] \in OpRec /\ OpFine(o, op[o]) /\ Capped(op[o]) /\ now \in Times
  BY <1>1, GoingKnown
<1>3. CASE Throw(o)
  BY <1>1, <1>3, ThrowStep
<1>4. CASE Goes(o, "settings") /\ UNCHANGED <<keys, env, wallet, restoring, last, cleared>>
  <2>1. op' = [op EXCEPT ![o] = [op[o] EXCEPT !.pc = "settings"]]
    BY <1>4 DEF Goes
  <2>2. [op[o] EXCEPT !.pc = "settings"] \in OpRec
    BY <1>2 DEF OpRec, PCs
  <2>3. OpFine(o, [op[o] EXCEPT !.pc = "settings"])
    BY <1>1, <1>2, <2>2 DEF OpRec, OpFine, Capped, Going
  <2>4. op' \in [Ops -> OpRec] /\ \A q \in Ops : OpFine(q, op'[q])
    BY <1>2, <2>1, <2>2, <2>3 DEF UnlockInv, TypeOK
  <2>5. TypeOK'
    BY <1>1, <1>2, <1>4, <2>4 DEF TypeOK
  <2>6. Forward /\ \A q \in Ops : keys[q] = None => keys'[q] = None
    BY <1>1, <1>2, <1>4, KeysStay, TimeAssumption DEF Times
  <2>7. \A u \in Tabs : EnvFine(env'[u])
    BY <1>4 DEF UnlockInv
  <2> QED BY <2>4, <2>5, <2>6, <2>7, Step
<1> QED BY <1>3, <1>4 DEF OpenSealed

LEMMA ReadSettingsStep ==
  ASSUME UnlockInv, NEW o \in Ops, ReadSettings(o)
  PROVE  UnlockInv'
<1>1. op[o].pc = "settings" /\ Going(op[o]) /\ UNCHANGED <<settings, policy, now, copied>>
  BY DEF ReadSettings, Going
<1>2. /\ TypeOK /\ op[o] \in OpRec /\ OpFine(o, op[o]) /\ Capped(op[o]) /\ now \in Times
      /\ op[o].tab \in Tabs
  BY <1>1, GoingKnown
<1>3. ASSUME NEW i \in {settings.idle, IdleTTL}, op' = [op EXCEPT ![o].pc = "seal", ![o].at = now, ![o].idle = i],
             minted' = IF op[o].why = "fresh" THEN minted \cup {now} ELSE minted,
             UNCHANGED <<keys, env, wallet, restoring, last, cleared, given>>
      PROVE  UnlockInv'
  <2> DEFINE r == [op[o] EXCEPT !.pc = "seal", !.at = now, !.idle = i]
  <2>1. op' = [op EXCEPT ![o] = r]
    BY <1>3
  <2>2. i \in Idles
    BY <1>2 DEF TypeOK, Settings, Idles
  <2>3. r \in OpRec
    BY <1>2, <2>2 DEF OpRec, PCs
  <2>4. minted \subseteq minted' /\ minted' \subseteq Times /\ (op[o].why = "fresh" => now \in minted')
    BY <1>2, <1>3 DEF TypeOK
  <2>5. OpFine(o, op[o])'
    <3>1. op'[o] = r
      BY <1>2, <2>1 DEF TypeOK
    <3>2. /\ op'[o].pc = "seal" /\ op'[o].tab = op[o].tab /\ op'[o].w = op[o].w /\ op'[o].at = now
          /\ op'[o].created = op[o].created
      BY <1>2, <3>1 DEF OpRec
    <3>3. keys'[o] = None
      BY <1>1, <1>2, <1>3 DEF OpFine
    <3>4. now <= now'
      BY <1>1, <1>2, TimeAssumption DEF Times
    <3> HIDE DEF r
    <3>5. Capped(op[o])'
      BY <1>1, <1>2, <2>4, <3>2, <3>4 DEF Capped
    <3> QED BY <3>2, <3>3, <3>5 DEF OpFine
  <2> HIDE DEF r
  <2>6. op' \in [Ops -> OpRec] /\ \A q \in Ops : OpFine(q, op'[q]) \/ OpFine(q, op[q])'
    <3>1. op' \in [Ops -> OpRec]
      BY <1>2, <2>1, <2>3 DEF TypeOK
    <3>2. ASSUME NEW q \in Ops, q # o PROVE OpFine(q, op'[q])
      BY <2>1, <3>2 DEF UnlockInv, TypeOK
    <3> QED BY <2>5, <3>1, <3>2
  <2>7. TypeOK'
    BY <1>1, <1>2, <1>3, <2>4, <2>6 DEF TypeOK
  <2>8. Forward /\ \A q \in Ops : keys[q] = None => keys'[q] = None
    BY <1>1, <1>2, <1>3, <2>4, KeysStay, TimeAssumption DEF Times
  <2>9. \A u \in Tabs : EnvFine(env'[u])
    BY <1>3 DEF UnlockInv
  <2> QED BY <2>6, <2>7, <2>8, <2>9, Step
<1>4. CASE GiveUp(op[o].tab) /\ Return(o) /\ UNCHANGED minted
  <2>1. Clear(op[o].tab) /\ given' \subseteq Ops
    BY <1>2, <1>4, GiveUpKeeps DEF GiveUp
  <2>2. TypeOK'
    BY <1>1, <1>2, <1>4, <2>1, ReturnTypes, ClearForward, ClearKeeps DEF TypeOK
  <2> QED BY <1>1, <1>2, <1>4, <2>1, <2>2, ReturnTypes, ClearForward, ClearKeeps, Step
<1> QED BY <1>3, <1>4 DEF ReadSettings

LEMMA PutKeyStep ==
  ASSUME UnlockInv, NEW o \in Ops, PutKey(o)
  PROVE  UnlockInv'
<1>1. /\ op[o].pc = "seal" /\ Going(op[o]) /\ UNCHANGED <<settings, env, page_vars, now, cleared, given, copied, minted>>
      /\ keys' = [keys EXCEPT ![o] = op[o].at]
      /\ op' = [op EXCEPT ![o] = [op[o] EXCEPT !.pc = "write"]]
  BY DEF PutKey, Going, Goes
<1>2. /\ TypeOK /\ op[o] \in OpRec /\ OpFine(o, op[o]) /\ Capped(op[o]) /\ now \in Times
      /\ op[o].at \in Times /\ None \notin Times
  BY <1>1, GoingKnown
<1>3. keys[o] = None
  BY <1>1, <1>2 DEF OpFine
<1>4. keys' \in [Ops -> Times \cup {None}] /\ keys'[o] = op[o].at /\ \A q \in Ops \ {o} : keys'[q] = keys[q]
  BY <1>1, <1>2 DEF TypeOK
<1>5. Forward
  <2>1. \A k \in Ops, c \in Times : KeyHeld(k, c) => KeyHeld(k, c)'
    BY <1>1, <1>3, <1>4 DEF KeyHeld
  <2> QED BY <1>1, <1>2, <2>1, TimeAssumption DEF Forward, Times
<1>6. [op[o] EXCEPT !.pc = "write"] \in OpRec
  BY <1>2 DEF OpRec, PCs
<1>7. op' \in [Ops -> OpRec]
  BY <1>1, <1>2, <1>6 DEF TypeOK
<1>8. OpFine(o, op[o])'
  <2>1. /\ op'[o].pc = "write" /\ op'[o].tab = op[o].tab /\ op'[o].w = op[o].w /\ op'[o].at = op[o].at
        /\ op'[o].created = op[o].created
    BY <1>1, <1>2 DEF TypeOK, OpRec
  <2>2. Capped(op[o])'
    BY <1>1, <1>2, <2>1 DEF Capped
  <2>3. op[o].at >= op[o].at
    BY <1>2, TimeAssumption DEF Times
  <2>4. KeyHeld(o, op[o].at)'
    BY <1>2, <1>4, <2>1, <2>3 DEF KeyHeld
  <2> QED BY <2>1, <2>2, <2>4 DEF OpFine, KeyHeld
<1>9. ASSUME NEW q \in Ops, q # o PROVE OpFine(q, op'[q]) /\ keys'[q] = keys[q]
  BY <1>1, <1>2, <1>4, <1>9 DEF UnlockInv, TypeOK
<1>10. TypeOK'
  BY <1>1, <1>2, <1>4, <1>7 DEF TypeOK, page_vars
<1>11. \A u \in Tabs : EnvFine(env'[u])
  BY <1>1 DEF UnlockInv
<1> QED BY <1>5, <1>8, <1>9, <1>10, <1>11, Step

\* What is held since a later time is held since an earlier one.
LEMMA HeldEarlier ==
  ASSUME NEW k \in Ops, NEW c \in Times, NEW d \in Times, c <= d, KeyHeld(k, d), TypeOK
  PROVE  KeyHeld(k, c)
<1>1. \A x, y, n, m \in Int : x <= y => (n >= y => n >= x) /\ (n - y >= m => n - x >= m)
  OBVIOUS
<1>2. /\ c \in Int /\ d \in Int /\ now \in Int /\ AbsTTL \in Int
      /\ keys[k] # None => keys[k] \in Int
  BY TimeAssumption DEF TypeOK, Times
<1> QED BY <1>1, <1>2 DEF KeyHeld

LEMMA WriteEnvelopeStep ==
  ASSUME UnlockInv, NEW o \in Ops, WriteEnvelope(o)
  PROVE  UnlockInv'
<1> DEFINE c == IF op[o].created = None THEN op[o].at ELSE op[o].created
           e == [key |-> o, w |-> op[o].w, used |-> op[o].at, idle |-> op[o].idle, created |-> c]
<1>1. /\ op[o].pc = "write" /\ Going(op[o]) /\ UNCHANGED <<settings, keys, page_vars, now, cleared, given, copied, minted>>
      /\ env' = [env EXCEPT ![op[o].tab] = e]
      /\ op' = [op EXCEPT ![o] = [op[o] EXCEPT !.pc = "prune"]]
  BY DEF WriteEnvelope, Going, Goes
<1>2. /\ TypeOK /\ op[o] \in OpRec /\ OpFine(o, op[o]) /\ Capped(op[o]) /\ now \in Times
      /\ op[o].tab \in Tabs /\ op[o].w \in Wallets /\ op[o].at \in Times
      /\ op[o].idle \in Idles /\ op[o].created \in Times \cup {None}
  BY <1>1, GoingKnown DEF OpRec
<1>3. op[o].at <= op[o].at
  BY <1>2, TimeAssumption DEF Times
<1>4. c \in Times /\ c \in minted /\ c <= now /\ c <= op[o].at
  BY <1>1, <1>2, <1>3 DEF Capped
<1>5. KeyHeld(o, c)
  <2>1. KeyHeld(o, op[o].at)
    BY <1>1, <1>2 DEF OpFine
  <2> HIDE DEF c
  <2> QED BY <1>2, <1>4, <2>1, HeldEarlier
<1>6. e \in Envelopes
  BY <1>2, <1>4 DEF Envelopes
<1>7. EnvFine(e)
  <2>1. e.created = c /\ e.key = o
    OBVIOUS
  <2> HIDE DEF e, c
  <2> QED BY <1>4, <1>5, <2>1 DEF EnvFine
<1> HIDE DEF e, c
<1>8. env' \in [Tabs -> Envelopes \cup {NoEnv}] /\ \A u \in Tabs : EnvFine(env'[u])
  BY <1>1, <1>2, <1>6, <1>7 DEF UnlockInv, TypeOK
<1>9. [op[o] EXCEPT !.pc = "prune"] \in OpRec
  BY <1>2 DEF OpRec, PCs
<1>10. OpFine(o, [op[o] EXCEPT !.pc = "prune"])
  BY <1>1, <1>2, <1>9 DEF OpRec, OpFine, Capped, Going
<1>11. op' \in [Ops -> OpRec] /\ \A q \in Ops : OpFine(q, op'[q])
  BY <1>1, <1>2, <1>9, <1>10 DEF UnlockInv, TypeOK
<1>12. TypeOK'
  BY <1>1, <1>2, <1>8, <1>11 DEF TypeOK, page_vars
<1>13. Forward /\ \A q \in Ops : keys[q] = None => keys'[q] = None
  BY <1>1, <1>2, KeysStay, TimeAssumption DEF Times
<1> QED BY <1>8, <1>11, <1>12, <1>13, Step

LEMMA PruneStep ==
  ASSUME UnlockInv, NEW o \in Ops, Prune(o)
  PROVE  UnlockInv'
<1>1. op[o].pc = "prune" /\ Going(op[o]) /\ Return(o) /\ UNCHANGED <<settings, env, policy, now, cleared, given, copied, minted>>
  BY DEF Prune, Going
<1>2. TypeOK /\ now \in Times /\ now <= now
  BY <1>1, GoingKnown, TimeAssumption DEF Times
<1>3. keys' \in [Ops -> Times \cup {None}]
  BY <1>2 DEF Prune, TypeOK
<1>4. ASSUME NEW k \in Ops
      PROVE  /\ keys[k] = None => keys'[k] = None
             /\ keys'[k] # keys[k] => keys[k] # None /\ keys[k] <= now - AbsTTL
  BY <1>2 DEF Prune, TypeOK
<1>5. ASSUME NEW k \in Ops, NEW c \in Times, KeyHeld(k, c) PROVE KeyHeld(k, c)'
  <2>1. CASE keys'[k] = keys[k]
    BY <1>1, <1>5, <2>1 DEF KeyHeld
  <2>2. CASE keys[k] # None /\ keys[k] <= now - AbsTTL /\ keys[k] >= c
    <3>1. \A x, n, m, d \in Int : x <= n - m /\ x >= d => n - d >= m
      OBVIOUS
    <3>2. keys[k] \in Int /\ now \in Int /\ AbsTTL \in Int /\ c \in Int
      BY <1>2, <2>2, TimeAssumption DEF TypeOK, Times
    <3>3. now - c >= AbsTTL
      BY <2>2, <3>1, <3>2
    <3> QED BY <1>1, <3>3 DEF KeyHeld
  <2>3. CASE k \in cleared \/ now - c >= AbsTTL
    BY <1>1, <2>3 DEF KeyHeld
  <2> QED BY <1>4, <1>5, <2>1, <2>2, <2>3 DEF KeyHeld
<1>6. Forward
  BY <1>1, <1>2, <1>5 DEF Forward
<1>7. TypeOK'
  BY <1>1, <1>2, <1>3, ReturnTypes DEF TypeOK
<1>8. \A u \in Tabs : EnvFine(env'[u])
  BY <1>1 DEF UnlockInv
<1> QED BY <1>1, <1>4, <1>6, <1>7, <1>8, ReturnTypes, Step

LEMMA FailStep ==
  ASSUME UnlockInv, NEW o \in Ops, Fail(o)
  PROVE  UnlockInv'
BY ThrowStep DEF Fail, Going

LEMMA TickStep ==
  ASSUME UnlockInv, Tick
  PROVE  UnlockInv'
<1>1. /\ TypeOK /\ now \in Times /\ now' \in Times /\ now <= now'
      /\ UNCHANGED <<settings, keys, env, page_vars, op, cleared, given, copied, minted>>
  BY TimeAssumption DEF Tick, UnlockInv, TypeOK, Times
<1>2. TypeOK'
  BY <1>1 DEF TypeOK, page_vars
<1>3. Forward /\ \A q \in Ops : keys[q] = None => keys'[q] = None
  BY <1>1, KeysStay
<1>4. (\A q \in Ops : OpFine(q, op'[q])) /\ \A u \in Tabs : EnvFine(env'[u])
  BY <1>1 DEF UnlockInv
<1> QED BY <1>2, <1>3, <1>4, Step

LEMMA StutterStep ==
  ASSUME UnlockInv, UNCHANGED vars
  PROVE  UnlockInv'
<1>1. /\ TypeOK /\ now \in Times /\ now' = now /\ now <= now' /\ now' \in Times
      /\ UNCHANGED <<settings, keys, env, page_vars, op, cleared, given, copied, minted>>
  BY TimeAssumption DEF vars, page_vars, UnlockInv, TypeOK, Times
<1>2. TypeOK'
  BY <1>1 DEF TypeOK, page_vars
<1>3. Forward /\ \A q \in Ops : keys[q] = None => keys'[q] = None
  BY <1>1, KeysStay
<1>4. (\A q \in Ops : OpFine(q, op'[q])) /\ \A u \in Tabs : EnvFine(env'[u])
  BY <1>1 DEF UnlockInv
<1> QED BY <1>2, <1>3, <1>4, Step

LEMMA UnlockStep == UnlockInv /\ [Next]_vars => UnlockInv'
<1> SUFFICES ASSUME UnlockInv, [Next]_vars PROVE UnlockInv'
  OBVIOUS
<1>1. ASSUME NEW t \in Tabs, NEW a \in Accounts, NEW o \in Ops, SetWallet(t, a, o) PROVE UnlockInv'
  BY <1>1, SetWalletStep
<1>2. ASSUME NEW t \in Tabs, Lock(t) \/ AutoLock(t) PROVE UnlockInv'
  BY <1>2, LockStep DEF Lock, AutoLock
<1>3. ASSUME NEW t \in Tabs, Activity(t) \/ LoadPolicy(t) PROVE UnlockInv'
  BY <1>3, ActivityStep, LoadPolicyStep
<1>4. ASSUME NEW t \in Tabs, Reload(t) \/ Close(t) PROVE UnlockInv'
  BY <1>4, ReloadStep, CloseStep
<1>5. ASSUME NEW t \in Tabs, NEW s \in Settings, NEW o \in Ops, SetSettings(t, s, o) PROVE UnlockInv'
  BY <1>5, SetSettingsStep
<1>6. ASSUME NEW t \in Tabs, NEW u \in Tabs, NEW o \in Ops, Duplicate(t, u, o) PROVE UnlockInv'
  BY <1>6, DuplicateStep
<1>7. ASSUME NEW o \in Ops, Continue(o) PROVE UnlockInv'
  BY <1>7, OpenSealedStep, ReadSettingsStep, PutKeyStep, WriteEnvelopeStep, PruneStep DEF Continue
<1>8. ASSUME NEW o \in Ops, Fail(o) PROVE UnlockInv'
  BY <1>8, FailStep
<1>9. CASE Tick
  BY <1>9, TickStep
<1>10. CASE UNCHANGED vars
  BY <1>10, StutterStep
<1> QED BY <1>1, <1>2, <1>3, <1>4, <1>5, <1>6, <1>7, <1>8, <1>9, <1>10 DEF Next

LEMMA UnlockInvHolds == Spec => []UnlockInv
<1> QED BY InitUnlockInv, UnlockStep, PTL DEF Spec

-----------------------------------------------------------------------------
(* Which tabs hold the same envelope, and what a clear takes from them.    *)

\* The key of an envelope was drawn by an operation that has written it. Two tabs have the
\* same one only by a copy, and one whose key was cleared has been copied.
Written(k) == op[k].pc \in {"prune", "done"}

CopyInv ==
  /\ \A k \in cleared : Written(k)
  /\ \A t \in Tabs : env[t] # NoEnv => /\ Written(env[t].key)
                                      /\ (env[t].key \in cleared => env[t].key \in copied)
  /\ \A t, u \in Tabs : t # u /\ env[t] # NoEnv /\ env[u] # NoEnv /\ env[t].key = env[u].key
                        => env[t].key \in copied

\* A step that writes no envelope: tabs keep theirs or drop them, and the keys it clears are
\* of those that are dropped.
Drops ==
  /\ \A k \in Ops : Written(k) => Written(k)'
  /\ copied \subseteq copied'
  /\ \A t \in Tabs : env'[t] # NoEnv => env[t] # NoEnv /\ env'[t].key = env[t].key
  /\ \A k \in cleared' : \/ k \in cleared
                         \/ \E t \in Tabs : env[t] # NoEnv /\ env[t].key = k /\ env'[t] = NoEnv

LEMMA DropsKeep == ASSUME UnlockInv, CopyInv, Drops PROVE CopyInv'
<1>1. \A t \in Tabs : env[t] # NoEnv => env[t].key \in Ops
  BY DEF UnlockInv, TypeOK, Envelopes
<1>2. cleared \subseteq Ops
  BY DEF UnlockInv, TypeOK
<1>3. ASSUME NEW k \in cleared' PROVE k \in Ops /\ Written(k)'
  <2>1. k \in cleared \/ \E t \in Tabs : env[t] # NoEnv /\ env[t].key = k
    BY <1>3 DEF Drops
  <2>2. k \in Ops /\ Written(k)
    BY <1>1, <1>2, <2>1 DEF CopyInv
  <2> QED BY <2>2 DEF Drops
<1>4. ASSUME NEW t \in Tabs, env'[t] # NoEnv
      PROVE  /\ Written(env[t].key)' /\ env'[t].key = env[t].key /\ env[t] # NoEnv
             /\ env[t].key \in cleared' => env[t].key \in copied'
  <2>1. env[t] # NoEnv /\ env'[t].key = env[t].key /\ env[t].key \in Ops
    BY <1>1, <1>4 DEF Drops
  <2>2. Written(env[t].key)
    BY <2>1 DEF CopyInv
  <2>3. Written(env[t].key)'
    BY <2>1, <2>2 DEF Drops, Written
  <2>4. ASSUME env[t].key \in cleared' PROVE env[t].key \in copied'
    <3>1. CASE env[t].key \in cleared
      BY <2>1, <3>1 DEF CopyInv, Drops
    <3>2. ASSUME NEW u \in Tabs, env[u] # NoEnv, env[u].key = env[t].key, env'[u] = NoEnv
          PROVE  env[t].key \in copied'
      BY <1>4, <2>1, <3>2 DEF CopyInv, Drops
    <3> QED BY <2>4, <3>1, <3>2 DEF Drops
  <2> QED BY <2>1, <2>3, <2>4
<1>5. ASSUME NEW t \in Tabs, NEW u \in Tabs, t # u, env'[t] # NoEnv, env'[u] # NoEnv, env'[t].key = env'[u].key
      PROVE  env'[t].key \in copied'
  BY <1>4, <1>5 DEF CopyInv, Drops
<1> QED BY <1>3, <1>4, <1>5 DEF CopyInv, Written

\* No operation that has written its envelope goes back.
LEMMA WrittenStays ==
  ASSUME UnlockInv, NEW o \in Ops, ~Written(o) \/ op'[o].pc = "done",
         \A q \in Ops \ {o} : op'[q].pc \in {op[q].pc, "done"}
  PROVE  \A k \in Ops : Written(k) => Written(k)'
BY DEF Written

LEMMA ClearDrops ==
  ASSUME UnlockInv, NEW t \in Tabs, Clear(t), copied' = copied, \A k \in Ops : Written(k) => Written(k)'
  PROVE  Drops
BY DEF Clear, Drops, UnlockInv, TypeOK

LEMMA QuietDrops ==
  ASSUME UnlockInv, env' = env, cleared' = cleared, copied' = copied,
         \A k \in Ops : Written(k) => Written(k)'
  PROVE  Drops
BY DEF Drops

\* The envelope that is written is its operation's own, which nobody has copied or cleared.
LEMMA WriteCopies == ASSUME UnlockInv, CopyInv, NEW o \in Ops, WriteEnvelope(o) PROVE CopyInv'
<1> DEFINE t == op[o].tab
<1>1. op[o].pc = "write" /\ t \in Tabs /\ TypeOK /\ ~Written(o)
  BY GoingKnown DEF WriteEnvelope, Going, Written
<1>2. /\ env'[t].key = o /\ \A u \in Tabs \ {t} : env'[u] = env[u]
      /\ cleared' = cleared /\ copied' = copied
      /\ op' = [op EXCEPT ![o].pc = "prune"]
  BY <1>1 DEF WriteEnvelope, Goes, TypeOK
<1>3. Written(o)' /\ \A k \in Ops : Written(k) => Written(k)'
  BY <1>1, <1>2 DEF Written, TypeOK, OpRec
<1>4. o \notin cleared /\ \A u \in Tabs : env[u] # NoEnv => env[u].key # o /\ env[u].key \in Ops
  BY <1>1 DEF CopyInv, TypeOK, Envelopes
<1>5. cleared \subseteq Ops
  BY <1>1 DEF TypeOK
<1>6. \A k \in cleared' : Written(k)'
  BY <1>2, <1>3, <1>5 DEF CopyInv
<1>7. ASSUME NEW u \in Tabs, env'[u] # NoEnv
      PROVE  op'[env'[u].key].pc \in {"prune", "done"} /\ (env'[u].key \in cleared' => env'[u].key \in copied')
  <2>1. CASE u = t
    BY <1>2, <1>3, <1>4, <2>1 DEF Written
  <2>2. CASE u # t
    <3>1. env'[u] = env[u] /\ env[u] # NoEnv /\ env[u].key \in Ops
      BY <1>2, <1>4, <1>7, <2>2
    <3>2. Written(env[u].key) /\ (env[u].key \in cleared => env[u].key \in copied)
      BY <3>1 DEF CopyInv
    <3>3. Written(env[u].key)'
      BY <1>3, <3>1, <3>2
    <3> QED BY <1>2, <3>1, <3>2, <3>3 DEF Written
  <2> QED BY <2>1, <2>2
<1>8. ASSUME NEW u \in Tabs, NEW v \in Tabs, u # v, env'[u] # NoEnv, env'[v] # NoEnv, env'[u].key = env'[v].key
      PROVE  env'[u].key \in copied'
  <2>1. u # t /\ v # t
    BY <1>2, <1>4, <1>8
  <2> QED BY <1>2, <1>8, <2>1 DEF CopyInv
<1> QED BY <1>6, <1>7, <1>8 DEF CopyInv, Written

\* A duplicated tab's envelope is one that was copied.
LEMMA DuplicateCopies ==
  ASSUME UnlockInv, CopyInv, NEW t \in Tabs, NEW u \in Tabs, NEW o \in Ops, Duplicate(t, u, o)
  PROVE  CopyInv'
<1>1. /\ env[t] # NoEnv /\ env[u] = NoEnv /\ env' = [env EXCEPT ![u] = env[t]] /\ TypeOK
      /\ cleared' = cleared /\ copied' = copied \cup {env[t].key}
  BY DEF Duplicate, Live, UnlockInv
<1>2. \A v \in Tabs : env[v] # NoEnv => env[v].key \in Ops
  BY <1>1 DEF TypeOK, Envelopes
<1>3. ASSUME NEW k \in Ops, Written(k) PROVE Written(k)'
  <2>1. k # o /\ op[k].pc \in {"prune", "done"}
    BY <1>3 DEF Written, Duplicate, Resume, Free
  <2>2. op'[k] = op[k] \/ op'[k] = Done
    BY <2>1 DEF Duplicate, Resume, Fresh
  <2> QED BY <2>1, <2>2 DEF Written, Done, NewOp
<1>4. \A k \in cleared' : Written(k)'
  BY <1>1, <1>3 DEF CopyInv, TypeOK
<1>5. ASSUME NEW v \in Tabs, env'[v] # NoEnv
      PROVE  /\ op'[env'[v].key].pc \in {"prune", "done"}
             /\ env'[v].key \in cleared => env'[v].key \in copied'
             /\ env'[v] = IF v = u THEN env[t] ELSE env[v]
  <2>1. env'[v] = IF v = u THEN env[t] ELSE env[v]
    BY <1>1 DEF TypeOK
  <2>2. CASE v = u
    <3>1. Written(env[t].key)
      BY <1>1 DEF CopyInv
    <3>2. Written(env[t].key)'
      BY <1>1, <1>2, <1>3, <3>1
    <3> QED BY <1>1, <2>1, <2>2, <3>2 DEF Written
  <2>3. CASE v # u
    <3>1. env'[v] = env[v] /\ Written(env[v].key) /\ (env[v].key \in cleared => env[v].key \in copied)
      BY <1>5, <2>1, <2>3 DEF CopyInv
    <3>2. Written(env[v].key)'
      BY <1>2, <1>3, <1>5, <3>1
    <3> QED BY <1>1, <2>1, <3>1, <3>2 DEF Written
  <2> QED BY <2>2, <2>3
<1>6. ASSUME NEW v \in Tabs, NEW x \in Tabs, v # x, env'[v] # NoEnv, env'[x] # NoEnv, env'[v].key = env'[x].key
      PROVE  env'[v].key \in copied'
  <2>1. CASE v = u \/ x = u
    BY <1>1, <1>5, <1>6, <2>1
  <2>2. CASE v # u /\ x # u
    BY <1>1, <1>5, <1>6, <2>2 DEF CopyInv
  <2> QED BY <2>1, <2>2
<1> QED BY <1>1, <1>4, <1>5, <1>6 DEF CopyInv, Written

\* A step of one operation, or of a page and its operations.
LEMMA PagesDrop ==
  ASSUME UnlockInv, NEW t \in Tabs, Reload(t) \/ Close(t) \/ LockStore(t) \/ Activity(t) \/ LoadPolicy(t)
  PROVE  Drops
<1>1. TypeOK
  BY DEF UnlockInv
<1>2. ASSUME NEW k \in Ops, Written(k) PROVE Fresh(t)[k].pc \in {"prune", "done"}
  BY <1>1, <1>2 DEF Written, Fresh, Done, InFlight, TypeOK
<1>3. CASE Reload(t)
  <2>1. \A k \in Ops : Written(k) => Written(k)'
    <3>1. CASE op' = Fresh(t)
      BY <1>2, <3>1 DEF Written
    <3>2. ASSUME NEW o \in Ops, Resume(t, env[t], o) PROVE \A k \in Ops : Written(k) => Written(k)'
      BY <1>1, <1>2, <3>2 DEF Written, Resume, Free, Fresh
    <3> QED BY <1>3, <3>1, <3>2 DEF Reload
  <2> QED BY <1>3, <2>1, QuietDrops DEF Reload
<1>4. CASE Close(t)
  <2>1. \A k \in Ops : Written(k) => Written(k)'
    BY <1>2, <1>4 DEF Written, Close
  <2> QED BY <1>1, <1>4, <2>1 DEF Close, Drops, TypeOK
<1>5. CASE LockStore(t)
  <2>1. \A k \in Ops : Written(k) => Written(k)'
    <3>1. ASSUME NEW k \in Ops PROVE op'[k].pc = op[k].pc
      <4>1. op[k] \in OpRec
        BY <1>1 DEF TypeOK
      <4>2. op'[k] = op[k] \/ op'[k] = [op[k] EXCEPT !.w.wiped = TRUE]
        BY <1>5 DEF LockStore
      <4> QED BY <4>1, <4>2 DEF OpRec
    <3> QED BY <3>1 DEF Written
  <2> QED BY <1>5, <2>1, ClearDrops DEF LockStore
<1>6. CASE Activity(t)
  <2>1. \A k \in Ops : Written(k) => Written(k)'
    BY <1>6 DEF Activity, Written
  <2>2. CASE Clear(t)
    BY <1>6, <2>1, <2>2, ClearDrops DEF Activity
  <2>3. CASE /\ env' = IF env[t] = NoEnv THEN env ELSE [env EXCEPT ![t].used = now]
             /\ UNCHANGED <<keys, cleared>>
    <3>1. ASSUME NEW u \in Tabs, env'[u] # NoEnv PROVE env[u] # NoEnv /\ env'[u].key = env[u].key
      <4>1. env[u] \in Envelopes \cup {NoEnv} /\ env[t] \in Envelopes \cup {NoEnv}
        BY <1>1 DEF TypeOK
      <4>2. CASE env'[u] = env[u]
        BY <3>1, <4>2
      <4>3. CASE u = t /\ env[t] # NoEnv /\ env'[u] = [env[t] EXCEPT !.used = now]
        BY <4>1, <4>3 DEF Envelopes
      <4> QED BY <1>1, <2>3, <4>2, <4>3 DEF TypeOK
    <3> QED BY <1>6, <2>1, <2>3, <3>1 DEF Activity, Drops
  <2> QED BY <1>6, <2>2, <2>3 DEF Activity
<1>7. CASE LoadPolicy(t)
  BY <1>7, QuietDrops DEF LoadPolicy, Written
<1> QED BY <1>3, <1>4, <1>5, <1>6, <1>7

LEMMA StartsDrop ==
  ASSUME UnlockInv, NEW t \in Tabs, NEW o \in Ops,
         (\E a \in Accounts : SetWallet(t, a, o)) \/ \E s \in Settings : SetSettings(t, s, o)
  PROVE  Drops
<1>1. TypeOK /\ op[o].pc = "free"
  BY DEF UnlockInv, SetWallet, SetSettings, Free
<1>2. ASSUME NEW a \in Accounts, SetWallet(t, a, o) PROVE Drops
  <2>1. ASSUME NEW k \in Ops, Written(k) PROVE Written(k)'
    <3>1. k # o /\ op[k] \in OpRec
      BY <1>1, <2>1 DEF Written, TypeOK
    <3>2. op'[k] = op[k] \/ op'[k] = [op[k] EXCEPT !.mine = FALSE]
      BY <1>2, <3>1 DEF SetWallet
    <3> QED BY <2>1, <3>1, <3>2 DEF Written, OpRec
  <2> QED BY <1>2, <2>1, QuietDrops DEF SetWallet
<1>3. ASSUME NEW s \in Settings, SetSettings(t, s, o) PROVE Drops
  <2>1. ASSUME NEW k \in Ops, Written(k) PROVE Written(k)'
    <3>1. k # o
      BY <1>1, <2>1 DEF Written
    <3>2. op'[k] = op[k]
      <4>1. CASE s.keep
        BY <1>1, <1>3, <3>1, <4>1 DEF SetSettings, TypeOK
      <4>2. CASE ~s.keep
        BY <1>3, <4>2 DEF SetSettings
      <4> QED BY <4>1, <4>2
    <3> QED BY <2>1, <3>2 DEF Written
  <2>2. CASE s.keep
    BY <1>3, <2>1, <2>2, QuietDrops DEF SetSettings
  <2>3. CASE ~s.keep
    BY <1>3, <2>1, <2>3, ClearDrops DEF SetSettings, GiveUp
  <2> QED BY <2>2, <2>3
<1> QED BY <1>2, <1>3

LEMMA OperationsDrop ==
  ASSUME UnlockInv, NEW o \in Ops, OpenSealed(o) \/ ReadSettings(o) \/ PutKey(o) \/ Prune(o) \/ Fail(o)
  PROVE  Drops
<1>1. TypeOK /\ Going(op[o]) /\ op[o].tab \in Tabs
  BY GoingKnown DEF OpenSealed, ReadSettings, PutKey, Prune, Fail, Going
<1>2. ASSUME NEW k \in Ops, Written(k) PROVE Written(k)'
  <2>1. k # o \/ Prune(o)
    BY <1>2 DEF Written, OpenSealed, ReadSettings, PutKey, Fail
  <2>2. k # o => op'[k] = op[k]
    BY <1>1 DEF OpenSealed, ReadSettings, PutKey, Prune, Fail, Goes, Throw, Return, TypeOK
  <2>3. Prune(o) => op'[o].pc = "done"
    BY <1>1 DEF Prune, Return, Done, TypeOK
  <2> QED BY <1>2, <2>1, <2>2, <2>3 DEF Written
<1>3. CASE copied' = copied /\ Clear(op[o].tab)
  BY <1>1, <1>2, <1>3, ClearDrops
<1>4. CASE UNCHANGED <<env, cleared, copied>>
  BY <1>2, <1>4, QuietDrops
<1>5. CASE OpenSealed(o) \/ Fail(o)
  BY <1>3, <1>4, <1>5 DEF OpenSealed, Fail, Throw
<1>6. CASE ReadSettings(o)
  BY <1>3, <1>4, <1>6 DEF ReadSettings, GiveUp
<1>7. CASE PutKey(o) \/ Prune(o)
  BY <1>4, <1>7 DEF PutKey, Prune
<1> QED BY <1>5, <1>6, <1>7

LEMMA CopyStep == ASSUME UnlockInv, CopyInv, [Next]_vars PROVE CopyInv'
<1>1. ASSUME NEW t \in Tabs, Lock(t) \/ AutoLock(t) \/ Activity(t) \/ LoadPolicy(t) \/ Reload(t) \/ Close(t)
      PROVE  CopyInv'
  BY <1>1, PagesDrop, DropsKeep DEF Lock, AutoLock
<1>2. ASSUME NEW t \in Tabs, NEW o \in Ops,
             (\E a \in Accounts : SetWallet(t, a, o)) \/ \E s \in Settings : SetSettings(t, s, o)
      PROVE  CopyInv'
  BY <1>2, StartsDrop, DropsKeep
<1>3. ASSUME NEW t \in Tabs, NEW u \in Tabs, NEW o \in Ops, Duplicate(t, u, o) PROVE CopyInv'
  BY <1>3, DuplicateCopies
<1>4. ASSUME NEW o \in Ops, Continue(o) \/ Fail(o) PROVE CopyInv'
  BY <1>4, OperationsDrop, WriteCopies, DropsKeep DEF Continue
<1>5. CASE Tick \/ UNCHANGED vars
  BY <1>5, QuietDrops, DropsKeep DEF Tick, vars, Written
<1> QED BY <1>1, <1>2, <1>3, <1>4, <1>5 DEF Next

-----------------------------------------------------------------------------
\* The records of the session (envelope, key, operation, wallet) keep their types.
THEOREM UnlockTyped == Spec => []TypeOK
<1>1. UnlockInv => TypeOK
  BY DEF UnlockInv
<1> QED BY <1>1, UnlockInvHolds, PTL

\* saveUnlockSession carries createdAt through every reload, re-seal and duplicated tab: an
\* envelope's absolute deadline was always minted by the user's own unlock or change of settings.
THEOREM CapKept == Spec => []RefreshNeverExtends
<1> QED BY InvImplies, UnlockInvHolds, PTL

\* putUnlockSessionKey before writeEnvelope, and pruning by ABS_TTL_MS only: no save, restore,
\* prune or crash takes the key of a live envelope. What does is the clear of a tab that holds
\* a copy of it, as the failed restore of a duplicated tab makes.
THEOREM KeyKept == Spec => []LiveEnvelopeOpens
<1>1. Init => CopyInv
  BY DEF Init, CopyInv
<1>2. UnlockInv /\ CopyInv /\ [Next]_vars => CopyInv'
  BY CopyStep
<1>3. UnlockInv /\ CopyInv => LiveEnvelopeOpens
  BY InvImplies DEF CopyInv, LiveEnvelopeOpens, Live
<1> QED BY <1>1, <1>2, <1>3, UnlockInvHolds, PTL DEF Spec
=============================================================================
