----------------------- MODULE ConnectHandler_proofs -----------------------
(***************************************************************************)
(* What holds of ConnectHandler for every number of ports, requests,       *)
(* origins and accounts: its types, that a port only works under sessions  *)
(* of its own origin, and that a session binds an account the user agreed  *)
(* to share with that origin.                                              *)
(*                                                                         *)
(* The three are not inductive by themselves: what a handler will do after *)
(* an await depends on what its request remembered before it.  IInv says   *)
(* what a request has gathered at each program counter (ReqOK), what a     *)
(* port holds (PortOK) and whose prompt is on screen (PinShape).           *)
(*                                                                         *)
(* Then what no step of it does, and at the end: it keeps DappPromise.     *)
(***************************************************************************)
EXTENDS ConnectPromise, TLAPS

\* The program counters at which a handler works under a session, and those
\* at which a connect has its account and no session yet.
SidPCs  == {"ending", "expiring", "touched", "nonce", "granted", "created", "bound",
            "reply"}
AcctPCs == {"pin", "keyed", "chain"}

\* The port's own object of the session carries the port's own origin.
Own(x, s) == s \in Sids => mem[x][s].origin = OriginOf[x]

Handed(x) == stage[x] \in {"main", "closed"}

\* What a request has gathered by the time it is at its program counter.
ReqOK(r) ==
  /\ rq[r].pc \in SidPCs => rq[r].sid \in Sids
  /\ rq[r].pc = "restored" => rq[r].kind = "connect"
  /\ rq[r].pc = "chain" => rq[r].sid = None
  /\ rq[r].pc = "approve" /\ rq[r].kind \in SignKinds => rq[r].sid \in Sids
  /\ rq[r].pc \in AcctPCs => rq[r].acct \in Accounts
  /\ InFlight(r) /\ rq[r].pc # "ending" => rq[r].kind # "userDisconnect"
  /\ InFlight(r) /\ rq[r].kind # "userDisconnect" => Own(PortOf[r], rq[r].sid)
  /\ rq[r].host = "main" => Handed(PortOf[r])
  /\ rq[r].pc \in AcctPCs /\ rq[r].sid = None
       => <<OriginOf[PortOf[r]], rq[r].acct>> \in consented

\* What a port holds: the main window adopts only what was handed off.
PortOK(x) ==
  /\ Own(x, session[x])
  /\ Own(x, adopting[x])
  /\ adopting[x] # 0 => Handed(x)

\* A window's prompt, and the PIN a popup is checking, belong to a request of
\* that window that waits for it.
PinShape ==
  /\ \A w \in Windows : pin[w] # None =>
       /\ rq[pin[w]].pc = "pin"
       /\ rq[pin[w]].host = (IF w = Main THEN "main" ELSE "popup")
       /\ w # Main => PortOf[pin[w]] = w
  /\ \A x \in Ports : verifying[x] # None =>
       /\ rq[verifying[x]].pc = "pin"
       /\ rq[verifying[x]].host = "popup"
       /\ PortOf[verifying[x]] = x

IInv ==
  /\ TypeOK
  /\ \A r \in Reqs : ReqOK(r)
  /\ \A x \in Ports : PortOK(x)
  /\ PinShape
  /\ ConsentedSessions

\* What no step takes back: a port handed off, the origin of a copy, consent.
Grows ==
  /\ \A x \in Ports : Handed(x) => Handed(x)'
  /\ \A x \in Ports, s \in Sids : Own(x, s) => Own(x, s)'
  /\ consented \subseteq consented'

\* A step of request r leaves the other requests alone, ...
Others(r) == \A q \in Reqs \ {r} : rq'[q] = rq[q]

\* ... and moves r on.
Goes(r, c) ==
  /\ rq'[r].pc = c
  /\ rq'[r].kind = rq[r].kind /\ rq'[r].host = rq[r].host /\ rq'[r].sid = rq[r].sid
  /\ Others(r)

-----------------------------------------------------------------------------
\* Nothing is held, asked or saved at the start.
LEMMA InitIInv == Init => IInv
<1> SUFFICES ASSUME Init PROVE IInv
  OBVIOUS
<1> USE NoneAssumption, WiringAssumption, BoundAssumption, MainAssumption
<1>1. NewReq \in ReqRec
  BY DEF NewReq, ReqRec, PCs, Hosts, Results
<1>2. TypeOK
  <2>1. RecordType
    BY DEF Init, RecordType
  <2>2. HandlerType
    BY DEF Init, HandlerType, Stages
  <2>3. HostType
    BY DEF Init, HostType
  <2>4. RequestType
    BY <1>1 DEF Init, RequestType
  <2> QED
    BY <2>1, <2>2, <2>3, <2>4 DEF TypeOK
<1>3. ASSUME NEW r \in Reqs PROVE ReqOK(r)
  BY DEF Init, ReqOK, NewReq, InFlight, SidPCs, AcctPCs, SignKinds
<1>4. ASSUME NEW x \in Ports PROVE PortOK(x)
  BY DEF Init, PortOK, Own, Sids
<1>5. PinShape
  BY DEF Init, PinShape, Windows
<1>6. ConsentedSessions
  BY DEF Init, ConsentedSessions, Copies
<1> QED
  BY <1>2, <1>3, <1>4, <1>5, <1>6 DEF IInv

-----------------------------------------------------------------------------
(* Lemmas on the parts of a step.                                          *)

\* What the invariant gives a step of request r.
LEMMA Parts ==
  ASSUME IInv
  PROVE  /\ RecordType /\ HandlerType /\ HostType /\ RequestType
         /\ \A r \in Reqs : ReqOK(r)
         /\ \A x \in Ports : PortOK(x)
         /\ PinShape /\ ConsentedSessions
BY DEF IInv, TypeOK

\* A port's own copy of a session is a record.
LEMMA OwnRec ==
  ASSUME RecordType, NEW x \in Ports, NEW s \in Sids, Own(x, s)
  PROVE  mem[x][s] \in Rec /\ mem[x][s] # NoRec
BY NoneAssumption, WiringAssumption DEF RecordType, Own, NoRec

\* findSdkSessionByOrigin returns a saved record of the origin.
LEMMA RestoredRec ==
  ASSUME RecordType, NEW o \in Origins, NEW s \in Sids, Restored(o, s)
  PROVE  store[s] \in Rec /\ store[s].origin = o
BY NoneAssumption, BoundAssumption DEF RecordType, Restored, Latest, Live, Rec, NoRec, Sids

\* A request and what it is at stay sound when only others move.
LEMMA ReqFrame ==
  ASSUME NEW r \in Reqs, ReqOK(r), rq'[r] = rq[r], Grows
  PROVE  ReqOK(r)'
<1> PortOf[r] \in Ports
  BY WiringAssumption
<1>1. Own(PortOf[r], rq[r].sid) => Own(PortOf[r], rq[r].sid)'
  BY DEF Grows, Own
<1> QED
  BY <1>1 DEF ReqOK, Grows, InFlight, Handed, Own

\* The same for a port whose fields are kept or cleared.
LEMMA PortFrame ==
  ASSUME NEW x \in Ports, PortOK(x), Grows, session'[x] \in {session[x], None},
         adopting'[x] \in {adopting[x], 0}
  PROVE  PortOK(x)'
<1> None \notin Sids /\ 0 \notin Sids
  BY NoneAssumption, BoundAssumption DEF Sids
<1>1. Own(x, session[x])' /\ Own(x, adopting[x])'
  BY DEF Grows, Own, PortOK
<1> QED
  BY <1>1 DEF PortOK, Grows, Handed

\* A prompt waits for a request that does not move.
LEMMA PinFrame ==
  ASSUME NEW r \in Reqs, HostType, PinShape, Others(r), rq[r].pc # "pin",
         UNCHANGED <<pin, verifying>>
  PROVE  PinShape'
BY MainAssumption DEF PinShape, Others, HostType, Windows

\* The step of a request, from what it does to the request itself.
LEMMA StepIInv ==
  ASSUME IInv, TypeOK', NEW r \in Reqs, Others(r), Grows, ReqOK(r)',
         \A x \in Ports : PortOK(x)', PinShape', ConsentedSessions'
  PROVE  IInv'
<1>1. ASSUME NEW q \in Reqs PROVE ReqOK(q)'
  BY ReqFrame, Parts DEF Others
<1> QED
  BY <1>1 DEF IInv

\* Nothing is saved, loaded or withdrawn.
LEMMA RecordFrame ==
  ASSUME RecordType, ConsentedSessions, UNCHANGED <<store_vars, mem, now>>,
         consented \subseteq consented', \A x \in Ports : Handed(x) => Handed(x)'
  PROVE  RecordType' /\ ConsentedSessions' /\ Grows
<1>1. RecordType'
  BY DEF RecordType, store_vars
<1>2. ConsentedSessions'
  BY DEF ConsentedSessions, Copies, store_vars
<1>3. Grows
  BY DEF Grows, Own
<1> QED
  BY <1>1, <1>2, <1>3

\* Deleting a record.
LEMMA DeleteRecord ==
  ASSUME RecordType, ConsentedSessions, NEW s \in Sids, store' = [store EXCEPT ![s] = NoRec],
         UNCHANGED <<minted, mem, now, consented, stage>>
  PROVE  RecordType' /\ ConsentedSessions' /\ Grows
<1>1. RecordType'
  BY DEF RecordType
<1>2. ConsentedSessions'
  BY DEF ConsentedSessions, Copies, RecordType
<1>3. Grows
  BY DEF Grows, Own, Handed
<1> QED
  BY <1>1, <1>2, <1>3

\* touchSession, grantPermission: the record is rewritten in place and saved,
\* and keeps the origin and the account it is bound to.
LEMMA Rewrite ==
  ASSUME RecordType, ConsentedSessions, NEW x \in Ports, NEW s \in Sids, Own(x, s),
         NEW v \in Rec, v.origin = mem[x][s].origin, v.addr = mem[x][s].addr,
         mem' = [mem EXCEPT ![x][s] = v],
         store' = store \/ store' = [store EXCEPT ![s] = v],
         UNCHANGED <<minted, now, consented, stage>>
  PROVE  RecordType' /\ ConsentedSessions' /\ Grows
<1>0. mem[x][s] # NoRec
  BY OwnRec
<1>1. RecordType'
  BY DEF RecordType
<1>2. \A y \in Ports, t \in Sids : mem'[y][t] = IF y = x /\ t = s THEN v ELSE mem[y][t]
  BY DEF RecordType
<1>4. <<v.origin, v.addr>> \in consented
  BY <1>0 DEF ConsentedSessions, Copies
<1>5. ConsentedSessions'
  <2> SUFFICES ASSUME NEW t \in Sids, NEW c \in Copies(t)', c # NoRec
               PROVE  <<c.origin, c.addr>> \in consented
    BY DEF ConsentedSessions
  <2>1. c = v \/ c \in Copies(t)
    BY <1>2 DEF Copies, RecordType
  <2> QED
    BY <2>1, <1>4 DEF ConsentedSessions
<1>6. Grows
  BY <1>2 DEF Grows, Own, Handed
<1> QED
  BY <1>1, <1>5, <1>6

\* restoreSession: a saved record of the port's origin, or nothing, is loaded.
LEMMA Load ==
  ASSUME RecordType, ConsentedSessions, NEW x \in Ports, NEW s \in Sids \cup {None},
         Restored(OriginOf[x], s),
         mem' = IF s = None THEN mem ELSE [mem EXCEPT ![x][s] = store[s]],
         UNCHANGED <<store_vars, now, consented>>,
         \A y \in Ports : Handed(y) => Handed(y)'
  PROVE  RecordType' /\ ConsentedSessions' /\ Grows /\ Own(x, s)'
<1>1. CASE s = None
  <2>1. RecordType' /\ ConsentedSessions' /\ Grows
    BY <1>1, RecordFrame
  <2>2. None \notin Sids
    BY NoneAssumption, BoundAssumption DEF Sids
  <2> QED
    BY <2>1, <2>2, <1>1 DEF Own
<1>2. CASE s \in Sids
  <2>0. None \notin Sids
    BY NoneAssumption, BoundAssumption DEF Sids
  <2>1. store[s] \in Rec /\ store[s].origin = OriginOf[x]
    BY <1>2, RestoredRec, WiringAssumption
  <2>2. mem' = [mem EXCEPT ![x][s] = store[s]]
    BY <1>2, <2>0
  <2>3. \A y \in Ports, t \in Sids : mem'[y][t] = IF y = x /\ t = s THEN store[s] ELSE mem[y][t]
    BY <1>2, <2>2 DEF RecordType
  <2>4. RecordType'
    BY <1>2, <2>1, <2>2 DEF RecordType, store_vars
  <2>5. ConsentedSessions'
    BY <1>2, <2>3 DEF ConsentedSessions, Copies, store_vars
  <2>6. Grows /\ Own(x, s)'
    BY <1>2, <2>1, <2>3 DEF Grows, Own
  <2> QED
    BY <2>4, <2>5, <2>6
<1> QED
  BY <1>1, <1>2

\* fail and reply: the request is done.
LEMMA Finishes ==
  ASSUME RequestType, NEW r \in Reqs, NEW res \in Results, Finish(r, res)
  PROVE  RequestType' /\ Goes(r, "done")
<1> DEFINE v == IF Owns(r) THEN res ELSE "dropped"
<1>1. v \in Results
  BY DEF Results
<1>2. rq' = [rq EXCEPT ![r].pc = "done", ![r].result = v]
  BY DEF Finish
<1> HIDE DEF v
<1>3. RequestType'
  <2>1. [rq[r] EXCEPT !.pc = "done", !.result = v] \in ReqRec
    BY <1>1 DEF RequestType, ReqRec, PCs
  <2> QED
    BY <1>2, <2>1 DEF RequestType
<1>4. Goes(r, "done")
  BY <1>2 DEF RequestType, ReqRec, Goes, Others
<1> QED
  BY <1>3, <1>4

\* A request that is done claims nothing.
LEMMA DoneOK ==
  ASSUME NEW r \in Reqs, ReqOK(r), Grows, rq'[r].pc = "done", rq'[r].host = rq[r].host
  PROVE  ReqOK(r)'
BY WiringAssumption DEF ReqOK, Grows, InFlight, SidPCs, AcctPCs

\* A request is taken up by the window that owns its port.
LEMMA Starts ==
  ASSUME RequestType, NEW r \in Reqs, NEW k \in Kinds, NEW pc \in PCs,
         NEW s \in Sids \cup {None}, NEW res \in Results, stage[PortOf[r]] \in Hosts,
         rq' = [rq EXCEPT ![r] = Started(r, k, pc, s, res)], UNCHANGED stage
  PROVE  /\ RequestType' /\ Others(r)
         /\ rq'[r].kind = k /\ rq'[r].pc = pc /\ rq'[r].sid = s
         /\ rq'[r].host = "main" => Handed(PortOf[r])'
<1>1. Started(r, k, pc, s, res) \in ReqRec
  BY DEF Started, ReqRec
<1>2. RequestType' /\ Others(r) /\ rq'[r] = Started(r, k, pc, s, res)
  BY <1>1 DEF RequestType, Others
<1> QED
  BY <1>2 DEF Started, Handed

\* touchSession on the port's own copy.
LEMMA TouchKeeps ==
  ASSUME RecordType, ConsentedSessions, NEW x \in Ports, NEW s \in Sids, Own(x, s),
         Touch(x, s), UNCHANGED <<minted, now, consented, stage>>
  PROVE  RecordType' /\ ConsentedSessions' /\ Grows
<1> DEFINE v == [mem[x][s] EXCEPT !.used = now]
<1>1. mem[x][s] \in Rec
  BY OwnRec
<1>2. v \in Rec /\ v.origin = mem[x][s].origin /\ v.addr = mem[x][s].addr
  BY <1>1 DEF Rec, RecordType
<1>3. mem' = [mem EXCEPT ![x][s] = v]
  BY DEF Touch
<1>4. store' = [store EXCEPT ![s] = v]
  <2>1. store' = [store EXCEPT ![s] = mem'[x][s]]
    BY DEF Touch
  <2>2. mem'[x][s] = v
    BY <1>3 DEF RecordType
  <2> QED
    BY <2>1, <2>2
<1> HIDE DEF v
<1> QED
  BY <1>2, <1>3, <1>4, Rewrite

\* The same, for a request that goes on to an await.
LEMMA Begins ==
  ASSUME RequestType, NEW r \in Reqs, NEW k \in Kinds, NEW pc \in PCs,
         NEW s \in Sids \cup {None}, stage[PortOf[r]] \in Hosts, Begin(r, k, pc, s),
         UNCHANGED stage
  PROVE  /\ RequestType' /\ Others(r)
         /\ rq'[r].kind = k /\ rq'[r].pc = pc /\ rq'[r].sid = s
         /\ rq'[r].host = "main" => Handed(PortOf[r])'
<1>1. "none" \in Results
  BY DEF Results
<1> QED
  BY <1>1, Starts DEF Begin

\* A request that is answered or fails.
LEMMA Ends ==
  ASSUME IInv, NEW r \in Reqs, NEW res \in Results, Finish(r, res), Grows
  PROVE  RequestType' /\ Others(r) /\ ReqOK(r)'
<1>1. RequestType' /\ Goes(r, "done")
  BY Parts, Finishes
<1> QED
  BY <1>1, Parts, DoneOK DEF Goes

-----------------------------------------------------------------------------
(* Arrivals.                                                               *)

\* A call that the locked window refuses is done at once.
LEMMA ArriveLockedIInv ==
  ASSUME IInv, NEW r \in Reqs, ArriveLocked(r) PROVE IInv'
<1>1. PICK k \in Kinds : Delivered(r, k) /\ Answer(r, k, "locked")
  BY DEF ArriveLocked
<1>2. UNCHANGED <<store_vars, host_vars, conn_vars, trusted, now, stage, carried, adopting,
                  tearDown, consented>>
  BY DEF ArriveLocked
<1>3. RequestType' /\ Others(r) /\ rq'[r].pc = "done"
      /\ (rq'[r].host = "main" => Handed(PortOf[r])')
  BY <1>1, <1>2, Parts, Starts DEF Answer, Delivered, PCs, Results
<1>4. RecordType' /\ ConsentedSessions' /\ Grows
  BY <1>2, Parts, RecordFrame DEF conn_vars, Handed
<1>5. TypeOK'
  BY <1>2, <1>3, <1>4, Parts DEF TypeOK, HandlerType, HostType, conn_vars, host_vars, pin_vars
<1>6. ReqOK(r)'
  BY <1>3 DEF ReqOK, InFlight, SidPCs, AcctPCs
<1>7. \A x \in Ports : PortOK(x)'
  BY <1>2, <1>4, Parts, PortFrame DEF conn_vars
<1>8. PinShape'
  BY <1>1, <1>2, <1>3, Parts, PinFrame DEF Delivered, host_vars, pin_vars
<1> QED
  BY <1>3, <1>4, <1>5, <1>6, <1>7, <1>8, StepIInv

\* What restoreSession(origin) returns to a connect is a record of that origin.
LEMMA StartConnectIInv ==
  ASSUME IInv, NEW r \in Reqs, StartConnect(r) PROVE IInv'
<1> DEFINE x == PortOf[r]
<1>0. x \in Ports
  BY WiringAssumption
<1>1. PICK s \in Sids \cup {None} :
        /\ Restored(OriginOf[x], s)
        /\ Begin(r, "connect", "restored", s)
        /\ mem' = IF s = None THEN mem ELSE [mem EXCEPT ![x][s] = store[s]]
  BY DEF StartConnect
<1>2. UNCHANGED <<store_vars, host_vars, trusted, now, stage, session, addr, wallet,
                  carried, adopting, tearDown, consented>>
  BY DEF StartConnect
<1>3. RequestType' /\ Others(r) /\ rq'[r].pc = "restored" /\ rq'[r].sid = s
      /\ rq'[r].kind = "connect" /\ (rq'[r].host = "main" => Handed(x)')
  BY <1>1, <1>2, Parts, Begins DEF StartConnect, Delivered, PCs, Kinds
<1>4. RecordType' /\ ConsentedSessions' /\ Grows /\ Own(x, s)'
  BY <1>0, <1>1, <1>2, Parts, Load DEF Handed
<1>5. TypeOK'
  BY <1>2, <1>3, <1>4, Parts DEF TypeOK, HandlerType, HostType, host_vars, pin_vars
<1>6. ReqOK(r)'
  BY <1>3, <1>4 DEF ReqOK, InFlight, SidPCs, AcctPCs, Own
<1>7. \A y \in Ports : PortOK(y)'
  BY <1>2, <1>4, Parts, PortFrame
<1>8. PinShape'
  BY <1>2, <1>3, Parts, PinFrame DEF StartConnect, Delivered, host_vars, pin_vars
<1> QED
  BY <1>3, <1>4, <1>5, <1>6, <1>7, <1>8, StepIInv

\* endCurrentSession works under the session the port holds.
LEMMA StartDisconnectIInv ==
  ASSUME IInv, NEW r \in Reqs, StartDisconnect(r) PROVE IInv'
<1> DEFINE x == PortOf[r]
<1>0. x \in Ports /\ session[x] \in Sids \cup {None}
  BY WiringAssumption, Parts DEF HandlerType
<1>1. PICK k \in EndKinds :
        /\ Delivered(r, k)
        /\ IF session[x] = None
             THEN Answer(r, k, "ok") /\ UNCHANGED store
             ELSE /\ Begin(r, k, "ending", session[x])
                  /\ store' = [store EXCEPT ![session[x]] = NoRec]
  BY DEF StartDisconnect
<1>2. UNCHANGED <<minted, host_vars, conn_vars, trusted, now, stage, carried, adopting,
                  tearDown, consented>>
  BY DEF StartDisconnect
<1>3. /\ RequestType' /\ Others(r) /\ (rq'[r].host = "main" => Handed(x)')
      /\ \/ rq'[r].pc = "done"
         \/ rq'[r].pc = "ending" /\ rq'[r].sid = session[x] /\ session[x] # None
      /\ RecordType' /\ ConsentedSessions' /\ Grows
  <2>1. CASE session[x] = None
    <3>1. RequestType' /\ Others(r) /\ (rq'[r].host = "main" => Handed(x)') /\ rq'[r].pc = "done"
      BY <1>1, <1>2, <2>1, Parts, Starts DEF Answer, Delivered, PCs, Results, Kinds, EndKinds
    <3>2. RecordType' /\ ConsentedSessions' /\ Grows
      BY <1>1, <1>2, <2>1, Parts, RecordFrame DEF conn_vars, store_vars, Handed
    <3> QED
      BY <3>1, <3>2
  <2>2. CASE session[x] # None
    <3>1. /\ RequestType' /\ Others(r) /\ (rq'[r].host = "main" => Handed(x)')
          /\ rq'[r].pc = "ending" /\ rq'[r].sid = session[x]
      BY <1>0, <1>1, <1>2, <2>2, Parts, Begins
         DEF Delivered, PCs, Kinds, EndKinds
    <3>2. RecordType' /\ ConsentedSessions' /\ Grows
      BY <1>0, <1>1, <1>2, <2>2, Parts, DeleteRecord DEF conn_vars
    <3> QED
      BY <2>2, <3>1, <3>2
  <2> QED
    BY <2>1, <2>2
<1>5. TypeOK'
  BY <1>2, <1>3, Parts DEF TypeOK, HandlerType, HostType, conn_vars, host_vars, pin_vars
<1>6. ReqOK(r)'
  <2>1. Own(x, session[x])'
    BY <1>0, <1>2, <1>3, Parts DEF PortOK, Own, conn_vars
  <2>2. rq'[r].sid = session[x] => Own(x, rq[r].sid)'
    BY <2>1, <1>2 DEF Own, conn_vars
  <2> QED
    BY <1>0, <1>3, <2>2 DEF ReqOK, InFlight, SidPCs, AcctPCs
<1>7. \A y \in Ports : PortOK(y)'
  BY <1>2, <1>3, Parts, PortFrame DEF conn_vars
<1>8. PinShape'
  BY <1>1, <1>2, <1>3, Parts, PinFrame DEF Delivered, host_vars, pin_vars
<1> QED
  BY <1>3, <1>5, <1>6, <1>7, <1>8, StepIInv

\* requireSession touches, or deletes, the session the port holds.
LEMMA StartUseIInv ==
  ASSUME IInv, NEW r \in Reqs, StartUse(r) PROVE IInv'
<1> DEFINE x == PortOf[r]
           s == session[x]
<1>0. x \in Ports /\ s \in Sids \cup {None} /\ Own(x, s)
  BY WiringAssumption, Parts DEF HandlerType, PortOK
<1>1. PICK k \in ReadKinds \cup SignKinds :
        /\ Delivered(r, k)
        /\ \/ /\ s = None
              /\ Answer(r, k, "unauthorized")
              /\ UNCHANGED <<store, mem>>
           \/ /\ s # None
              /\ Begin(r, k, "expiring", s)
              /\ store' = [store EXCEPT ![s] = NoRec]
              /\ UNCHANGED mem
           \/ /\ s # None
              /\ Begin(r, k, "touched", s)
              /\ mem' = [mem EXCEPT ![x][s].used = now]
              /\ store' = [store EXCEPT ![s] = mem'[x][s]]
  BY DEF StartUse
<1>2. UNCHANGED <<minted, host_vars, trusted, now, stage, session, addr, wallet, carried,
                  adopting, tearDown, consented>>
  BY DEF StartUse
<1>k. k \in Kinds /\ k # "userDisconnect"
  BY DEF Kinds, ReadKinds, SignKinds
<1>3. /\ RequestType' /\ Others(r) /\ (rq'[r].host = "main" => Handed(x)')
      /\ rq'[r].kind = k
      /\ \/ rq'[r].pc = "done"
         \/ rq'[r].pc \in {"expiring", "touched"} /\ rq'[r].sid = s /\ s # None
  <2>1. CASE Answer(r, k, "unauthorized")
    BY <1>1, <1>2, <1>k, <2>1, Parts, Starts DEF Answer, Delivered, PCs, Results
  <2>2. CASE s # None /\ Begin(r, k, "expiring", s)
    BY <1>0, <1>1, <1>2, <1>k, <2>2, Parts, Begins DEF Delivered, PCs
  <2>3. CASE s # None /\ Begin(r, k, "touched", s)
    BY <1>0, <1>1, <1>2, <1>k, <2>3, Parts, Begins DEF Delivered, PCs
  <2> QED
    BY <1>1, <2>1, <2>2, <2>3
<1>4. RecordType' /\ ConsentedSessions' /\ Grows
  <2>1. CASE UNCHANGED <<store, mem>>
    BY <1>2, <2>1, Parts, RecordFrame DEF store_vars, Handed
  <2>2. CASE s # None /\ store' = [store EXCEPT ![s] = NoRec] /\ UNCHANGED mem
    BY <1>0, <1>2, <2>2, Parts, DeleteRecord
  <2>3. CASE /\ s # None
             /\ mem' = [mem EXCEPT ![x][s].used = now]
             /\ store' = [store EXCEPT ![s] = mem'[x][s]]
    BY <1>0, <1>2, <2>3, Parts, TouchKeeps DEF Touch
  <2> QED
    BY <1>1, <2>1, <2>2, <2>3
<1>5. TypeOK'
  BY <1>2, <1>3, <1>4, Parts DEF TypeOK, HandlerType, HostType, host_vars, pin_vars
<1>6. ReqOK(r)'
  <2>1. Own(x, s)'
    BY <1>0, <1>2, <1>4 DEF Grows, Own
  <2>2. rq'[r].sid = s => Own(x, rq[r].sid)'
    BY <2>1, <1>2 DEF Own
  <2> QED
    BY <1>0, <1>k, <1>3, <2>2 DEF ReqOK, InFlight, SidPCs, AcctPCs
<1>7. \A y \in Ports : PortOK(y)'
  BY <1>2, <1>4, Parts, PortFrame
<1>8. PinShape'
  BY <1>1, <1>2, <1>3, Parts, PinFrame DEF Delivered, host_vars, pin_vars
<1> QED
  BY <1>3, <1>4, <1>5, <1>6, <1>7, <1>8, StepIInv

-----------------------------------------------------------------------------
(* onConnect.                                                              *)

\* Binding an account: the request goes on with it, or waits behind its window's
\* PIN prompt.
LEMMA Binds ==
  ASSUME HandlerType, HostType, RequestType, PinShape, NEW r \in Reqs, NEW a \in Accounts,
         rq[r].pc # "pin", BindAccount(r, a)
  PROVE  /\ RequestType' /\ Others(r) /\ PinShape'
         /\ rq'[r].pc \in {"keyed", "pin"} /\ rq'[r].acct = a
         /\ rq'[r].kind = rq[r].kind /\ rq'[r].host = rq[r].host /\ rq'[r].sid = rq[r].sid
         /\ addr' \in [Ports -> Accounts \cup {None}]
         /\ chosen' \in [Windows -> Accounts \cup {None}]
         /\ pin' \in [Windows -> Reqs \cup {None}]
         /\ unlockAddr' \in BOOLEAN /\ verifying' = verifying
<1> DEFINE x == PortOf[r]
           w == ReqWin(r)
           pc == IF active[w] = a THEN "keyed" ELSE "pin"
           g == IF active[w] = a THEN a ELSE None
<1>1. x \in Ports /\ w \in Windows /\ pc \in {"keyed", "pin"} /\ g \in Accounts \cup {None}
  BY WiringAssumption DEF ReqWin, Windows
<1>2. rq' = [rq EXCEPT ![r].acct = a, ![r].pc = pc, ![r].signer = g]
  BY DEF BindAccount
<1>3. \/ pin' = pin /\ pc = "keyed"
      \/ pin' = [pin EXCEPT ![w] = r] /\ pc = "pin"
  <2>1. CASE active[w] = a
    BY <2>1 DEF BindAccount
  <2>2. CASE active[w] # a
    BY <2>2 DEF BindAccount
  <2> QED
    BY <2>1, <2>2
<1>4. /\ addr' \in [Ports -> Accounts \cup {None}]
      /\ chosen' \in [Windows -> Accounts \cup {None}]
      /\ unlockAddr' \in BOOLEAN /\ verifying' = verifying
  BY <1>1 DEF BindAccount, HandlerType, HostType
<1>5. w = IF rq[r].host = "popup" THEN x ELSE Main
  BY DEF ReqWin
<1> HIDE DEF pc, g, w
<1>6. [rq[r] EXCEPT !.acct = a, !.pc = pc, !.signer = g] \in ReqRec
  BY <1>1 DEF RequestType, ReqRec, PCs
<1>7. RequestType' /\ Others(r)
  BY <1>2, <1>6 DEF RequestType, Others
<1>8. rq'[r].pc = pc /\ rq'[r].acct = a
      /\ rq'[r].kind = rq[r].kind /\ rq'[r].host = rq[r].host /\ rq'[r].sid = rq[r].sid
  BY <1>2 DEF RequestType, ReqRec
<1>9. pin' \in [Windows -> Reqs \cup {None}]
  BY <1>1, <1>3 DEF HostType
<1>10. PinShape'
  <2>1. ASSUME NEW v \in Windows, pin[v] # None
        PROVE  pin[v] \in Reqs \ {r}
    BY <2>1 DEF PinShape, HostType
  <2>2. ASSUME NEW v \in Windows, pin'[v] # None
        PROVE  /\ rq'[pin'[v]].pc = "pin"
               /\ rq'[pin'[v]].host = (IF v = Main THEN "main" ELSE "popup")
               /\ v # Main => PortOf[pin'[v]] = v
    <3>1. CASE pin'[v] = pin[v]
      BY <1>7, <2>1, <2>2, <3>1 DEF Others, PinShape
    <3>2. CASE v = w /\ pin'[v] = r /\ pc = "pin"
      <4>1. rq[r].host \in Hosts
        BY DEF RequestType, ReqRec
      <4> QED
        BY <1>1, <1>5, <1>8, <3>2, <4>1, MainAssumption DEF Hosts
    <3> QED
      BY <1>1, <1>3, <3>1, <3>2 DEF HostType
  <2>3. ASSUME NEW v \in Ports, verifying'[v] # None
        PROVE  /\ rq'[verifying'[v]].pc = "pin"
               /\ rq'[verifying'[v]].host = "popup"
               /\ PortOf[verifying'[v]] = v
    BY <1>4, <1>7, <2>3 DEF Others, PinShape, HostType, Windows
  <2> QED
    BY <2>2, <2>3 DEF PinShape
<1> QED
  BY <1>1, <1>4, <1>7, <1>8, <1>9, <1>10

\* A reconnect binds the account of the record it restored.
LEMMA ReconnectIInv ==
  ASSUME IInv, NEW r \in Reqs, Reconnect(r) PROVE IInv'
<1> DEFINE x == PortOf[r]
           a == mem[x][rq[r].sid].addr
<1>1. rq[r].pc = "restored" /\ rq[r].sid # None /\ BindAccount(r, a)
  BY DEF Reconnect
<1>2. UNCHANGED <<store_vars, trusted, now, stage, session, mem, wallet, carried, adopting,
                  active, slot, tearDown, consented>>
  BY DEF Reconnect
<1>3. x \in Ports /\ a \in Accounts
  <2>1. x \in Ports /\ rq[r].sid \in Sids /\ Own(x, rq[r].sid)
    BY <1>1, Parts, WiringAssumption DEF ReqOK, InFlight, RequestType, ReqRec
  <2> QED
    BY <2>1, Parts, OwnRec DEF Rec
<1> HIDE DEF a
<1>4. RecordType' /\ ConsentedSessions' /\ Grows
  BY <1>2, Parts, RecordFrame DEF Handed
<1>5. TypeOK'
  BY <1>1, <1>2, <1>3, <1>4, Parts, Binds DEF TypeOK, HandlerType, HostType
<1>b. /\ rq'[r].pc \in {"keyed", "pin"} /\ rq'[r].acct = a
      /\ rq'[r].kind = rq[r].kind /\ rq'[r].host = rq[r].host /\ rq'[r].sid = rq[r].sid
  BY <1>1, <1>3, Parts, Binds
<1>r. Own(x, rq[r].sid) /\ Own(x, rq[r].sid)' /\ (Handed(x) => Handed(x)')
  BY <1>1, <1>2, <1>3, <1>4, <1>b, Parts
     DEF ReqOK, InFlight, Grows, Own
<1>6. ReqOK(r)'
  BY <1>1, <1>3, <1>4, <1>b, <1>r, Parts
     DEF ReqOK, InFlight, SidPCs, AcctPCs
<1>7. \A y \in Ports : PortOK(y)'
  BY <1>2, <1>4, Parts, PortFrame
<1>8. PinShape' /\ Others(r)
  BY <1>1, <1>3, Parts, Binds
<1> QED
  BY <1>4, <1>5, <1>6, <1>7, <1>8, StepIInv

\* A trusted site's connect records the consent with the account it binds.
LEMMA ConnectTrustedIInv ==
  ASSUME IInv, NEW r \in Reqs, ConnectTrusted(r) PROVE IInv'
<1> DEFINE x == PortOf[r]
<1>1. PICK a \in Accounts :
        /\ rq[r].pc = "restored"
        /\ BindAccount(r, a)
        /\ consented' = consented \cup {<<OriginOf[x], a>>}
  BY DEF ConnectTrusted
<1>2. UNCHANGED <<store_vars, trusted, now, stage, session, mem, wallet, carried, adopting,
                  active, slot, tearDown>>
  BY DEF ConnectTrusted
<1>3. x \in Ports /\ OriginOf[x] \in Origins
  BY WiringAssumption
<1>4. RecordType' /\ ConsentedSessions' /\ Grows
  BY <1>1, <1>2, Parts, RecordFrame DEF Handed
<1>5. TypeOK'
  BY <1>1, <1>2, <1>3, <1>4, Parts, Binds DEF TypeOK, HandlerType, HostType
<1>b. /\ rq'[r].pc \in {"keyed", "pin"} /\ rq'[r].acct = a
      /\ rq'[r].kind = rq[r].kind /\ rq'[r].host = rq[r].host /\ rq'[r].sid = rq[r].sid
  BY <1>1, <1>3, Parts, Binds
<1>r. Own(x, rq[r].sid) /\ Own(x, rq[r].sid)' /\ (Handed(x) => Handed(x)')
  BY <1>1, <1>2, <1>3, <1>4, <1>b, Parts
     DEF ReqOK, InFlight, Grows, Own
<1>6. ReqOK(r)'
  BY <1>1, <1>3, <1>4, <1>b, <1>r, Parts
     DEF ReqOK, InFlight, SidPCs, AcctPCs
<1>7. \A y \in Ports : PortOK(y)'
  BY <1>2, <1>4, Parts, PortFrame
<1>8. PinShape' /\ Others(r)
  BY <1>1, Parts, Binds
<1> QED
  BY <1>4, <1>5, <1>6, <1>7, <1>8, StepIInv

\* A connect that waits for the user holds no session.
LEMMA AskConnectIInv ==
  ASSUME IInv, NEW r \in Reqs, AskConnect(r) PROVE IInv'
<1>1. /\ rq[r].pc = "restored"
      /\ rq' = [rq EXCEPT ![r].pc = "approve"]
      /\ Ask(r)
  BY DEF AskConnect
<1>2. UNCHANGED <<store_vars, conn_vars, pin_vars, trusted, now, stage, carried, adopting,
                  active, chosen, tearDown, consented>>
  BY DEF AskConnect
<1>3. RequestType' /\ Goes(r, "approve")
  BY <1>1, Parts DEF RequestType, ReqRec, PCs, Goes, Others
<1>4. RecordType' /\ ConsentedSessions' /\ Grows
  BY <1>2, Parts, RecordFrame DEF conn_vars, Handed
<1>5. TypeOK'
  BY <1>1, <1>2, <1>3, <1>4, Parts, WiringAssumption
     DEF TypeOK, HandlerType, HostType, conn_vars, pin_vars, Ask
<1>k. rq[r].kind = "connect"
  BY <1>1, Parts DEF ReqOK
<1>6. ReqOK(r)'
  BY <1>1, <1>3, <1>4, <1>k, Parts, WiringAssumption
     DEF ReqOK, InFlight, SidPCs, AcctPCs, SignKinds, Goes, Grows, Own
<1>7. \A y \in Ports : PortOK(y)'
  BY <1>2, <1>4, Parts, PortFrame DEF conn_vars
<1>8. PinShape' /\ Others(r)
  BY <1>1, <1>2, <1>3, Parts, PinFrame DEF pin_vars, Goes
<1> QED
  BY <1>4, <1>5, <1>6, <1>7, <1>8, StepIInv

\* The consent of a prompt is for the account that is bound.
LEMMA ApproveConnectIInv ==
  ASSUME IInv, NEW r \in Reqs, ApproveConnect(r) PROVE IInv'
<1> DEFINE x == PortOf[r]
<1>1. PICK a \in Accounts :
        /\ BindAccount(r, a)
        /\ consented' = consented \cup {<<OriginOf[x], a>>}
  BY DEF ApproveConnect
<1>2. /\ UNCHANGED <<store_vars, now, stage, session, mem, wallet, carried, adopting,
                     active, tearDown>>
      /\ trusted' \in {trusted, trusted \cup {OriginOf[x]}}
      /\ rq[r].pc = "approve" /\ rq[r].kind = "connect" /\ TakeDown(r)
  BY DEF ApproveConnect, Prompted
<1>3. x \in Ports /\ OriginOf[x] \in Origins
  BY WiringAssumption
<1>4. RecordType' /\ ConsentedSessions' /\ Grows
  BY <1>1, <1>2, Parts, RecordFrame DEF Handed
<1>5. TypeOK'
  <2>1. HostType'
    BY <1>1, <1>2, <1>3, Parts, Binds DEF HostType, TakeDown
  <2> QED
    BY <1>1, <1>2, <1>4, <2>1, Parts, Binds DEF TypeOK, HandlerType
<1>b. /\ rq'[r].pc \in {"keyed", "pin"} /\ rq'[r].acct = a
      /\ rq'[r].kind = rq[r].kind /\ rq'[r].host = rq[r].host /\ rq'[r].sid = rq[r].sid
  BY <1>1, <1>2, Parts, Binds
<1>r. Own(x, rq[r].sid) /\ Own(x, rq[r].sid)' /\ (Handed(x) => Handed(x)')
  BY <1>1, <1>2, <1>3, <1>4, <1>b, Parts
     DEF ReqOK, InFlight, Grows, Own
<1>6. ReqOK(r)'
  BY <1>1, <1>2, <1>3, <1>4, <1>b, <1>r, Parts
     DEF ReqOK, InFlight, SidPCs, AcctPCs
<1>7. \A y \in Ports : PortOK(y)'
  BY <1>2, <1>4, Parts, PortFrame
<1>8. PinShape' /\ Others(r)
  BY <1>1, <1>2, Parts, Binds
<1> QED
  BY <1>4, <1>5, <1>6, <1>7, <1>8, StepIInv

\* A rejected request is done.
LEMMA RejectIInv ==
  ASSUME IInv, NEW r \in Reqs, Reject(r) PROVE IInv'
<1>1. rq[r].pc = "approve" /\ Finish(r, "rejected") /\ TakeDown(r)
  BY DEF Reject, Prompted
<1>2. UNCHANGED <<store_vars, conn_vars, pin_vars, trusted, now, stage, carried, adopting,
                  active, chosen, tearDown, consented>>
  BY DEF Reject
<1>4. RecordType' /\ ConsentedSessions' /\ Grows
  BY <1>2, Parts, RecordFrame DEF conn_vars, Handed
<1>3. RequestType' /\ Others(r) /\ ReqOK(r)'
  BY <1>1, <1>4, Ends DEF Results
<1>5. TypeOK'
  BY <1>1, <1>2, <1>3, <1>4, Parts, WiringAssumption
     DEF TypeOK, HandlerType, HostType, conn_vars, pin_vars, TakeDown
<1>7. \A y \in Ports : PortOK(y)'
  BY <1>2, <1>4, Parts, PortFrame DEF conn_vars
<1>8. PinShape'
  BY <1>1, <1>2, <1>3, Parts, PinFrame DEF pin_vars
<1> QED
  BY <1>3, <1>4, <1>5, <1>7, <1>8, StepIInv

\* A reconnect touches the session of its own origin.
LEMMA KeyedRestoredIInv ==
  ASSUME IInv, NEW r \in Reqs, KeyedRestored(r) PROVE IInv'
<1> DEFINE x == PortOf[r]
           s == rq[r].sid
<1>1. /\ rq[r].pc = "keyed" /\ s # None /\ Touch(x, s)
      /\ rq' = [rq EXCEPT ![r].pc = "bound"]
      /\ wallet' = [wallet EXCEPT ![x] = IF rq[r].signer # None THEN rq[r].signer
                                         ELSE active[ReqWin(r)]]
  BY DEF KeyedRestored
<1>2. UNCHANGED <<minted, host_vars, trusted, now, stage, session, addr, carried, adopting,
                  tearDown, consented>>
  BY DEF KeyedRestored
<1>3. RequestType' /\ Goes(r, "bound")
  BY <1>1, Parts DEF RequestType, ReqRec, PCs, Goes, Others
<1>s. x \in Ports /\ s \in Sids /\ Own(x, s)
  BY <1>1, Parts, WiringAssumption DEF ReqOK, InFlight, RequestType, ReqRec
<1>4. RecordType' /\ ConsentedSessions' /\ Grows
  BY <1>1, <1>2, <1>s, Parts, TouchKeeps
<1>5. TypeOK'
  <2>1. ReqWin(r) \in Windows
    BY <1>s DEF ReqWin, Windows
  <2>2. rq[r].signer \in Accounts \cup {None}
    BY Parts DEF RequestType, ReqRec
  <2>3. HandlerType'
    BY <1>1, <1>2, <2>1, <2>2, Parts DEF HandlerType, HostType
  <2> QED
    BY <1>2, <1>3, <1>4, <2>3, Parts DEF TypeOK, HostType, host_vars, pin_vars
<1>6. ReqOK(r)'
  BY <1>1, <1>3, <1>4, <1>s, Parts
     DEF ReqOK, InFlight, SidPCs, AcctPCs, SignKinds, Goes, Grows, Own
<1>7. \A y \in Ports : PortOK(y)'
  BY <1>2, <1>4, Parts, PortFrame
<1>8. PinShape' /\ Others(r)
  BY <1>1, <1>2, <1>3, Parts, PinFrame DEF host_vars, pin_vars, Goes
<1> QED
  BY <1>4, <1>5, <1>6, <1>7, <1>8, StepIInv

\* A connect keeps its account on its way to createSession.
LEMMA KeyedFreshIInv ==
  ASSUME IInv, NEW r \in Reqs, KeyedFresh(r) PROVE IInv'
<1> DEFINE x == PortOf[r]
<1>1. /\ rq[r].pc = "keyed" /\ rq[r].sid = None
      /\ \/ Finish(r, "rejected") /\ wallet' = wallet
         \/ /\ rq' = [rq EXCEPT ![r].pc = "chain"]
            /\ wallet' = [wallet EXCEPT ![x] = rq[r].signer]
  BY DEF KeyedFresh
<1>2. UNCHANGED <<store_vars, host_vars, trusted, now, stage, session, mem, addr, carried,
                  adopting, tearDown, consented>>
  BY DEF KeyedFresh
<1>4. RecordType' /\ ConsentedSessions' /\ Grows
  BY <1>2, Parts, RecordFrame DEF Handed
<1>3. RequestType' /\ Others(r) /\ ReqOK(r)'
  <2>1. CASE Finish(r, "rejected")
    BY <1>1, <1>4, <2>1, Ends DEF Results
  <2>2. CASE rq' = [rq EXCEPT ![r].pc = "chain"]
    <3>1. RequestType' /\ Goes(r, "chain") /\ rq'[r].acct = rq[r].acct
      BY <2>2, Parts DEF RequestType, ReqRec, PCs, Goes, Others
    <3>2. ReqOK(r)'
      BY <1>1, <1>2, <1>4, <3>1, Parts, WiringAssumption
         DEF ReqOK, InFlight, SidPCs, AcctPCs, Goes, Grows, Own
    <3> QED
      BY <3>1, <3>2 DEF Goes
  <2> QED
    BY <1>1, <2>1, <2>2
<1>5. TypeOK'
  <2>1. rq[r].signer \in Accounts \cup {None}
    BY Parts DEF RequestType, ReqRec
  <2>2. HandlerType'
    BY <1>1, <1>2, <2>1, Parts DEF HandlerType
  <2> QED
    BY <1>2, <1>3, <1>4, <2>2, Parts DEF TypeOK, HostType, host_vars, pin_vars
<1>7. \A y \in Ports : PortOK(y)'
  BY <1>2, <1>4, Parts, PortFrame
<1>8. PinShape'
  BY <1>1, <1>2, <1>3, Parts, PinFrame DEF host_vars, pin_vars
<1> QED
  BY <1>3, <1>4, <1>5, <1>7, <1>8, StepIInv

\* createSession binds the port's origin to the consented account.
LEMMA CreateSessionIInv ==
  ASSUME IInv, NEW r \in Reqs, CreateSession(r) PROVE IInv'
<1> DEFINE x == PortOf[r]
           s == minted + 1
           rec == [origin |-> OriginOf[x], addr |-> rq[r].acct, granted |-> {},
                   used |-> now, abs |-> now + AbsTTL]
<1>1. /\ rq[r].pc = "chain" /\ minted < MaxSid /\ minted' = s
      /\ store' = [store EXCEPT ![s] = rec]
      /\ mem' = [mem EXCEPT ![x][s] = rec]
      /\ rq' = [rq EXCEPT ![r].pc = "created", ![r].sid = s]
  BY DEF CreateSession
<1>2. UNCHANGED <<host_vars, trusted, now, stage, session, addr, wallet, carried,
                  adopting, tearDown, consented>>
  BY DEF CreateSession
<1>x. x \in Ports /\ OriginOf[x] \in Origins
  BY WiringAssumption
<1>s. s \in Sids /\ s \in 0..MaxSid
  BY <1>1, Parts, BoundAssumption DEF RecordType, Sids
<1>a. rq[r].acct \in Accounts /\ <<OriginOf[x], rq[r].acct>> \in consented
  BY <1>1, Parts DEF ReqOK, AcctPCs
<1>c. /\ rec \in Rec /\ rec.origin = OriginOf[x]
      /\ <<rec.origin, rec.addr>> \in consented
  BY <1>x, <1>a, Parts, BoundAssumption DEF Rec, RecordType, Deadlines
<1> HIDE DEF s, rec
<1>m. /\ \A y \in Ports, t \in Sids : mem'[y][t] = IF y = x /\ t = s THEN rec ELSE mem[y][t]
      /\ \A t \in Sids : store'[t] = IF t = s THEN rec ELSE store[t]
  BY <1>1, <1>x, <1>s, Parts DEF RecordType
<1>3. /\ RequestType' /\ Others(r)
      /\ rq'[r].pc = "created" /\ rq'[r].sid = s
      /\ rq'[r].kind = rq[r].kind /\ rq'[r].host = rq[r].host
  <2>1. rq \in [Reqs -> ReqRec] /\ rq' = [rq EXCEPT ![r].pc = "created", ![r].sid = s]
    BY <1>1, Parts DEF RequestType
  <2>2. [rq[r] EXCEPT !.pc = "created", !.sid = s] \in ReqRec
    BY <2>1, <1>s, ZenonT(30) DEF ReqRec, PCs
  <2>3. RequestType' /\ Others(r)
    BY <2>1, <2>2 DEF RequestType, Others
  <2> QED
    BY <2>1, <2>3 DEF ReqRec
<1>4. RecordType' /\ ConsentedSessions' /\ Grows
  <2>1. RecordType'
    BY <1>1, <1>2, <1>s, <1>c, Parts DEF RecordType
  <2>2. ConsentedSessions'
    BY <1>2, <1>c, <1>m, Parts DEF ConsentedSessions, Copies
  <2>3. Grows
    BY <1>2, <1>c, <1>m DEF Grows, Own, Handed
  <2> QED
    BY <2>1, <2>2, <2>3
<1>5. TypeOK'
  BY <1>2, <1>3, <1>4, Parts DEF TypeOK, HandlerType, HostType, host_vars, pin_vars
<1>6. ReqOK(r)'
  <2>1. mem'[x][s].origin = OriginOf[x]
    BY <1>c, <1>m, <1>x, <1>s
  <2>2. Own(x, rq[r].sid)'
    BY <2>1, <1>3 DEF Own
  <2> QED
    BY <1>1, <1>2, <1>3, <1>4, <1>s, <1>x, <2>2, Parts
       DEF ReqOK, InFlight, SidPCs, AcctPCs, SignKinds, Grows
<1>7. \A y \in Ports : PortOK(y)'
  BY <1>2, <1>4, Parts, PortFrame
<1>8. PinShape'
  BY <1>1, <1>2, <1>3, Parts, PinFrame DEF host_vars, pin_vars
<1> QED
  BY <1>3, <1>4, <1>5, <1>6, <1>7, <1>8, StepIInv

\* onConnect touches the session it has created.
LEMMA TouchCreatedIInv ==
  ASSUME IInv, NEW r \in Reqs, TouchCreated(r) PROVE IInv'
<1> DEFINE x == PortOf[r]
           s == rq[r].sid
<1>1. /\ rq[r].pc = "created" /\ Touch(x, s)
      /\ rq' = [rq EXCEPT ![r].pc = "bound"]
  BY DEF TouchCreated
<1>2. UNCHANGED <<minted, host_vars, trusted, now, stage, session, addr, wallet, carried,
                  adopting, tearDown, consented>>
  BY DEF TouchCreated
<1>3. RequestType' /\ Goes(r, "bound")
  BY <1>1, Parts DEF RequestType, ReqRec, PCs, Goes, Others
<1>s. x \in Ports /\ s \in Sids /\ Own(x, s)
  BY <1>1, Parts, WiringAssumption DEF ReqOK, InFlight, SidPCs
<1>4. RecordType' /\ ConsentedSessions' /\ Grows
  BY <1>1, <1>2, <1>s, Parts, TouchKeeps
<1>5. TypeOK'
  BY <1>2, <1>3, <1>4, Parts DEF TypeOK, HandlerType, HostType, host_vars, pin_vars
<1>6. ReqOK(r)'
  BY <1>1, <1>3, <1>4, <1>s, Parts
     DEF ReqOK, InFlight, SidPCs, AcctPCs, SignKinds, Goes, Grows, Own
<1>7. \A y \in Ports : PortOK(y)'
  BY <1>2, <1>4, Parts, PortFrame
<1>8. PinShape' /\ Others(r)
  BY <1>1, <1>2, <1>3, Parts, PinFrame DEF host_vars, pin_vars, Goes
<1> QED
  BY <1>4, <1>5, <1>6, <1>7, <1>8, StepIInv

\* setSession and this.session = ...: the session the request works under is
\* its own port's, so the port holds a copy of its own origin.
LEMMA Resumes ==
  ASSUME IInv, NEW r \in Reqs, rq[r].pc \in SidPCs, rq[r].pc # "ending", Resume(r),
         UNCHANGED <<stage, adopting>>, Grows
  PROVE  /\ session' \in [Ports -> Sids \cup {None}]
         /\ \A y \in Ports : PortOK(y)'
<1> DEFINE x == PortOf[r]
           s == rq[r].sid
<1>1. x \in Ports /\ s \in Sids /\ Own(x, s)
  BY Parts, WiringAssumption DEF ReqOK, InFlight, SidPCs
<1>2. session' = [session EXCEPT ![x] = s]
  BY DEF Resume
<1>3. mem'[x][s].origin = OriginOf[x]
  BY <1>1 DEF Grows, Own
<1> HIDE DEF x, s
<1>4. session' \in [Ports -> Sids \cup {None}]
  BY <1>1, <1>2, Parts DEF HandlerType
<1>5. ASSUME NEW y \in Ports PROVE PortOK(y)'
  <2>1. CASE y = x
    <3>0. session'[y] = s
      BY <1>1, <1>2, <2>1, Parts DEF HandlerType
    <3>1. Own(y, session[y])'
      BY <1>3, <2>1, <3>0 DEF Own
    <3>2. Own(y, adopting[y])'
      BY Parts DEF PortOK, Grows, Own
    <3> QED
      BY <3>1, <3>2, Parts DEF PortOK, Grows, Handed
  <2>2. CASE y # x
    BY <1>2, <2>2, Parts, PortFrame DEF HandlerType
  <2> QED
    BY <2>1, <2>2
<1> QED
  BY <1>4, <1>5

\* The session the port now holds is the one the connect worked under.
LEMMA SetSessionIInv ==
  ASSUME IInv, NEW r \in Reqs, SetSession(r) PROVE IInv'
<1> DEFINE x == PortOf[r]
           a == IF currentAccount(x) # None THEN currentAccount(x)
                ELSE mem[x][rq[r].sid].addr
<1>1. /\ rq[r].pc = "bound" /\ Resume(r)
      /\ rq' = [rq EXCEPT ![r].pc = "reply", ![r].acct = a]
  BY DEF SetSession, Resume
<1>2. UNCHANGED <<store_vars, host_vars, trusted, now, stage, mem, addr, wallet, carried,
                  adopting, tearDown, consented>>
  BY DEF SetSession
<1>s. x \in Ports /\ rq[r].sid \in Sids /\ Own(x, rq[r].sid)
  BY <1>1, Parts, WiringAssumption DEF ReqOK, InFlight, SidPCs
<1>a. a \in Accounts \cup {None}
  <2>1. mem[x][rq[r].sid].addr \in Accounts
    BY <1>s, Parts, OwnRec DEF Rec
  <2>2. Win(x) \in Windows
    BY <1>s DEF Win, Windows
  <2>3. currentAccount(x) \in Accounts \cup {None}
    BY <1>s, <2>2, Parts DEF currentAccount, HandlerType, HostType
  <2> QED
    BY <2>1, <2>3
<1> HIDE DEF a
<1>3. RequestType' /\ Goes(r, "reply")
  <2>1. [rq[r] EXCEPT !.pc = "reply", !.acct = a] \in ReqRec
    BY <1>a, Parts DEF RequestType, ReqRec, PCs
  <2>2. RequestType'
    BY <1>1, <2>1, Parts DEF RequestType
  <2>3. Goes(r, "reply")
    BY <1>1, Parts DEF RequestType, ReqRec, Goes, Others
  <2> QED
    BY <2>2, <2>3
<1>4. RecordType' /\ ConsentedSessions' /\ Grows
  BY <1>2, Parts, RecordFrame DEF Handed
<1>7. session' \in [Ports -> Sids \cup {None}] /\ \A y \in Ports : PortOK(y)'
  BY <1>1, <1>2, <1>4, Resumes DEF SidPCs
<1>5. TypeOK'
  BY <1>2, <1>3, <1>4, <1>7, Parts DEF TypeOK, HandlerType, HostType, host_vars, pin_vars
<1>6. ReqOK(r)'
  BY <1>1, <1>3, <1>4, <1>s, Parts
     DEF ReqOK, InFlight, SidPCs, AcctPCs, SignKinds, Goes, Grows, Own
<1>8. PinShape' /\ Others(r)
  BY <1>1, <1>2, <1>3, Parts, PinFrame DEF host_vars, pin_vars, Goes
<1> QED
  BY <1>4, <1>5, <1>6, <1>7, <1>8, StepIInv

\* An answered connect is done.
LEMMA ReplyConnectIInv ==
  ASSUME IInv, NEW r \in Reqs, ReplyConnect(r) PROVE IInv'
<1>1. rq[r].pc = "reply" /\ (Finish(r, "internal") \/ Finish(r, "ok"))
  BY DEF ReplyConnect
<1>2. UNCHANGED <<store_vars, host_vars, conn_vars, trusted, now, stage, carried, adopting,
                  tearDown, consented>>
  BY DEF ReplyConnect
<1>4. RecordType' /\ ConsentedSessions' /\ Grows
  BY <1>2, Parts, RecordFrame DEF conn_vars, Handed
<1>3. RequestType' /\ Others(r) /\ ReqOK(r)'
  BY <1>1, <1>4, Ends DEF Results
<1>5. TypeOK'
  BY <1>2, <1>3, <1>4, Parts
     DEF TypeOK, HandlerType, HostType, conn_vars, host_vars, pin_vars
<1>7. \A y \in Ports : PortOK(y)'
  BY <1>2, <1>4, Parts, PortFrame DEF conn_vars
<1>8. PinShape'
  BY <1>1, <1>2, <1>3, Parts, PinFrame DEF host_vars, pin_vars
<1> QED
  BY <1>3, <1>4, <1>5, <1>7, <1>8, StepIInv

-----------------------------------------------------------------------------
(* onDisconnect, onRead and onSign.                                        *)

\* The port lets go of its session, or keeps it.
LEMMA EndSessionIInv ==
  ASSUME IInv, NEW r \in Reqs, EndSession(r) PROVE IInv'
<1> DEFINE x == PortOf[r]
<1>1. /\ rq[r].pc = "ending" /\ Finish(r, "ok")
      /\ \/ UNCHANGED <<session, addr, wallet>>
         \/ /\ session' = [session EXCEPT ![x] = None]
            /\ addr' = [addr EXCEPT ![x] = None]
            /\ wallet' = [wallet EXCEPT ![x] = None]
  BY DEF EndSession
<1>2. UNCHANGED <<store_vars, host_vars, mem, trusted, now, stage, carried, adopting,
                  tearDown, consented>>
  BY DEF EndSession
<1>4. RecordType' /\ ConsentedSessions' /\ Grows
  BY <1>2, Parts, RecordFrame DEF Handed
<1>3. RequestType' /\ Others(r) /\ ReqOK(r)'
  BY <1>1, <1>4, Ends DEF Results
<1>5. TypeOK'
  BY <1>1, <1>2, <1>3, <1>4, Parts DEF TypeOK, HandlerType, HostType, host_vars, pin_vars
<1>6. \A y \in Ports : session'[y] \in {session[y], None}
  BY <1>1, Parts DEF HandlerType
<1>7. \A y \in Ports : PortOK(y)'
  BY <1>2, <1>4, <1>6, Parts, PortFrame
<1>8. PinShape'
  BY <1>1, <1>2, <1>3, Parts, PinFrame DEF host_vars, pin_vars
<1> QED
  BY <1>3, <1>4, <1>5, <1>7, <1>8, StepIInv

\* The port lets go of the expired session.
LEMMA ExpireSessionIInv ==
  ASSUME IInv, NEW r \in Reqs, ExpireSession(r) PROVE IInv'
<1>1. /\ rq[r].pc = "expiring" /\ Finish(r, "expired")
      /\ session' = [session EXCEPT ![PortOf[r]] = None]
  BY DEF ExpireSession
<1>2. UNCHANGED <<store_vars, host_vars, mem, addr, wallet, trusted, now, stage, carried,
                  adopting, tearDown, consented>>
  BY DEF ExpireSession
<1>4. RecordType' /\ ConsentedSessions' /\ Grows
  BY <1>2, Parts, RecordFrame DEF Handed
<1>3. RequestType' /\ Others(r) /\ ReqOK(r)'
  BY <1>1, <1>4, Ends DEF Results
<1>5. TypeOK'
  BY <1>1, <1>2, <1>3, <1>4, Parts DEF TypeOK, HandlerType, HostType, host_vars, pin_vars
<1>6. \A y \in Ports : session'[y] \in {session[y], None}
  BY <1>1, Parts DEF HandlerType
<1>7. \A y \in Ports : PortOK(y)'
  BY <1>2, <1>4, <1>6, Parts, PortFrame
<1>8. PinShape'
  BY <1>1, <1>2, <1>3, Parts, PinFrame DEF host_vars, pin_vars
<1> QED
  BY <1>3, <1>4, <1>5, <1>7, <1>8, StepIInv

\* The accounts the handler and the host name are accounts, or nobody's.
LEMMA AccountTypes ==
  ASSUME HandlerType, HostType, RequestType, NEW r \in Reqs
  PROVE  /\ currentAccount(PortOf[r]) \in Accounts \cup {None}
         /\ currentWallet(PortOf[r]) \in Accounts \cup {None}
         /\ hostAccount(ReqWin(r)) \in Accounts \cup {None}
<1>1. PortOf[r] \in Ports /\ Win(PortOf[r]) \in Windows /\ ReqWin(r) \in Windows
  BY WiringAssumption DEF Win, ReqWin, Windows
<1> QED
  BY <1>1 DEF currentAccount, currentWallet, hostAccount, HandlerType, HostType

\* A read leaves the port with the session it touched.
LEMMA ReadIInv ==
  ASSUME IInv, NEW r \in Reqs, Read(r) PROVE IInv'
<1> DEFINE a == IF rq[r].kind = "readAddr" THEN currentAccount(PortOf[r])
                ELSE hostAccount(ReqWin(r))
           res == IF Owns(r) THEN "ok" ELSE "dropped"
<1>1. /\ rq[r].pc = "touched" /\ Resume(r)
      /\ rq' = [rq EXCEPT ![r].pc = "done", ![r].result = res, ![r].acct = a]
  BY DEF Read
<1>2. UNCHANGED <<store_vars, host_vars, mem, addr, wallet, trusted, now, stage, carried,
                  adopting, tearDown, consented>>
  BY DEF Read
<1>a. a \in Accounts \cup {None} /\ res \in Results
  BY Parts, AccountTypes DEF Results
<1> HIDE DEF a, res
<1>3. RequestType' /\ Goes(r, "done")
  <2>1. [rq[r] EXCEPT !.pc = "done", !.result = res, !.acct = a] \in ReqRec
    BY <1>a, Parts DEF RequestType, ReqRec, PCs
  <2>2. RequestType'
    BY <1>1, <2>1, Parts DEF RequestType
  <2>3. Goes(r, "done")
    BY <1>1, Parts DEF RequestType, ReqRec, Goes, Others
  <2> QED
    BY <2>2, <2>3
<1>4. RecordType' /\ ConsentedSessions' /\ Grows
  BY <1>2, Parts, RecordFrame DEF Handed
<1>7. session' \in [Ports -> Sids \cup {None}] /\ \A y \in Ports : PortOK(y)'
  BY <1>1, <1>2, <1>4, Resumes DEF SidPCs
<1>5. TypeOK'
  BY <1>2, <1>3, <1>4, <1>7, Parts DEF TypeOK, HandlerType, HostType, host_vars, pin_vars
<1>6. ReqOK(r)'
  BY <1>3, <1>4, Parts, DoneOK DEF Goes
<1>8. PinShape' /\ Others(r)
  BY <1>1, <1>2, <1>3, Parts, PinFrame DEF host_vars, pin_vars, Goes
<1> QED
  BY <1>4, <1>5, <1>6, <1>7, <1>8, StepIInv

\* A signature keeps its session over the prompt and the nonce.
LEMMA SignIInv ==
  ASSUME IInv, NEW r \in Reqs, Sign(r) PROVE IInv'
<1> DEFINE g == currentWallet(PortOf[r])
           ask == rq[r].kind = "signMsg"
           pc == IF ask THEN "approve" ELSE "nonce"
           n == IF ask THEN None ELSE hostAccount(ReqWin(r))
<1>1. /\ rq[r].pc = "touched" /\ rq[r].kind \in SignKinds /\ Resume(r)
      /\ \/ \E res \in {"locked", "unauthorized", "internal"} : Finish(r, res)
         \/ rq' = [rq EXCEPT ![r].pc = pc, ![r].signer = g, ![r].nonceOf = n]
      /\ slot' = slot \/ Ask(r)
  BY DEF Sign
<1>2. UNCHANGED <<store_vars, mem, addr, wallet, active, chosen, pin_vars, trusted, now,
                  stage, carried, adopting, tearDown, consented>>
  BY DEF Sign
<1>a. g \in Accounts \cup {None} /\ n \in Accounts \cup {None} /\ pc \in {"approve", "nonce"}
  BY Parts, AccountTypes
<1> HIDE DEF g, n, pc
<1>4. RecordType' /\ ConsentedSessions' /\ Grows
  BY <1>2, Parts, RecordFrame DEF Handed
<1>7. session' \in [Ports -> Sids \cup {None}] /\ \A y \in Ports : PortOK(y)'
  BY <1>1, <1>2, <1>4, Resumes DEF SidPCs
<1>3. RequestType' /\ Others(r) /\ ReqOK(r)'
  <2>1. CASE \E res \in {"locked", "unauthorized", "internal"} : Finish(r, res)
    BY <1>4, <2>1, Ends DEF Results
  <2>2. CASE rq' = [rq EXCEPT ![r].pc = pc, ![r].signer = g, ![r].nonceOf = n]
    <3>1. [rq[r] EXCEPT !.pc = pc, !.signer = g, !.nonceOf = n] \in ReqRec
      <4>1. rq[r] \in ReqRec
        BY Parts DEF RequestType
      <4> QED
        BY <1>a, <4>1, ZenonT(30) DEF ReqRec, PCs
    <3>2. RequestType'
      BY <2>2, <3>1, Parts DEF RequestType
    <3>3. Goes(r, pc)
      BY <2>2, Parts DEF RequestType, ReqRec, Goes, Others
    <3>4. PortOf[r] \in Ports /\ rq[r].sid \in Sids
      BY <1>1, Parts, WiringAssumption DEF ReqOK, SidPCs
    <3>5. ReqOK(r)'
      BY <1>1, <1>4, <1>a, <3>3, <3>4, Parts
         DEF ReqOK, InFlight, SidPCs, AcctPCs, Goes, Grows, Own
    <3> QED
      BY <3>2, <3>3, <3>5 DEF Goes
  <2> QED
    BY <1>1, <2>1, <2>2
<1>5. TypeOK'
  <2>1. slot' \in [Ports -> Reqs \cup {None}]
    BY <1>1, Parts, WiringAssumption DEF Ask, HostType
  <2> QED
    BY <1>2, <1>3, <1>4, <1>7, <2>1, Parts DEF TypeOK, HandlerType, HostType, pin_vars
<1>8. PinShape'
  BY <1>1, <1>2, <1>3, Parts, PinFrame DEF pin_vars
<1> QED
  BY <1>3, <1>4, <1>5, <1>7, <1>8, StepIInv

\* The prompt of a transaction keeps its session.
LEMMA NonceArrivedIInv ==
  ASSUME IInv, NEW r \in Reqs, NonceArrived(r) PROVE IInv'
<1>1. /\ rq[r].pc = "nonce"
      /\ \/ rq' = [rq EXCEPT ![r].pc = "approve"] /\ Ask(r)
         \/ Finish(r, "internal") /\ slot' = slot
  BY DEF NonceArrived
<1>2. UNCHANGED <<store_vars, conn_vars, pin_vars, active, chosen, trusted, now, stage,
                  carried, adopting, tearDown, consented>>
  BY DEF NonceArrived
<1>4. RecordType' /\ ConsentedSessions' /\ Grows
  BY <1>2, Parts, RecordFrame DEF conn_vars, Handed
<1>3. RequestType' /\ Others(r) /\ ReqOK(r)'
  <2>1. CASE Finish(r, "internal")
    BY <1>4, <2>1, Ends DEF Results
  <2>2. CASE rq' = [rq EXCEPT ![r].pc = "approve"]
    <3>1. RequestType' /\ Goes(r, "approve")
      BY <2>2, Parts DEF RequestType, ReqRec, PCs, Goes, Others
    <3>2. PortOf[r] \in Ports /\ rq[r].sid \in Sids
      BY <1>1, Parts, WiringAssumption DEF ReqOK, SidPCs
    <3>3. ReqOK(r)'
      BY <1>1, <1>4, <3>1, <3>2, Parts
         DEF ReqOK, InFlight, SidPCs, AcctPCs, Goes, Grows, Own
    <3> QED
      BY <3>1, <3>3 DEF Goes
  <2> QED
    BY <1>1, <2>1, <2>2
<1>5. TypeOK'
  <2>1. slot' \in [Ports -> Reqs \cup {None}]
    BY <1>1, Parts, WiringAssumption DEF Ask, HostType
  <2> QED
    BY <1>2, <1>3, <1>4, <2>1, Parts DEF TypeOK, HandlerType, HostType, conn_vars, pin_vars
<1>7. \A y \in Ports : PortOK(y)'
  BY <1>2, <1>4, Parts, PortFrame DEF conn_vars
<1>8. PinShape'
  BY <1>1, <1>2, <1>3, Parts, PinFrame DEF pin_vars
<1> QED
  BY <1>3, <1>4, <1>5, <1>7, <1>8, StepIInv

\* grantPermission rewrites the session of the port's own origin.
LEMMA ApproveSignIInv ==
  ASSUME IInv, NEW r \in Reqs, ApproveSign(r) PROVE IInv'
<1> DEFINE x == PortOf[r]
           s == rq[r].sid
           v == [mem[x][s] EXCEPT !.granted = @ \cup {rq[r].kind}]
<1>1. /\ rq[r].pc = "approve" /\ rq[r].kind \in SignKinds /\ TakeDown(r)
      /\ mem' = [mem EXCEPT ![x][s].granted = @ \cup {rq[r].kind}]
      /\ store' = store \/ store' = [store EXCEPT ![s] = mem'[x][s]]
      /\ rq' = [rq EXCEPT ![r].pc = "granted"]
  BY DEF ApproveSign, Prompted
<1>2. UNCHANGED <<minted, session, addr, wallet, active, chosen, pin_vars, trusted, now,
                  stage, carried, adopting, tearDown, consented>>
  BY DEF ApproveSign
<1>s. x \in Ports /\ s \in Sids /\ Own(x, s)
  BY <1>1, Parts, WiringAssumption DEF ReqOK, InFlight, SignKinds
<1>k. rq[r].kind # "userDisconnect"
  BY <1>1 DEF SignKinds
<1>v. /\ v \in Rec /\ v.origin = mem[x][s].origin /\ v.addr = mem[x][s].addr
      /\ mem' = [mem EXCEPT ![x][s] = v]
      /\ mem'[x][s] = v
  <2>1. mem[x][s] \in Rec
    BY <1>s, Parts, OwnRec
  <2> QED
    BY <1>1, <1>s, <2>1, Parts DEF Rec, RecordType
<1>3. RequestType' /\ Goes(r, "granted")
  BY <1>1, Parts DEF RequestType, ReqRec, PCs, Goes, Others
<1>4. RecordType' /\ ConsentedSessions' /\ Grows
  <2>1. store' = store \/ store' = [store EXCEPT ![s] = v]
    BY <1>1, <1>v
  <2>2. UNCHANGED <<minted, now, consented, stage>>
    BY <1>2
  <2> HIDE DEF v, x, s
  <2> QED
    BY <1>s, <1>v, <2>1, <2>2, Parts, Rewrite
<1>5. TypeOK'
  <2>1. slot' \in [Ports -> Reqs \cup {None}]
    BY <1>1, Parts DEF TakeDown, HostType
  <2> QED
    BY <1>2, <1>3, <1>4, <2>1, Parts DEF TypeOK, HandlerType, HostType, pin_vars
<1>6. ReqOK(r)'
  <2>1. Own(PortOf[r], rq[r].sid)'
    BY <1>3, <1>4, <1>s DEF Goes, Grows, Own
  <2>2. rq'[r].host = "main" => Handed(PortOf[r])'
    BY <1>3, <1>4, <1>s, Parts DEF Goes, Grows, ReqOK
  <2>3. rq'[r].pc = "granted" /\ rq'[r].sid \in Sids /\ rq'[r].kind # "userDisconnect"
    BY <1>3, <1>s, <1>k DEF Goes
  <2> QED
    BY <2>1, <2>2, <2>3 DEF ReqOK, InFlight, AcctPCs, Own
<1>7. \A y \in Ports : PortOK(y)'
  BY <1>2, <1>4, Parts, PortFrame
<1>8. PinShape' /\ Others(r)
  BY <1>1, <1>2, <1>3, Parts, PinFrame DEF pin_vars, Goes
<1> QED
  BY <1>4, <1>5, <1>6, <1>7, <1>8, StepIInv

\* A signature leaves the port with the session it was granted under.
LEMMA ReplySignedIInv ==
  ASSUME IInv, NEW r \in Reqs, ReplySigned(r) PROVE IInv'
<1>1. rq[r].pc = "granted" /\ Resume(r) /\ Finish(r, "ok")
  BY DEF ReplySigned
<1>2. UNCHANGED <<store_vars, host_vars, mem, addr, wallet, trusted, now, stage, carried,
                  adopting, tearDown, consented>>
  BY DEF ReplySigned
<1>4. RecordType' /\ ConsentedSessions' /\ Grows
  BY <1>2, Parts, RecordFrame DEF Handed
<1>7. session' \in [Ports -> Sids \cup {None}] /\ \A y \in Ports : PortOK(y)'
  BY <1>1, <1>2, <1>4, Resumes DEF SidPCs
<1>3. RequestType' /\ Others(r) /\ ReqOK(r)'
  BY <1>1, <1>4, Ends DEF Results
<1>5. TypeOK'
  BY <1>2, <1>3, <1>4, <1>7, Parts DEF TypeOK, HandlerType, HostType, host_vars, pin_vars
<1>8. PinShape'
  BY <1>1, <1>2, <1>3, Parts, PinFrame DEF host_vars, pin_vars
<1> QED
  BY <1>3, <1>4, <1>5, <1>7, <1>8, StepIInv

-----------------------------------------------------------------------------
(* The PIN prompt.                                                         *)

\* The request whose prompt is answered goes on; no other prompt, and no other
\* PIN being checked, is that request's.
LEMMA Unlocks ==
  ASSUME IInv, NEW w \in Windows, NEW r \in Reqs, NEW g \in Accounts \cup {None},
         rq[r].pc = "pin", rq[r].host = (IF w = Main THEN "main" ELSE "popup"),
         w # Main => PortOf[r] = w,
         rq' = [rq EXCEPT ![r].pc = "keyed", ![r].signer = g],
         pin' = [pin EXCEPT ![w] = None],
         verifying' = [verifying EXCEPT ![w] = None],
         unlockAddr' \in BOOLEAN,
         UNCHANGED <<store_vars, conn_vars, trusted, now, stage, carried, adopting, active,
                     chosen, slot, tearDown, consented>>
  PROVE  IInv'
<1>3. RequestType' /\ Goes(r, "keyed") /\ rq'[r].acct = rq[r].acct
  <2>1. [rq[r] EXCEPT !.pc = "keyed", !.signer = g] \in ReqRec
    BY Parts DEF RequestType, ReqRec, PCs
  <2>2. RequestType'
    BY <2>1, Parts DEF RequestType
  <2>3. Goes(r, "keyed") /\ rq'[r].acct = rq[r].acct
    BY Parts DEF RequestType, ReqRec, Goes, Others
  <2> QED
    BY <2>2, <2>3
<1>4. RecordType' /\ ConsentedSessions' /\ Grows
  BY Parts, RecordFrame DEF conn_vars, Handed
<1>5. TypeOK'
  BY <1>3, <1>4, Parts DEF TypeOK, HandlerType, HostType, conn_vars
<1>6. ReqOK(r)'
  <2>1. PortOf[r] \in Ports /\ InFlight(r) /\ rq[r].kind # "userDisconnect"
    BY Parts, WiringAssumption DEF ReqOK, InFlight
  <2>2. Own(PortOf[r], rq[r].sid)'
    BY <1>3, <1>4, <2>1, Parts DEF ReqOK, Goes, Grows, Own
  <2>3. rq'[r].host = "main" => Handed(PortOf[r])'
    BY <1>3, <1>4, <2>1, Parts DEF ReqOK, Goes, Grows
  <2>4. /\ rq'[r].acct \in Accounts
        /\ rq'[r].sid = None => <<OriginOf[PortOf[r]], rq'[r].acct>> \in consented'
    BY <1>3, <1>4, Parts DEF ReqOK, AcctPCs, Goes, Grows
  <2>5. rq'[r].pc = "keyed" /\ rq'[r].kind # "userDisconnect"
    BY <1>3, <2>1 DEF Goes
  <2> QED
    BY <2>2, <2>3, <2>4, <2>5 DEF ReqOK, InFlight, SidPCs, SignKinds, Own
<1>7. \A y \in Ports : PortOK(y)'
  BY <1>4, Parts, PortFrame DEF conn_vars
<1>8. PinShape'
  <2>1. ASSUME NEW v \in Windows, pin'[v] # None
        PROVE  v # w /\ pin'[v] = pin[v] /\ pin[v] \in Reqs \ {r}
    BY <2>1, MainAssumption, Parts DEF PinShape, HostType, Windows
  <2>2. ASSUME NEW y \in Ports, verifying'[y] # None
        PROVE  y # w /\ verifying'[y] = verifying[y] /\ verifying[y] \in Reqs \ {r}
    BY <2>2, MainAssumption, Parts DEF PinShape, HostType, Windows
  <2>3. \A q \in Reqs \ {r} : rq'[q] = rq[q]
    BY <1>3 DEF Goes, Others
  <2>4. ASSUME NEW v \in Windows, pin'[v] # None
        PROVE  /\ rq'[pin'[v]].pc = "pin"
               /\ rq'[pin'[v]].host = (IF v = Main THEN "main" ELSE "popup")
               /\ v # Main => PortOf[pin'[v]] = v
    <3>1. pin'[v] = pin[v] /\ rq'[pin[v]] = rq[pin[v]]
      BY <2>1, <2>3, <2>4
    <3>2. /\ rq[pin[v]].pc = "pin"
          /\ rq[pin[v]].host = (IF v = Main THEN "main" ELSE "popup")
          /\ v # Main => PortOf[pin[v]] = v
      BY <2>4, <3>1, Parts DEF PinShape
    <3> QED
      BY <3>1, <3>2, Zenon
  <2>5. ASSUME NEW y \in Ports, verifying'[y] # None
        PROVE  /\ rq'[verifying'[y]].pc = "pin"
               /\ rq'[verifying'[y]].host = "popup"
               /\ PortOf[verifying'[y]] = y
    <3>1. verifying'[y] = verifying[y] /\ rq'[verifying[y]] = rq[verifying[y]]
      BY <2>2, <2>3, <2>5
    <3>2. /\ rq[verifying[y]].pc = "pin" /\ rq[verifying[y]].host = "popup"
          /\ PortOf[verifying[y]] = y
      BY <2>5, <3>1, Parts DEF PinShape
    <3> QED
      BY <3>1, <3>2, Zenon
  <2> QED
    BY <2>4, <2>5 DEF PinShape
<1> QED
  BY <1>3, <1>4, <1>5, <1>6, <1>7, <1>8, StepIInv DEF Goes

\* A step that moves no request, loads nothing and hands nothing off.
LEMMA QuietIInv ==
  ASSUME IInv, HostType', PinShape', UNCHANGED <<rq, mem, minted, now, session, addr,
         wallet, carried, adopting, consented, stage, store>>
  PROVE  IInv'
<1>1. RecordType' /\ ConsentedSessions' /\ Grows
  BY Parts, RecordFrame DEF store_vars, Handed
<1>2. TypeOK'
  BY <1>1, Parts DEF TypeOK, HandlerType, RequestType
<1>3. \A r \in Reqs : ReqOK(r)'
  BY <1>1, Parts, ReqFrame
<1>4. \A x \in Ports : PortOK(x)'
  BY <1>1, Parts, PortFrame
<1> QED
  BY <1>1, <1>2, <1>3, <1>4 DEF IInv

\* The PIN being checked is typed into the prompt on screen.
LEMMA PinSubmitIInv ==
  ASSUME IInv, NEW w \in Windows, PinSubmit(w) PROVE IInv'
<1>1. HostType'
  BY Parts DEF PinSubmit, HostType
<1>2. PinShape'
  BY Parts, MainAssumption DEF PinSubmit, PinShape, HostType, Windows
<1> QED
  BY <1>1, <1>2, QuietIInv DEF PinSubmit, store_vars, conn_vars

\* A right PIN lets one request of that window go on.
LEMMA PinVerifiedIInv ==
  ASSUME IInv, NEW w \in Windows, PinVerified(w) PROVE IInv'
<1> DEFINE v == verifying[w]
           r == IF w = Main THEN pin[Main] ELSE v
<1>1. /\ v # None
      /\ rq' = IF r = None THEN rq
               ELSE [rq EXCEPT ![r].pc = "keyed", ![r].signer = rq[v].acct]
      /\ pin' = [pin EXCEPT ![w] = None]
      /\ verifying' = [verifying EXCEPT ![w] = None]
      /\ unlockAddr' = IF w = Main THEN FALSE ELSE unlockAddr
  BY DEF PinVerified
<1>2. UNCHANGED <<store_vars, conn_vars, trusted, now, stage, carried, adopting, active,
                  chosen, slot, tearDown, consented>>
  BY DEF PinVerified
<1>3. v \in Reqs /\ r \in Reqs \cup {None}
  BY <1>1, Parts DEF HostType, Windows
<1>4. unlockAddr' \in BOOLEAN /\ rq[v].acct \in Accounts \cup {None}
  BY <1>1, <1>3, Parts DEF HostType, RequestType, ReqRec
<1>5. CASE r = None
  <2>1. HostType'
    BY <1>1, <1>2, <1>4, Parts DEF HostType
  <2>2. PinShape'
    BY <1>1, <1>5, Parts DEF PinShape, HostType, Windows
  <2> QED
    BY <1>1, <1>2, <1>5, <2>1, <2>2, QuietIInv DEF store_vars, conn_vars
<1>6. CASE r # None
  <2>1. /\ rq[r].pc = "pin" /\ rq[r].host = (IF w = Main THEN "main" ELSE "popup")
        /\ w # Main => PortOf[r] = w
    BY <1>1, <1>6, Parts DEF PinShape, Windows
  <2> HIDE DEF r, v
  <2> QED
    BY <1>1, <1>2, <1>3, <1>4, <1>6, <2>1, Unlocks
<1> QED
  BY <1>5, <1>6

\* A wrong PIN leaves the prompt as it is.
LEMMA PinWrongIInv ==
  ASSUME IInv, NEW w \in Windows, PinWrong(w) PROVE IInv'
<1>1. HostType'
  BY Parts DEF PinWrong, HostType
<1>2. PinShape'
  BY Parts DEF PinWrong, PinShape, HostType, Windows
<1> QED
  BY <1>1, <1>2, QuietIInv DEF PinWrong, store_vars, conn_vars

\* A cancelled prompt lets its request go on without keys.
LEMMA PinCancelIInv ==
  ASSUME IInv, NEW w \in Windows, PinCancel(w) PROVE IInv'
<1> DEFINE r == pin[w]
<1>1. /\ r # None /\ verifying[w] = None
      /\ rq' = [rq EXCEPT ![r].pc = "keyed"]
      /\ pin' = [pin EXCEPT ![w] = None]
      /\ unlockAddr' = IF w = Main THEN FALSE ELSE unlockAddr
  BY DEF PinCancel
<1>2. UNCHANGED <<store_vars, conn_vars, verifying, trusted, now, stage, carried, adopting,
                  active, chosen, slot, tearDown, consented>>
  BY DEF PinCancel
<1>3. r \in Reqs /\ unlockAddr' \in BOOLEAN
  BY <1>1, Parts DEF HostType
<1>4. rq[r] \in ReqRec /\ rq[r].signer \in Accounts \cup {None}
  BY <1>3, Parts DEF RequestType, ReqRec
<1>5. rq' = [rq EXCEPT ![r].pc = "keyed", ![r].signer = rq[r].signer]
  BY <1>1, <1>3, <1>4, Parts DEF RequestType, ReqRec
<1>6. verifying' = [verifying EXCEPT ![w] = None]
  BY <1>1, <1>2, Parts DEF HostType
<1>7. /\ rq[r].pc = "pin" /\ rq[r].host = (IF w = Main THEN "main" ELSE "popup")
      /\ w # Main => PortOf[r] = w
  BY <1>1, Parts DEF PinShape
<1> HIDE DEF r
<1> QED
  BY <1>1, <1>2, <1>3, <1>4, <1>5, <1>6, <1>7, Unlocks

-----------------------------------------------------------------------------
(* Handoff.                                                                *)

\* Nothing but a disconnect of its own is in flight in a popup that hands its
\* port off, so that dropping its copies takes no session from anybody.
LEMMA HandoffIInv ==
  ASSUME IInv, NEW x \in Ports, Handoff(x) PROVE IInv'
<1>1. /\ stage[x] = "popup" /\ Idle(x)
      /\ stage' = [stage EXCEPT ![x] = "transit"]
      /\ carried' = [carried EXCEPT ![x] = wallet[x]]
      /\ session' = [session EXCEPT ![x] = None]
      /\ addr' = [addr EXCEPT ![x] = None]
      /\ wallet' = [wallet EXCEPT ![x] = None]
      /\ mem' = [mem EXCEPT ![x] = [s \in Sids |-> NoRec]]
  BY DEF Handoff
<1>2. UNCHANGED <<store_vars, host_vars, trusted, now, adopting, tearDown, rq, consented>>
  BY DEF Handoff
<1>n. None \notin Sids /\ 0 \notin Sids
  BY NoneAssumption, BoundAssumption DEF Sids
<1>3. \A y \in Ports, s \in Sids : y # x => mem'[y][s] = mem[y][s]
  BY <1>1, Parts DEF RecordType
<1>4. \A y \in Ports : Handed(y) => Handed(y)' /\ y # x
  BY <1>1, Parts DEF Handed, HandlerType
<1>5. RecordType'
  BY <1>1, <1>2, Parts DEF RecordType, store_vars
<1>6. ConsentedSessions'
  BY <1>1, <1>2, Parts DEF ConsentedSessions, Copies, store_vars, RecordType
<1>7. TypeOK'
  BY <1>1, <1>2, <1>5, Parts
     DEF TypeOK, HandlerType, HostType, RequestType, host_vars, pin_vars, Stages
<1>8. ASSUME NEW r \in Reqs PROVE ReqOK(r)'
  <2>1. PortOf[r] \in Ports
    BY WiringAssumption
  <2>2. InFlight(r) /\ rq[r].kind # "userDisconnect" => PortOf[r] # x
    BY <1>1 DEF Idle
  <2> QED
    BY <1>2, <1>3, <1>4, <2>1, <2>2, Parts DEF ReqOK, InFlight, Own
<1>9. ASSUME NEW y \in Ports PROVE PortOK(y)'
  <2>1. CASE y = x
    <3>1. session'[y] = None /\ adopting'[y] = 0
      BY <1>1, <1>2, <2>1, Parts DEF HandlerType, PortOK, Handed
    <3> QED
      BY <1>n, <3>1 DEF PortOK, Own
  <2>2. CASE y # x
    <3>1. session'[y] = session[y] /\ adopting'[y] = adopting[y]
      BY <1>1, <1>2, <2>2, Parts DEF HandlerType
    <3> QED
      BY <1>3, <1>4, <2>2, <3>1, Parts DEF PortOK, Own
  <2> QED
    BY <2>1, <2>2
<1>10. PinShape'
  BY <1>2, Parts DEF PinShape, host_vars, pin_vars
<1> QED
  BY <1>6, <1>7, <1>8, <1>9, <1>10 DEF IInv

\* The main window reads a record of the port's own origin.
LEMMA AdoptIInv ==
  ASSUME IInv, NEW x \in Ports, Adopt(x) PROVE IInv'
<1>1. PICK s \in Sids \cup {None} :
        /\ Restored(OriginOf[x], s)
        /\ adopting' = [adopting EXCEPT ![x] = s]
        /\ mem' = IF s = None THEN mem ELSE [mem EXCEPT ![x][s] = store[s]]
  BY DEF Adopt
<1>2. /\ stage' = [stage EXCEPT ![x] = "main"]
      /\ UNCHANGED <<store_vars, host_vars, session, addr, wallet, trusted, now, carried,
                     tearDown, rq, consented>>
  BY DEF Adopt
<1>3. (\A y \in Ports : Handed(y) => Handed(y)') /\ Handed(x)'
  BY <1>2, Parts DEF Handed, HandlerType
<1>4. RecordType' /\ ConsentedSessions' /\ Grows /\ Own(x, s)'
  BY <1>1, <1>2, <1>3, Parts, Load
<1>5. TypeOK'
  BY <1>1, <1>2, <1>4, Parts
     DEF TypeOK, HandlerType, HostType, RequestType, host_vars, pin_vars, Stages
<1>6. \A r \in Reqs : ReqOK(r)'
  BY <1>2, <1>4, Parts, ReqFrame
<1>7. ASSUME NEW y \in Ports PROVE PortOK(y)'
  <2>1. CASE y = x
    <3>1. adopting'[y] = s /\ session'[y] = session[y]
      BY <1>1, <1>2, <2>1, Parts DEF HandlerType
    <3>2. Own(y, adopting[y])' /\ Own(y, session[y])'
      BY <1>4, <2>1, <3>1, Parts DEF PortOK, Grows, Own
    <3> QED
      BY <1>3, <2>1, <3>2 DEF PortOK
  <2>2. CASE y # x
    <3>1. adopting'[y] = adopting[y] /\ session'[y] = session[y]
      BY <1>1, <1>2, <2>2, Parts DEF HandlerType
    <3> QED
      BY <1>4, <3>1, Parts, PortFrame
  <2> QED
    BY <2>1, <2>2
<1>8. PinShape'
  BY <1>2, Parts DEF PinShape, host_vars, pin_vars
<1> QED
  BY <1>4, <1>5, <1>6, <1>7, <1>8 DEF IInv

\* It adopts the record it read, or none.
LEMMA AdoptSessionIInv ==
  ASSUME IInv, NEW x \in Ports, AdoptSession(x) PROVE IInv'
<1> DEFINE s == adopting[x]
<1>1. /\ s # 0
      /\ \/ /\ s # None
            /\ session' = [session EXCEPT ![x] = s]
            /\ addr' = [addr EXCEPT ![x] = mem[x][s].addr]
            /\ wallet' = [wallet EXCEPT ![x] = carried[x]]
            /\ chosen' = [chosen EXCEPT ![Main] = mem[x][s].addr]
         \/ UNCHANGED <<session, addr, wallet, chosen>>
      /\ adopting' = [adopting EXCEPT ![x] = 0]
  BY DEF AdoptSession
<1>2. UNCHANGED <<store_vars, mem, active, slot, pin_vars, trusted, now, stage, carried,
                  tearDown, rq, consented>>
  BY DEF AdoptSession
<1>3. s # None => s \in Sids /\ mem[x][s].addr \in Accounts
  <2>1. s # None => s \in Sids /\ Own(x, s)
    BY <1>1, Parts DEF HandlerType, PortOK
  <2> QED
    BY <2>1, Parts, OwnRec DEF Rec
<1>4. RecordType' /\ ConsentedSessions' /\ Grows
  BY <1>2, Parts, RecordFrame DEF Handed
<1>5. TypeOK'
  <2>1. HandlerType'
    BY <1>1, <1>2, <1>3, Parts DEF HandlerType
  <2>2. HostType'
    BY <1>1, <1>2, <1>3, Parts DEF HostType, pin_vars, Windows
  <2> QED
    BY <1>2, <1>4, <2>1, <2>2, Parts DEF TypeOK, RequestType
<1>6. \A r \in Reqs : ReqOK(r)'
  BY <1>2, <1>4, Parts, ReqFrame
<1>7. ASSUME NEW y \in Ports PROVE PortOK(y)'
  <2>1. session'[y] = session[y] \/ session'[y] = adopting[y]
    BY <1>1, Parts DEF HandlerType
  <2>2. adopting'[y] \in {adopting[y], 0}
    BY <1>1, Parts DEF HandlerType
  <2>3. 0 \notin Sids
    BY BoundAssumption DEF Sids
  <2>4. Own(y, session[y])' /\ Own(y, adopting[y])'
    BY <1>4, <2>1, <2>2, <2>3, Parts DEF PortOK, Grows, Own
  <2> QED
    BY <1>2, <1>4, <2>2, <2>4, Parts DEF PortOK, Grows, Handed
<1>8. PinShape'
  BY <1>2, Parts DEF PinShape, pin_vars
<1> QED
  BY <1>4, <1>5, <1>6, <1>7, <1>8 DEF IInv

-----------------------------------------------------------------------------
(* The windows, the user and the clock.                                    *)

\* Locking the main window takes no session.
LEMMA LockIInv == ASSUME IInv, Lock PROVE IInv'
<1>1. HostType'
  BY Parts DEF Lock, HostType
<1>2. PinShape'
  BY Parts DEF Lock, PinShape
<1> QED
  BY <1>1, <1>2, QuietIInv DEF Lock, store_vars, conn_vars

\* Neither does switching its account.
LEMMA SetWalletIInv ==
  ASSUME IInv, NEW a \in Accounts, SetWallet(a) PROVE IInv'
<1>1. HostType'
  BY Parts DEF SetWallet, HostType, pin_vars
<1>2. PinShape'
  BY Parts DEF SetWallet, PinShape, pin_vars
<1> QED
  BY <1>1, <1>2, QuietIInv DEF SetWallet, store_vars, conn_vars

\* Removing a trusted site leaves the consent that was given.
LEMMA UntrustIInv ==
  ASSUME IInv, NEW o \in Origins, Untrust(o) PROVE IInv'
<1>1. HostType'
  BY Parts DEF Untrust, HostType, host_vars, pin_vars
<1>2. PinShape'
  BY Parts DEF Untrust, PinShape, host_vars, pin_vars
<1> QED
  BY <1>1, <1>2, QuietIInv DEF Untrust, store_vars, conn_vars

\* A step that moves no request, and may take a port away or delete a record.
LEMMA FrameIInv ==
  ASSUME IInv, RecordType', HandlerType', HostType', ConsentedSessions', Grows,
         UNCHANGED <<rq, pin, verifying, session, adopting>>
  PROVE  IInv'
<1>1. TypeOK'
  BY Parts DEF TypeOK, RequestType
<1>2. \A r \in Reqs : ReqOK(r)'
  BY Parts, ReqFrame
<1>3. \A x \in Ports : PortOK(x)'
  BY Parts, PortFrame
<1>4. PinShape'
  BY Parts DEF PinShape
<1> QED
  BY <1>1, <1>2, <1>3, <1>4 DEF IInv

\* Disposed handlers stay handed off.
LEMMA TearDownIInv == ASSUME IInv, TearDown PROVE IInv'
<1>1. /\ stage' = [x \in Ports |-> IF stage[x] = "main" THEN "closed" ELSE stage[x]]
      /\ tearDown' = FALSE
      /\ UNCHANGED <<store_vars, host_vars, conn_vars, trusted, now, carried, adopting, rq,
                     consented>>
  BY DEF TearDown
<1>2. HandlerType' /\ HostType'
  BY <1>1, Parts DEF HandlerType, HostType, conn_vars, host_vars, pin_vars, Stages
<1>3. \A x \in Ports : Handed(x) => Handed(x)'
  BY <1>1 DEF Handed
<1>4. RecordType' /\ ConsentedSessions' /\ Grows
  BY <1>1, <1>3, Parts, RecordFrame DEF conn_vars
<1> QED
  BY <1>1, <1>2, <1>4, FrameIInv DEF conn_vars, host_vars, pin_vars

\* Revoking deletes a saved record.
LEMMA RevokeIInv ==
  ASSUME IInv, NEW s \in Sids, Revoke(s) PROVE IInv'
<1>1. HandlerType' /\ HostType'
  BY Parts DEF Revoke, HandlerType, HostType, conn_vars, host_vars, pin_vars
<1>2. RecordType' /\ ConsentedSessions' /\ Grows
  BY Parts, DeleteRecord DEF Revoke, conn_vars
<1> QED
  BY <1>1, <1>2, FrameIInv DEF Revoke, conn_vars, host_vars, pin_vars

\* Time moves no session.
LEMMA TickIInv == ASSUME IInv, Tick PROVE IInv'
<1>1. HandlerType' /\ HostType'
  BY Parts DEF Tick, HandlerType, HostType, conn_vars, host_vars, pin_vars
<1>2. RecordType'
  BY Parts, BoundAssumption DEF Tick, RecordType, store_vars, conn_vars
<1>3. ConsentedSessions' /\ Grows
  BY Parts DEF Tick, ConsentedSessions, Copies, Grows, Own, Handed, store_vars, conn_vars
<1> QED
  BY <1>1, <1>2, <1>3, FrameIInv DEF Tick, conn_vars, host_vars, pin_vars

\* Every request of the popup that goes away is done; a prompt or a PIN of
\* another window belongs to a request that stays.
LEMMA ClosePopupIInv ==
  ASSUME IInv, NEW x \in Ports, ClosePopup(x) PROVE IInv'
<1> DEFINE gone(r) == PortOf[r] = x /\ InFlight(r)
<1>1. /\ stage[x] = "popup"
      /\ stage' = [stage EXCEPT ![x] = "closed"]
      /\ slot' = [slot EXCEPT ![x] = None]
      /\ pin' = [pin EXCEPT ![x] = None]
      /\ verifying' = [verifying EXCEPT ![x] = None]
      /\ rq' = [r \in Reqs |-> IF gone(r)
                                 THEN [rq[r] EXCEPT !.pc = "done", !.result = "dropped"]
                                 ELSE rq[r]]
  BY DEF ClosePopup
<1>2. UNCHANGED <<store_vars, conn_vars, active, chosen, unlockAddr, trusted, now, carried,
                  adopting, tearDown, consented>>
  BY DEF ClosePopup
<1>3. ASSUME NEW r \in Reqs
      PROVE  /\ rq'[r] \in ReqRec
             /\ gone(r) => rq'[r].pc = "done" /\ rq'[r].host = rq[r].host
             /\ ~gone(r) => rq'[r] = rq[r]
  <2>1. rq[r] \in ReqRec
    BY Parts DEF RequestType
  <2>2. [rq[r] EXCEPT !.pc = "done", !.result = "dropped"] \in ReqRec
    BY <2>1, ZenonT(30) DEF ReqRec, PCs, Results
  <2>3. /\ [rq[r] EXCEPT !.pc = "done", !.result = "dropped"].pc = "done"
        /\ [rq[r] EXCEPT !.pc = "done", !.result = "dropped"].host = rq[r].host
    BY <2>1 DEF ReqRec
  <2> HIDE DEF gone
  <2> QED
    BY <1>1, <2>1, <2>2, <2>3
<1>4. \A y \in Ports : Handed(y) => Handed(y)'
  BY <1>1, Parts DEF Handed, HandlerType
<1>5. RecordType' /\ ConsentedSessions' /\ Grows
  BY <1>2, <1>4, Parts, RecordFrame DEF conn_vars
<1>6. TypeOK'
  <2>1. RequestType'
    <3> HIDE DEF gone
    <3>1. \A r \in Reqs : rq'[r] \in ReqRec
      BY <1>3
    <3> QED
      BY <1>1, <3>1 DEF RequestType
  <2>2. HandlerType' /\ HostType'
    BY <1>1, <1>2, Parts DEF HandlerType, HostType, conn_vars, Stages, Windows
  <2> QED
    BY <1>5, <2>1, <2>2 DEF TypeOK
<1>7. \A r \in Reqs : ReqOK(r)'
  BY <1>3, <1>5, Parts, ReqFrame, DoneOK
<1>8. \A y \in Ports : PortOK(y)'
  BY <1>2, <1>5, Parts, PortFrame DEF conn_vars
<1>9. PinShape'
  <2>1. ASSUME NEW w \in Windows, pin'[w] # None
        PROVE  /\ rq'[pin'[w]].pc = "pin"
               /\ rq'[pin'[w]].host = (IF w = Main THEN "main" ELSE "popup")
               /\ w # Main => PortOf[pin'[w]] = w
    <3>1. w # x /\ pin'[w] = pin[w] /\ pin[w] \in Reqs
      BY <1>1, <2>1, Parts DEF HostType, Windows
    <3>2. ~gone(pin[w])
      BY <1>1, <2>1, <3>1, Parts DEF PinShape, ReqOK, Handed
    <3>3. rq'[pin[w]] = rq[pin[w]]
      BY <1>3, <3>1, <3>2
    <3> QED
      BY <2>1, <3>1, <3>3, Parts DEF PinShape
  <2>2. ASSUME NEW y \in Ports, verifying'[y] # None
        PROVE  /\ rq'[verifying'[y]].pc = "pin"
               /\ rq'[verifying'[y]].host = "popup"
               /\ PortOf[verifying'[y]] = y
    <3>1. y # x /\ verifying'[y] = verifying[y] /\ verifying[y] \in Reqs
      BY <1>1, <2>2, Parts DEF HostType, Windows
    <3>2. ~gone(verifying[y])
      BY <2>2, <3>1, Parts DEF PinShape
    <3>3. rq'[verifying[y]] = rq[verifying[y]]
      BY <1>3, <3>1, <3>2
    <3> QED
      BY <2>2, <3>1, <3>3, Parts DEF PinShape
  <2> QED
    BY <2>1, <2>2 DEF PinShape
<1> QED
  BY <1>5, <1>6, <1>7, <1>8, <1>9 DEF IInv

-----------------------------------------------------------------------------
\* Every step keeps the invariant.
LEMMA NextIInv == IInv /\ [Next]_vars => IInv'
<1> SUFFICES ASSUME IInv, [Next]_vars PROVE IInv'
  OBVIOUS
<1>1. ASSUME NEW r \in Reqs, Arrive(r) PROVE IInv'
  BY <1>1, ArriveLockedIInv, StartConnectIInv, StartDisconnectIInv, StartUseIInv DEF Arrive
<1>2. ASSUME NEW r \in Reqs, Continue(r) PROVE IInv'
  BY <1>2, ReconnectIInv, ConnectTrustedIInv, AskConnectIInv, KeyedRestoredIInv,
     KeyedFreshIInv, CreateSessionIInv, TouchCreatedIInv, SetSessionIInv, ReplyConnectIInv,
     EndSessionIInv, ExpireSessionIInv, ReadIInv, SignIInv, NonceArrivedIInv,
     ReplySignedIInv
     DEF Continue
<1>3. ASSUME NEW r \in Reqs, Decide(r) PROVE IInv'
  BY <1>3, ApproveConnectIInv, ApproveSignIInv, RejectIInv DEF Decide
<1>4. ASSUME NEW w \in Windows,
             PinSubmit(w) \/ PinVerified(w) \/ PinWrong(w) \/ PinCancel(w)
      PROVE  IInv'
  BY <1>4, PinSubmitIInv, PinVerifiedIInv, PinWrongIInv, PinCancelIInv
<1>5. ASSUME NEW x \in Ports, Handoff(x) \/ Adopt(x) \/ AdoptSession(x) \/ ClosePopup(x)
      PROVE  IInv'
  BY <1>5, HandoffIInv, AdoptIInv, AdoptSessionIInv, ClosePopupIInv
<1>6. ASSUME \/ Lock \/ TearDown \/ Tick
             \/ \E a \in Accounts : SetWallet(a)
             \/ \E s \in Sids : Revoke(s)
             \/ \E o \in Origins : Untrust(o)
      PROVE  IInv'
  BY <1>6, LockIInv, TearDownIInv, TickIInv, SetWalletIInv, RevokeIInv, UntrustIInv
<1>7. CASE UNCHANGED vars
  BY <1>7 DEF vars, IInv, TypeOK, RecordType, HandlerType, HostType, RequestType, ReqOK,
     PortOK, Own, Handed, InFlight, PinShape, ConsentedSessions, Copies
<1> QED
  BY <1>1, <1>2, <1>3, <1>4, <1>5, <1>6, <1>7 DEF Next

\* IInv is inductive.
THEOREM Inductive == Spec => []IInv
<1> QED
  BY InitIInv, NextIInv, PTL DEF Spec

\* The handlers, the windows and the store hold what their types say.
THEOREM TypeCorrect == Spec => []TypeOK
<1>1. IInv => TypeOK
  BY DEF IInv
<1> QED
  BY <1>1, Inductive, PTL

\* No port restores, adopts, touches or saves the session of another origin.
THEOREM OriginsIsolated == Spec => []OriginIsolation
<1>1. IInv => OriginIsolation
  BY DEF IInv, OriginIsolation, Holds, PortOK, ReqOK, Own
<1> QED
  BY <1>1, Inductive, PTL

\* No session binds an account that was not agreed upon for its origin.
THEOREM SessionsConsented == Spec => []ConsentedSessions
<1>1. IInv => ConsentedSessions
  BY DEF IInv
<1> QED
  BY <1>1, Inductive, PTL

-----------------------------------------------------------------------------
(***************************************************************************)
(* What no step does: lose a reply, answer with a signature through a      *)
(* locked main window, move a session's origin, account or absolute        *)
(* deadline, or bring a deleted session back.                              *)
(*                                                                         *)
(* Beyond IInv the proofs need who serves a request that is under way      *)
(* (ServedOK) and that all the copies of a session agree (CopiesAgree).    *)
(***************************************************************************)

\* A request that is not done has no result yet.  Its popup has not handed the
\* port off, and a call that passed the main window's gate is served by a
\* window that is unlocked, or whose tear-down is still to come, or is over.
ServedOK(r) ==
  /\ rq[r].pc # "done" => rq[r].result = "none"
  /\ InFlight(r) /\ rq[r].kind # "userDisconnect" /\ rq[r].host = "popup"
       => stage[PortOf[r]] \in {"popup", "closed"}
  /\ InFlight(r) /\ rq[r].kind \notin EndKinds /\ rq[r].host = "main"
       => stage[PortOf[r]] = "closed" \/ active[Main] # None \/ tearDown
  /\ rq[r].result = "dropped" /\ rq[r].kind # "userDisconnect"
       => stage[PortOf[r]] = "closed"

Served == \A r \in Reqs : ServedOK(r)

\* What LockSilences says of a step.
Silent ==
  \A r \in Reqs :
    rq[r].pc # "done" /\ rq'[r].result = "ok" /\ rq'[r].kind \in SignKinds
      => rq[r].host = "popup" \/ active[Main] # None \/ tearDown

\* The windows stay as they are.
SameWindows == UNCHANGED <<stage, tearDown>> /\ active'[Main] = active[Main]

\* A request goes on from one await to the next, or ends.
GoesOn(r) ==
  /\ InFlight(r)
  /\ rq'[r].pc \notin {"new", "done"}
  /\ rq'[r].kind = rq[r].kind /\ rq'[r].host = rq[r].host /\ rq'[r].result = rq[r].result
  /\ Others(r)

Stops(r) ==
  /\ InFlight(r)
  /\ rq'[r].pc = "done"
  /\ rq'[r].kind = rq[r].kind /\ rq'[r].host = rq[r].host
  /\ IF Owns(r) THEN rq'[r].result # "dropped" ELSE rq'[r].result = "dropped"
  /\ Others(r)

-----------------------------------------------------------------------------
(* Lemmas on the parts of a step.                                          *)

\* The other requests are served as before.
LEMMA OneServed ==
  ASSUME Served, NEW r \in Reqs, Others(r), SameWindows, ServedOK(r)',
         rq[r].pc # "done" /\ rq'[r].result = "ok" /\ rq'[r].kind \in SignKinds
           => rq[r].host = "popup" \/ active[Main] # None \/ tearDown
  PROVE  Served' /\ Silent
<1>1. ASSUME NEW q \in Reqs PROVE ServedOK(q)'
  BY DEF Served, ServedOK, Others, SameWindows, InFlight
<1>2. ASSUME NEW q \in Reqs \ {r}
      PROVE  rq[q].pc # "done" => rq'[q].result # "ok"
  BY DEF Served, ServedOK, Others
<1> QED
  BY <1>1, <1>2 DEF Served, Silent

\* From one await to the next.
LEMMA GoesOnServed ==
  ASSUME Served, NEW r \in Reqs, GoesOn(r), SameWindows
  PROVE  Served' /\ Silent
<1>1. ServedOK(r) /\ rq'[r].result = "none"
  BY DEF Served, ServedOK, GoesOn, InFlight
<1>2. ServedOK(r)'
  BY <1>1 DEF ServedOK, GoesOn, SameWindows, InFlight
<1> QED
  BY <1>1, <1>2, OneServed DEF GoesOn

\* A request ends: a handler that lost its port answers nobody, and it loses
\* it only to a window that went away.
LEMMA StopsServed ==
  ASSUME IInv, Served, NEW r \in Reqs, Stops(r), SameWindows
  PROVE  Served' /\ Silent
<1>1. ServedOK(r) /\ ReqOK(r) /\ rq[r].host \in Hosts
  BY Parts DEF Served, RequestType, ReqRec
<1>2. ~Owns(r) /\ rq[r].kind # "userDisconnect" => stage[PortOf[r]] = "closed"
  BY <1>1 DEF ServedOK, ReqOK, Handed, Owns, Stops, Hosts
<1>3. ServedOK(r)'
  BY <1>2 DEF ServedOK, Stops, SameWindows, InFlight
<1>4. rq'[r].result = "ok" /\ rq'[r].kind \in SignKinds
        => rq[r].host = "popup" \/ active[Main] # None \/ tearDown
  BY <1>1 DEF ServedOK, Stops, Owns, SignKinds, EndKinds, Hosts
<1> QED
  BY <1>3, <1>4, OneServed DEF Stops

\* A request that is answered or dropped in its handler is over.
LEMMA FinishStops ==
  ASSUME IInv, NEW r \in Reqs, NEW res \in Results \ {"dropped"}, InFlight(r), Finish(r, res)
  PROVE  Stops(r)
BY Parts DEF Finish, RequestType, ReqRec, Stops, Others

\* A request is taken up; the calls that end a session pass the gate of a
\* locked window, the others do not.
LEMMA StartedServed ==
  ASSUME Served, NEW r \in Reqs, NEW k \in Kinds, Delivered(r, k), SameWindows, Others(r),
         rq'[r].kind = k, rq'[r].host = stage[PortOf[r]], rq'[r].result # "dropped",
         rq'[r].result = "ok" => k \in EndKinds,
         rq'[r].pc # "done" => Gate(r, k) /\ rq'[r].result = "none"
  PROVE  Served' /\ Silent
<1>1. stage[PortOf[r]] = "main" /\ rq'[r].pc # "done" /\ k \notin EndKinds
        => active[Main] # None
  BY DEF Gate, Win
<1>2. ServedOK(r)'
  BY <1>1 DEF ServedOK, Delivered, SameWindows, InFlight, Hosts
<1>3. rq'[r].result = "ok" => rq'[r].kind \notin SignKinds
  BY DEF SignKinds, EndKinds
<1> QED
  BY <1>2, <1>3, OneServed

\* A call that is answered as it arrives: only by a gate or an end of session.
LEMMA AnswerServed ==
  ASSUME IInv, Served, NEW r \in Reqs, NEW k \in Kinds, NEW res, Delivered(r, k),
         SameWindows, Answer(r, k, res), res # "dropped", res = "ok" => k \in EndKinds
  PROVE  Served' /\ Silent
<1>1. /\ Others(r) /\ rq'[r].kind = k /\ rq'[r].host = stage[PortOf[r]]
      /\ rq'[r].result = res /\ rq'[r].pc = "done"
  BY Parts DEF Answer, Started, RequestType, Others
<1> QED
  BY <1>1, StartedServed

\* A call that passes the gate of its window is taken up by whoever has the port.
LEMMA BeginServed ==
  ASSUME IInv, Served, NEW r \in Reqs, NEW k \in Kinds, NEW pc, NEW s, Delivered(r, k),
         SameWindows, Begin(r, k, pc, s), Gate(r, k)
  PROVE  Served' /\ Silent
<1>1. /\ Others(r) /\ rq'[r].kind = k /\ rq'[r].host = stage[PortOf[r]]
      /\ rq'[r].result = "none"
  BY Parts DEF Begin, Started, RequestType, Others
<1> QED
  BY <1>1, StartedServed

\* No request moves and no window is locked or goes away.
LEMMA StillServed ==
  ASSUME Served, UNCHANGED <<rq, stage, tearDown>>,
         active[Main] # None => active'[Main] # None
  PROVE  Served' /\ Silent
BY DEF Served, ServedOK, InFlight, Silent

-----------------------------------------------------------------------------
(* Arrivals.                                                               *)

\* Whatever arrives, at a locked window or an open one.
LEMMA ArriveServed ==
  ASSUME IInv, Served, NEW r \in Reqs, Arrive(r) PROVE Served' /\ Silent
<1>1. CASE ArriveLocked(r)
  <2>1. PICK k \in Kinds : Delivered(r, k) /\ Answer(r, k, "locked")
    BY <1>1 DEF ArriveLocked
  <2>2. SameWindows
    BY <1>1 DEF ArriveLocked, SameWindows, host_vars
  <2> QED
    BY <2>1, <2>2, AnswerServed
<1>2. CASE StartConnect(r)
  <2>1. PICK s \in Sids \cup {None} : Begin(r, "connect", "restored", s)
    BY <1>2 DEF StartConnect
  <2>2. Delivered(r, "connect") /\ Gate(r, "connect") /\ SameWindows
    BY <1>2 DEF StartConnect, SameWindows, host_vars
  <2>3. "connect" \in Kinds
    BY DEF Kinds
  <2> QED
    BY <2>1, <2>2, <2>3, BeginServed
<1>3. CASE StartDisconnect(r)
  <2>1. PICK k \in EndKinds :
          /\ Delivered(r, k)
          /\ Answer(r, k, "ok") \/ Begin(r, k, "ending", session[PortOf[r]])
    BY <1>3 DEF StartDisconnect
  <2>2. k \in Kinds /\ Gate(r, k) /\ SameWindows
    BY <1>3 DEF StartDisconnect, Kinds, Gate, SameWindows, host_vars
  <2> QED
    BY <2>1, <2>2, AnswerServed, BeginServed
<1>4. CASE StartUse(r)
  <2>1. PICK k \in ReadKinds \cup SignKinds :
          /\ Delivered(r, k) /\ Gate(r, k)
          /\ \/ Answer(r, k, "unauthorized")
             \/ Begin(r, k, "expiring", session[PortOf[r]])
             \/ Begin(r, k, "touched", session[PortOf[r]])
    BY <1>4 DEF StartUse
  <2>2. k \in Kinds /\ SameWindows
    BY <1>4 DEF StartUse, Kinds, SameWindows, host_vars
  <2> QED
    BY <2>1, <2>2, AnswerServed, BeginServed
<1> QED
  BY <1>1, <1>2, <1>3, <1>4 DEF Arrive

-----------------------------------------------------------------------------
(* What a request does next.                                               *)

\* The account of a connect is bound: the request goes on to its PIN or its
\* keys.
LEMMA BindGoesOn ==
  ASSUME IInv, NEW r \in Reqs, NEW a \in Accounts, InFlight(r), BindAccount(r, a)
  PROVE  GoesOn(r)
BY Parts DEF BindAccount, GoesOn, RequestType, ReqRec, Others

\* The awaits of a connect, from the lookup to its answer.
LEMMA ConnectServed ==
  ASSUME IInv, Served, NEW r \in Reqs,
         \/ Reconnect(r) \/ ConnectTrusted(r) \/ AskConnect(r) \/ KeyedRestored(r)
         \/ KeyedFresh(r) \/ CreateSession(r) \/ TouchCreated(r) \/ SetSession(r)
         \/ ReplyConnect(r)
  PROVE  Served' /\ Silent
<1>1. CASE Reconnect(r)
  <2>1. /\ InFlight(r) /\ SameWindows
        /\ BindAccount(r, mem[PortOf[r]][rq[r].sid].addr)
    BY <1>1 DEF Reconnect, InFlight, SameWindows
  <2>2. mem[PortOf[r]][rq[r].sid].addr \in Accounts
    <3>1. PortOf[r] \in Ports /\ rq[r].sid \in Sids
      BY <1>1, Parts, WiringAssumption DEF Reconnect, RequestType, ReqRec
    <3>2. Own(PortOf[r], rq[r].sid)
      BY <1>1, Parts DEF Reconnect, ReqOK, InFlight
    <3> QED
      BY <3>1, <3>2, Parts, OwnRec DEF Rec
  <2> QED
    BY <2>1, <2>2, BindGoesOn, GoesOnServed
<1>2. CASE ConnectTrusted(r)
  <2>1. PICK a \in Accounts : BindAccount(r, a)
    BY <1>2 DEF ConnectTrusted
  <2>2. InFlight(r) /\ SameWindows
    BY <1>2 DEF ConnectTrusted, InFlight, SameWindows
  <2> QED
    BY <2>1, <2>2, BindGoesOn, GoesOnServed
<1>3. CASE AskConnect(r)
  <2>1. GoesOn(r) /\ SameWindows
    BY <1>3, Parts DEF AskConnect, GoesOn, RequestType, ReqRec, Others, InFlight, SameWindows
  <2> QED
    BY <2>1, GoesOnServed
<1>4. CASE KeyedRestored(r)
  <2>1. GoesOn(r) /\ SameWindows
    BY <1>4, Parts DEF KeyedRestored, GoesOn, RequestType, ReqRec, Others, InFlight,
       SameWindows, host_vars
  <2> QED
    BY <2>1, GoesOnServed
<1>5. CASE KeyedFresh(r)
  <2>1. InFlight(r) /\ SameWindows
    BY <1>5 DEF KeyedFresh, InFlight, SameWindows, host_vars
  <2>2. CASE Finish(r, "rejected")
    BY <2>1, <2>2, FinishStops, StopsServed DEF Results
  <2>3. CASE rq' = [rq EXCEPT ![r].pc = "chain"]
    <3>1. GoesOn(r)
      BY <2>1, <2>3, Parts DEF GoesOn, RequestType, ReqRec, Others
    <3> QED
      BY <2>1, <3>1, GoesOnServed
  <2> QED
    BY <1>5, <2>2, <2>3 DEF KeyedFresh
<1>6. CASE CreateSession(r)
  <2>1. GoesOn(r) /\ SameWindows
    BY <1>6, Parts DEF CreateSession, GoesOn, RequestType, ReqRec, Others, InFlight,
       SameWindows, host_vars
  <2> QED
    BY <2>1, GoesOnServed
<1>7. CASE TouchCreated(r)
  <2>1. GoesOn(r) /\ SameWindows
    BY <1>7, Parts DEF TouchCreated, GoesOn, RequestType, ReqRec, Others, InFlight,
       SameWindows, host_vars
  <2> QED
    BY <2>1, GoesOnServed
<1>8. CASE SetSession(r)
  <2>1. GoesOn(r) /\ SameWindows
    BY <1>8, Parts DEF SetSession, GoesOn, RequestType, ReqRec, Others, InFlight,
       SameWindows, host_vars
  <2> QED
    BY <2>1, GoesOnServed
<1>9. CASE ReplyConnect(r)
  <2>1. InFlight(r) /\ SameWindows /\ (Finish(r, "internal") \/ Finish(r, "ok"))
    BY <1>9 DEF ReplyConnect, InFlight, SameWindows, host_vars
  <2> QED
    BY <2>1, FinishStops, StopsServed DEF Results
<1> QED
  BY <1>1, <1>2, <1>3, <1>4, <1>5, <1>6, <1>7, <1>8, <1>9

\* The awaits of the calls made under a session.
LEMMA UseServed ==
  ASSUME IInv, Served, NEW r \in Reqs,
         \/ EndSession(r) \/ ExpireSession(r) \/ Read(r) \/ Sign(r) \/ NonceArrived(r)
         \/ ReplySigned(r)
  PROVE  Served' /\ Silent
<1>1. CASE EndSession(r) \/ ReplySigned(r)
  <2>1. InFlight(r) /\ SameWindows /\ Finish(r, "ok")
    BY <1>1 DEF EndSession, ReplySigned, InFlight, SameWindows, host_vars
  <2> QED
    BY <2>1, FinishStops, StopsServed DEF Results
<1>2. CASE ExpireSession(r)
  <2>1. InFlight(r) /\ SameWindows /\ Finish(r, "expired")
    BY <1>2 DEF ExpireSession, InFlight, SameWindows, host_vars
  <2> QED
    BY <2>1, FinishStops, StopsServed DEF Results
<1>3. CASE Read(r)
  <2>1. InFlight(r) /\ SameWindows
    BY <1>3 DEF Read, InFlight, SameWindows, host_vars
  <2>2. Stops(r)
    BY <1>3, <2>1, Parts DEF Read, Stops, RequestType, ReqRec, Others
  <2> QED
    BY <2>1, <2>2, StopsServed
<1>4. CASE Sign(r)
  <2>1. InFlight(r) /\ SameWindows
    BY <1>4 DEF Sign, InFlight, SameWindows
  <2>2. CASE Finish(r, "locked") \/ Finish(r, "unauthorized") \/ Finish(r, "internal")
    BY <2>1, <2>2, FinishStops, StopsServed DEF Results
  <2>3. CASE \E pc \in {"approve", "nonce"} : \E a, n :
               rq' = [rq EXCEPT ![r].pc = pc, ![r].signer = a, ![r].nonceOf = n]
    <3>1. GoesOn(r)
      BY <2>1, <2>3, Parts DEF GoesOn, RequestType, ReqRec, Others
    <3> QED
      BY <2>1, <3>1, GoesOnServed
  <2> QED
    BY <1>4, <2>2, <2>3 DEF Sign
<1>5. CASE NonceArrived(r)
  <2>1. InFlight(r) /\ SameWindows
    BY <1>5 DEF NonceArrived, InFlight, SameWindows
  <2>2. CASE Finish(r, "internal")
    BY <2>1, <2>2, FinishStops, StopsServed DEF Results
  <2>3. CASE rq' = [rq EXCEPT ![r].pc = "approve"]
    <3>1. GoesOn(r)
      BY <2>1, <2>3, Parts DEF GoesOn, RequestType, ReqRec, Others
    <3> QED
      BY <2>1, <3>1, GoesOnServed
  <2> QED
    BY <1>5, <2>2, <2>3 DEF NonceArrived
<1> QED
  BY <1>1, <1>2, <1>3, <1>4, <1>5

\* What the user decides at a prompt.
LEMMA DecideServed ==
  ASSUME IInv, Served, NEW r \in Reqs, Decide(r) PROVE Served' /\ Silent
<1>1. CASE ApproveConnect(r)
  <2>1. PICK a \in Accounts : BindAccount(r, a)
    BY <1>1 DEF ApproveConnect
  <2>2. InFlight(r) /\ SameWindows
    BY <1>1 DEF ApproveConnect, Prompted, InFlight, SameWindows
  <2> QED
    BY <2>1, <2>2, BindGoesOn, GoesOnServed
<1>2. CASE ApproveSign(r)
  <2>1. GoesOn(r) /\ SameWindows
    BY <1>2, Parts DEF ApproveSign, Prompted, GoesOn, RequestType, ReqRec, Others, InFlight,
       SameWindows
  <2> QED
    BY <2>1, GoesOnServed
<1>3. CASE Reject(r)
  <2>1. InFlight(r) /\ SameWindows /\ Finish(r, "rejected")
    BY <1>3 DEF Reject, Prompted, InFlight, SameWindows
  <2> QED
    BY <2>1, FinishStops, StopsServed DEF Results
<1> QED
  BY <1>1, <1>2, <1>3 DEF Decide

-----------------------------------------------------------------------------
(* The windows.                                                            *)

\* A PIN that is typed or given up moves the request in the prompt on.
LEMMA PinServed ==
  ASSUME IInv, Served, NEW w \in Windows,
         PinSubmit(w) \/ PinVerified(w) \/ PinWrong(w) \/ PinCancel(w)
  PROVE  Served' /\ Silent
<1>1. CASE PinSubmit(w) \/ PinWrong(w)
  BY <1>1, StillServed DEF PinSubmit, PinWrong
<1>2. CASE PinVerified(w)
  <2> DEFINE r == IF w = Main THEN pin[Main] ELSE verifying[w]
             a == rq[verifying[w]].acct
  <2>1. /\ verifying[w] # None
        /\ rq' = IF r = None THEN rq ELSE [rq EXCEPT ![r].pc = "keyed", ![r].signer = a]
        /\ SameWindows /\ active' = active
    BY <1>2 DEF PinVerified, SameWindows
  <2>2. CASE r = None
    BY <2>1, <2>2, StillServed DEF SameWindows
  <2>3. CASE r # None
    <3>1. r \in Reqs /\ rq[r].pc = "pin"
      BY <2>1, <2>3, Parts, MainAssumption DEF HostType, PinShape, Windows
    <3>2. rq' = [rq EXCEPT ![r].pc = "keyed", ![r].signer = a]
      BY <2>1, <2>3
    <3> HIDE DEF r, a
    <3>3. GoesOn(r)
      BY <3>1, <3>2, Parts DEF GoesOn, RequestType, ReqRec, Others, InFlight
    <3> QED
      BY <2>1, <3>1, <3>3, GoesOnServed
  <2> QED
    BY <2>2, <2>3
<1>3. CASE PinCancel(w)
  <2> DEFINE r == pin[w]
  <2>1. r \in Reqs /\ rq[r].pc = "pin"
    BY <1>3, Parts DEF PinCancel, HostType, PinShape
  <2>2. rq' = [rq EXCEPT ![r].pc = "keyed"] /\ SameWindows
    BY <1>3 DEF PinCancel, SameWindows
  <2> HIDE DEF r
  <2>3. GoesOn(r)
    BY <2>1, <2>2, Parts DEF GoesOn, RequestType, ReqRec, Others, InFlight
  <2> QED
    BY <2>1, <2>2, <2>3, GoesOnServed
<1> QED
  BY <1>1, <1>2, <1>3

\* A popup hands its port off only when no request of the dApp is under way,
\* and the main window takes it over before it serves one.
LEMMA HandoffServed ==
  ASSUME IInv, Served, NEW x \in Ports, Handoff(x) \/ Adopt(x) \/ AdoptSession(x)
  PROVE  Served' /\ Silent
<1>1. CASE Handoff(x)
  <2>1. /\ stage' = [stage EXCEPT ![x] = "transit"] /\ stage[x] = "popup" /\ Idle(x)
        /\ UNCHANGED <<rq, tearDown, active>>
    BY <1>1 DEF Handoff, host_vars
  <2>2. ASSUME NEW r \in Reqs PROVE ServedOK(r)'
    <3>1. PortOf[r] = x /\ InFlight(r) => rq[r].kind = "userDisconnect"
      BY <2>1 DEF Idle
    <3>2. PortOf[r] # x => stage'[PortOf[r]] = stage[PortOf[r]]
      BY <2>1, Parts, WiringAssumption DEF HandlerType
    <3> QED
      BY <2>1, <3>1, <3>2 DEF Served, ServedOK, InFlight, EndKinds
  <2>3. Silent
    BY <2>1 DEF Served, ServedOK, Silent
  <2> QED
    BY <2>2, <2>3 DEF Served
<1>2. CASE Adopt(x)
  <2>1. /\ stage[x] = "transit" /\ stage' = [stage EXCEPT ![x] = "main"]
        /\ UNCHANGED <<rq, tearDown, active>>
    BY <1>2 DEF Adopt, host_vars
  <2>2. ASSUME NEW r \in Reqs PROVE ServedOK(r)'
    <3>1. rq[r].host = "main" => PortOf[r] # x
      BY <2>1, Parts DEF ReqOK, Handed
    <3>2. PortOf[r] # x => stage'[PortOf[r]] = stage[PortOf[r]]
      BY <2>1, Parts, WiringAssumption DEF HandlerType
    <3>3. rq[r].host \in Hosts
      BY Parts DEF RequestType, ReqRec
    <3> QED
      BY <2>1, <3>1, <3>2, <3>3 DEF Served, ServedOK, InFlight, Hosts
  <2>3. Silent
    BY <2>1 DEF Served, ServedOK, Silent
  <2> QED
    BY <2>2, <2>3 DEF Served
<1>3. CASE AdoptSession(x)
  BY <1>3, StillServed DEF AdoptSession
<1> QED
  BY <1>1, <1>2, <1>3

\* The popup goes away with the calls it was serving.
LEMMA ClosePopupServed ==
  ASSUME IInv, Served, NEW x \in Ports, ClosePopup(x) PROVE Served' /\ Silent
<1>1. /\ stage' = [stage EXCEPT ![x] = "closed"]
      /\ rq' = [r \in Reqs |-> IF PortOf[r] = x /\ InFlight(r)
                                 THEN [rq[r] EXCEPT !.pc = "done", !.result = "dropped"]
                                 ELSE rq[r]]
      /\ UNCHANGED <<tearDown, active>>
  BY DEF ClosePopup
<1>2. ASSUME NEW r \in Reqs
      PROVE  \/ rq'[r] = rq[r]
             \/ PortOf[r] = x /\ rq'[r].pc = "done" /\ rq'[r].result = "dropped"
  <2>1. rq[r] \in ReqRec
    BY Parts DEF RequestType
  <2>2. [rq[r] EXCEPT !.pc = "done", !.result = "dropped"].pc = "done"
        /\ [rq[r] EXCEPT !.pc = "done", !.result = "dropped"].result = "dropped"
    BY <2>1 DEF ReqRec
  <2>3. CASE PortOf[r] = x /\ InFlight(r)
    <3>1. rq'[r] = [rq[r] EXCEPT !.pc = "done", !.result = "dropped"]
      BY <1>1, <2>3
    <3> QED
      BY <2>2, <2>3, <3>1
  <2>4. CASE ~(PortOf[r] = x /\ InFlight(r))
    BY <1>1, <2>4
  <2> QED
    BY <2>3, <2>4
<1>3. ASSUME NEW r \in Reqs PROVE ServedOK(r)'
  <2>1. stage'[PortOf[r]] = IF PortOf[r] = x THEN "closed" ELSE stage[PortOf[r]]
    BY <1>1, Parts, WiringAssumption DEF HandlerType
  <2>2. CASE rq'[r] = rq[r]
    BY <1>1, <2>1, <2>2 DEF Served, ServedOK, InFlight
  <2>3. CASE PortOf[r] = x /\ rq'[r].pc = "done" /\ rq'[r].result = "dropped"
    BY <2>1, <2>3 DEF ServedOK, InFlight
  <2> QED
    BY <1>2, <2>2, <2>3
<1>4. Silent
  BY <1>2 DEF Served, ServedOK, Silent
<1> QED
  BY <1>3, <1>4 DEF Served

\* The lock leaves a tear-down to be run, and the tear-down closes the ports.
LEMMA LockServed ==
  ASSUME IInv, Served, Lock \/ TearDown PROVE Served' /\ Silent
<1>1. CASE Lock
  BY <1>1 DEF Lock, Served, ServedOK, InFlight, Silent
<1>2. CASE TearDown
  <2>1. /\ stage' = [x \in Ports |-> IF stage[x] = "main" THEN "closed" ELSE stage[x]]
        /\ UNCHANGED <<rq, active>>
    BY <1>2 DEF TearDown, host_vars
  <2>2. ASSUME NEW r \in Reqs PROVE ServedOK(r)'
    <3>1. PortOf[r] \in Ports /\ (rq[r].host = "main" => Handed(PortOf[r]))
      BY Parts, WiringAssumption DEF ReqOK
    <3> QED
      BY <2>1, <3>1 DEF Served, ServedOK, InFlight, Handed
  <2>3. Silent
    BY <2>1 DEF Served, ServedOK, Silent
  <2> QED
    BY <2>2, <2>3 DEF Served
<1> QED
  BY <1>1, <1>2

\* Every step keeps Served, and none signs through a locked window.
LEMMA NextServed == IInv /\ Served /\ [Next]_vars => Served' /\ Silent
<1> SUFFICES ASSUME IInv, Served, [Next]_vars PROVE Served' /\ Silent
  OBVIOUS
<1>1. ASSUME NEW r \in Reqs, Arrive(r) \/ Continue(r) \/ Decide(r) PROVE Served' /\ Silent
  BY <1>1, ArriveServed, ConnectServed, UseServed, DecideServed DEF Continue
<1>2. ASSUME NEW w \in Windows,
             PinSubmit(w) \/ PinVerified(w) \/ PinWrong(w) \/ PinCancel(w)
      PROVE  Served' /\ Silent
  BY <1>2, PinServed
<1>3. ASSUME NEW x \in Ports, Handoff(x) \/ Adopt(x) \/ AdoptSession(x) \/ ClosePopup(x)
      PROVE  Served' /\ Silent
  BY <1>3, HandoffServed, ClosePopupServed
<1>4. ASSUME Lock \/ TearDown PROVE Served' /\ Silent
  BY <1>4, LockServed
<1>5. ASSUME NEW a \in Accounts, SetWallet(a) PROVE Served' /\ Silent
  <2>1. a # None /\ active'[Main] = a
    BY <1>5, Parts, NoneAssumption DEF SetWallet, HostType, Windows
  <2> QED
    BY <1>5, <2>1, StillServed DEF SetWallet
<1>6. ASSUME \/ \E s \in Sids : Revoke(s)
             \/ \E o \in Origins : Untrust(o)
             \/ Tick
             \/ UNCHANGED vars
      PROVE  Served' /\ Silent
  BY <1>6, StillServed DEF Revoke, Untrust, Tick, host_vars, vars
<1> QED
  BY <1>1, <1>2, <1>3, <1>4, <1>5, <1>6 DEF Next

\* Who serves a call is settled when it is taken up.
THEOREM CallsServed == Spec => [](IInv /\ Served)
<1>1. Init => Served
  BY DEF Init, Served, ServedOK, NewReq, InFlight
<1> QED
  BY <1>1, NextServed, InitIInv, NextIInv, PTL DEF Spec

\* The port is never transferred under a call: its answer is lost only when the
\* popup was closed or the main window's handlers were disposed.
THEOREM RepliesKept == Spec => []NoReplyLost
<1>1. Served => NoReplyLost
  BY DEF Served, ServedOK, NoReplyLost
<1> QED
  BY <1>1, CallsServed, PTL

\* After Layout's effect on lock no adopted handler gives a signature out.
THEOREM LockedIsSilent == Spec => LockSilences
<1>1. IInv /\ Served /\ [Next]_vars
        => [\A r \in Reqs :
              rq[r].pc # "done" /\ rq'[r].result = "ok" /\ rq'[r].kind \in SignKinds
                => rq[r].host = "popup" \/ active[Main] # None \/ tearDown]_vars
  BY NextServed DEF Silent
<1> QED
  BY <1>1, CallsServed, PTL DEF Spec, LockSilences

-----------------------------------------------------------------------------
(* The records.                                                            *)

\* All the copies of a session agree, and only minted sessions have one.
CopiesAgree ==
  \A s \in Sids :
    /\ \A c, d \in Copies(s) : SameSession(c, d)
    /\ s > minted => \A c \in Copies(s) : c = NoRec

\* What CapIsFixed says of a step.
CapStep ==
  \A s \in Sids : \A c \in Copies(s), d \in Copies(s)' : SameSession(c, d)

\* d is a copy of session s, or one rewritten since.
Old(s, d) ==
  \E c \in Copies(s) :
    c # NoRec /\ c.origin = d.origin /\ c.addr = d.addr /\ c.abs = d.abs

\* Where the live copies come from: an older copy or, of a session minted in
\* this step, its one record.
Derived ==
  \A s \in Sids : \A d \in Copies(s)' : d # NoRec => Old(s, d)

\* A step that mints nothing.
LEMMA DerivedAgree ==
  ASSUME RecordType, CopiesAgree, Derived, minted' = minted
  PROVE  CopiesAgree' /\ CapStep
<1>1. CapStep
  BY DEF CapStep, Derived, Old, CopiesAgree, SameSession
<1>2. ASSUME NEW s \in Sids, NEW c \in Copies(s)', NEW d \in Copies(s)'
      PROVE  SameSession(c, d)
  BY DEF Derived, Old, CopiesAgree, SameSession
<1>3. ASSUME NEW s \in Sids, s > minted', NEW d \in Copies(s)' PROVE d = NoRec
  BY <1>3 DEF Derived, Old, CopiesAgree
<1> QED
  BY <1>1, <1>2, <1>3 DEF CopiesAgree

\* Nothing is written, or records are dropped.
LEMMA DropDerived ==
  ASSUME RecordType,
         \A s \in Sids : store'[s] \in {store[s], NoRec},
         \A x \in Ports, s \in Sids : mem'[x][s] \in {mem[x][s], store[s], NoRec}
  PROVE  Derived
BY DEF Derived, Old, Copies

\* A record is rewritten in place and saved, or not.
LEMMA RewriteDerived ==
  ASSUME RecordType, NEW x \in Ports, NEW s \in Sids, Own(x, s),
         NEW v \in Rec, v.origin = mem[x][s].origin, v.addr = mem[x][s].addr,
         v.abs = mem[x][s].abs,
         mem' = [mem EXCEPT ![x][s] = v],
         store' = store \/ store' = [store EXCEPT ![s] = v]
  PROVE  Derived
<1>1. mem[x][s] # NoRec /\ mem[x][s] \in Copies(s)
  BY OwnRec DEF Copies
<1>2. \A y \in Ports, t \in Sids : mem'[y][t] = IF y = x /\ t = s THEN v ELSE mem[y][t]
  BY DEF RecordType
<1>3. Old(s, v)
  BY <1>1 DEF Old
<1>4. ASSUME NEW t \in Sids, NEW d \in Copies(t)', d # NoRec PROVE Old(t, d)
  <2>1. (t = s /\ d = v) \/ d \in Copies(t)
    BY <1>2 DEF Copies, RecordType
  <2> QED
    BY <1>3, <1>4, <2>1 DEF Old
<1> QED
  BY <1>4 DEF Derived

\* touch() writes the record at hand, whose cap it leaves alone.
LEMMA TouchDerived ==
  ASSUME RecordType, NEW x \in Ports, NEW s \in Sids, Own(x, s), Touch(x, s)
  PROVE  Derived
<1> DEFINE v == [mem[x][s] EXCEPT !.used = now]
<1>1. mem[x][s] \in Rec
  BY OwnRec
<1>2. /\ v \in Rec /\ v.origin = mem[x][s].origin /\ v.addr = mem[x][s].addr
      /\ v.abs = mem[x][s].abs
  BY <1>1 DEF Rec, RecordType
<1>3. mem' = [mem EXCEPT ![x][s] = v]
  BY DEF Touch
<1>4. store' = [store EXCEPT ![s] = v]
  <2>1. mem'[x][s] = v
    BY <1>3 DEF RecordType
  <2> QED
    BY <2>1 DEF Touch
<1> HIDE DEF v
<1> QED
  BY <1>2, <1>3, <1>4, RewriteDerived

\* restoreSession.
LEMMA LoadDerived ==
  ASSUME RecordType, NEW x \in Ports, NEW s \in Sids \cup {None}, UNCHANGED store,
         mem' = IF s = None THEN mem ELSE [mem EXCEPT ![x][s] = store[s]]
  PROVE  Derived
<1>1. None \notin Sids
  BY NoneAssumption, BoundAssumption DEF Sids
<1>2. CASE s = None
  BY <1>2, DropDerived
<1>3. CASE s \in Sids
  <2>1. \A y \in Ports, t \in Sids : mem'[y][t] \in {mem[y][t], store[t]}
    BY <1>1, <1>3 DEF RecordType
  <2> QED
    BY <2>1, DropDerived
<1> QED
  BY <1>2, <1>3

\* A request at hand has a session of its own port's origin.
LEMMA AtHand ==
  ASSUME IInv, NEW r \in Reqs, InFlight(r), rq[r].kind # "userDisconnect",
         rq[r].sid # None
  PROVE  /\ PortOf[r] \in Ports /\ rq[r].sid \in Sids
         /\ Own(PortOf[r], rq[r].sid)
BY Parts, WiringAssumption DEF RequestType, ReqRec, ReqOK

\* createSession: the one record of a session that had none.
LEMMA CreateAgrees ==
  ASSUME IInv, CopiesAgree, NEW r \in Reqs, CreateSession(r)
  PROVE  CopiesAgree' /\ CapStep
<1> DEFINE x == PortOf[r]
           rec == [origin |-> OriginOf[x], addr |-> rq[r].acct, granted |-> {}, used |-> now,
                   abs |-> now + AbsTTL]
<1>0. x \in Ports /\ minted \in Nat /\ minted + 1 \in Sids
  BY Parts, WiringAssumption, BoundAssumption DEF CreateSession, RecordType, Sids
<1>2. PICK n \in Sids : n = minted + 1
  BY <1>0
<1>1. /\ minted' = n
      /\ store' = [store EXCEPT ![n] = rec]
      /\ mem' = [mem EXCEPT ![x][n] = rec]
  BY <1>2 DEF CreateSession
<1>3. \A t \in Sids : t \in Int
  BY DEF Sids
<1> HIDE DEF rec
<1>4. \A t \in Sids : /\ store'[t] = IF t = n THEN rec ELSE store[t]
                      /\ \A y \in Ports : mem'[y][t] = IF y = x /\ t = n THEN rec ELSE mem[y][t]
  BY <1>0, <1>1, Parts DEF RecordType
<1>5. \A c \in Copies(n) : c = NoRec
  BY <1>0, <1>2 DEF CopiesAgree
<1>6. ASSUME NEW t \in Sids, t # n PROVE Copies(t)' = Copies(t)
  BY <1>4, <1>6 DEF Copies
<1>7. ASSUME NEW d \in Copies(n)' PROVE d \in {rec, NoRec}
  <2>1. \A y \in Ports : mem[y][n] = NoRec
    BY <1>5 DEF Copies
  <2>2. store'[n] = rec /\ \A y \in Ports : mem'[y][n] \in {rec, NoRec}
    BY <1>4, <2>1
  <2> QED
    BY <2>2 DEF Copies
<1>8. CapStep
  BY <1>2, <1>5, <1>6 DEF CapStep, CopiesAgree, SameSession
<1>9. ASSUME NEW t \in Sids, NEW c \in Copies(t)', NEW d \in Copies(t)'
      PROVE  SameSession(c, d)
  <2>1. CASE t = n
    BY <1>7, <2>1 DEF SameSession
  <2>2. CASE t # n
    BY <1>6, <2>2 DEF CopiesAgree
  <2> QED
    BY <2>1, <2>2
<1>10. ASSUME NEW t \in Sids, t > minted', NEW c \in Copies(t)' PROVE c = NoRec
  <2>1. t # n /\ t > minted
    BY <1>0, <1>1, <1>2, <1>3, <1>10
  <2> QED
    BY <1>6, <1>10, <2>1 DEF CopiesAgree
<1> QED
  BY <1>8, <1>9, <1>10 DEF CopiesAgree

\* Nothing is written.
LEMMA StillDerived ==
  ASSUME IInv, UNCHANGED <<store_vars, mem>>
  PROVE  Derived /\ minted' = minted
BY Parts, DropDerived DEF store_vars

\* The steps of a request but the creation of a session.
LEMMA RequestDerived ==
  ASSUME IInv, NEW r \in Reqs, Arrive(r) \/ Continue(r) \/ Decide(r), ~CreateSession(r)
  PROVE  Derived /\ minted' = minted
<1>0. PortOf[r] \in Ports /\ None \notin Sids
  BY WiringAssumption, NoneAssumption, BoundAssumption DEF Sids
<1>1. CASE \/ ArriveLocked(r) \/ Reconnect(r) \/ ConnectTrusted(r) \/ AskConnect(r)
           \/ KeyedFresh(r) \/ SetSession(r) \/ ReplyConnect(r) \/ EndSession(r)
           \/ ExpireSession(r) \/ Read(r) \/ Sign(r) \/ NonceArrived(r) \/ ReplySigned(r)
           \/ ApproveConnect(r) \/ Reject(r)
  <2>1. UNCHANGED <<store_vars, mem>>
    BY <1>1 DEF ArriveLocked, Reconnect, ConnectTrusted, AskConnect, KeyedFresh, SetSession,
       ReplyConnect, EndSession, ExpireSession, Read, Sign, NonceArrived, ReplySigned,
       ApproveConnect, Reject, store_vars, conn_vars
  <2> QED
    BY <2>1, StillDerived
<1>2. CASE StartConnect(r)
  BY <1>0, <1>2, Parts, LoadDerived DEF StartConnect, store_vars
<1>3. CASE StartDisconnect(r)
  <2>1. /\ store' = store \/ store' = [store EXCEPT ![session[PortOf[r]]] = NoRec]
        /\ mem' = mem /\ minted' = minted
    BY <1>3 DEF StartDisconnect, conn_vars
  <2>2. \A s \in Sids : store'[s] \in {store[s], NoRec}
    BY <2>1, Parts DEF RecordType
  <2> QED
    BY <2>1, <2>2, Parts, DropDerived
<1>4. CASE StartUse(r)
  <2> DEFINE x == PortOf[r]
             s == session[x]
  <2>1. /\ minted' = minted
        /\ \/ UNCHANGED <<store, mem>>
           \/ store' = [store EXCEPT ![s] = NoRec] /\ UNCHANGED mem
           \/ s # None /\ Touch(x, s)
    BY <1>4 DEF StartUse, Touch
  <2>2. CASE UNCHANGED <<store, mem>>
    BY <2>1, <2>2, StillDerived DEF store_vars
  <2>3. CASE store' = [store EXCEPT ![s] = NoRec] /\ UNCHANGED mem
    <3>1. \A t \in Sids : store'[t] \in {store[t], NoRec}
      BY <2>3, Parts DEF RecordType
    <3> QED
      BY <2>1, <2>3, <3>1, Parts, DropDerived
  <2>4. CASE s # None /\ Touch(x, s)
    <3>1. s \in Sids /\ Own(x, s)
      BY <1>0, <2>4, Parts DEF HandlerType, PortOK
    <3> QED
      BY <1>0, <2>1, <2>4, <3>1, Parts, TouchDerived
  <2> QED
    BY <2>1, <2>2, <2>3, <2>4
<1>5. CASE KeyedRestored(r) \/ TouchCreated(r)
  <2>1. /\ minted' = minted /\ Touch(PortOf[r], rq[r].sid)
        /\ rq[r].pc \in {"keyed", "created"} /\ (rq[r].pc = "keyed" => rq[r].sid # None)
    BY <1>5 DEF KeyedRestored, TouchCreated
  <2>2. rq[r].sid \in Sids /\ Own(PortOf[r], rq[r].sid)
    BY <1>0, <2>1, Parts DEF ReqOK, SidPCs, InFlight, RequestType, ReqRec
  <2> QED
    BY <1>0, <2>1, <2>2, Parts, TouchDerived
<1>6. CASE ApproveSign(r)
  <2> DEFINE x == PortOf[r]
             s == rq[r].sid
             v == [mem[x][s] EXCEPT !.granted = @ \cup {rq[r].kind}]
  <2>1. s \in Sids /\ Own(x, s)
    BY <1>6, Parts DEF ApproveSign, Prompted, ReqOK, InFlight, SignKinds
  <2>2. mem[x][s] \in Rec
    BY <1>0, <2>1, Parts, OwnRec
  <2>3. /\ v \in Rec /\ v.origin = mem[x][s].origin /\ v.addr = mem[x][s].addr
        /\ v.abs = mem[x][s].abs
    BY <1>6, <2>2 DEF Rec, ApproveSign
  <2>4. mem' = [mem EXCEPT ![x][s] = v] /\ minted' = minted
    BY <1>6 DEF ApproveSign
  <2>5. store' = store \/ store' = [store EXCEPT ![s] = v]
    <3>1. mem'[x][s] = v
      BY <1>0, <2>1, <2>4, Parts DEF RecordType
    <3> QED
      BY <1>6, <3>1 DEF ApproveSign
  <2> HIDE DEF v
  <2> QED
    BY <1>0, <2>1, <2>3, <2>4, <2>5, Parts, RewriteDerived
<1> QED
  BY <1>1, <1>2, <1>3, <1>4, <1>5, <1>6 DEF Arrive, Continue, Decide

\* Every other step drops records, loads them, or leaves them alone.
LEMMA OtherDerived ==
  ASSUME IInv,
         \/ \E w \in Windows : PinSubmit(w) \/ PinVerified(w) \/ PinWrong(w) \/ PinCancel(w)
         \/ \E x \in Ports : Handoff(x) \/ Adopt(x) \/ AdoptSession(x) \/ ClosePopup(x)
         \/ Lock \/ TearDown \/ Tick
         \/ \E a \in Accounts : SetWallet(a)
         \/ \E s \in Sids : Revoke(s)
         \/ \E o \in Origins : Untrust(o)
         \/ UNCHANGED vars
  PROVE  Derived /\ minted' = minted
<1>1. ASSUME NEW x \in Ports, Handoff(x) PROVE Derived /\ minted' = minted
  <2>1. /\ mem' = [mem EXCEPT ![x] = [s \in Sids |-> NoRec]]
        /\ store' = store /\ minted' = minted
    BY <1>1 DEF Handoff, store_vars
  <2>2. \A y \in Ports, s \in Sids : mem'[y][s] \in {mem[y][s], NoRec}
    BY <2>1, Parts DEF RecordType
  <2> QED
    BY <2>1, <2>2, Parts, DropDerived
<1>2. ASSUME NEW x \in Ports, Adopt(x) PROVE Derived /\ minted' = minted
  BY <1>2, Parts, LoadDerived DEF Adopt, store_vars
<1>3. ASSUME NEW s \in Sids, Revoke(s) PROVE Derived /\ minted' = minted
  <2>1. \A t \in Sids : store'[t] \in {store[t], NoRec}
    BY <1>3, Parts DEF Revoke, RecordType
  <2> QED
    BY <1>3, <2>1, Parts, DropDerived DEF Revoke, conn_vars
<1>4. ASSUME \/ \E w \in Windows :
                  PinSubmit(w) \/ PinVerified(w) \/ PinWrong(w) \/ PinCancel(w)
             \/ \E x \in Ports : AdoptSession(x) \/ ClosePopup(x)
             \/ Lock \/ TearDown \/ Tick
             \/ \E a \in Accounts : SetWallet(a)
             \/ \E o \in Origins : Untrust(o)
             \/ UNCHANGED vars
      PROVE  Derived /\ minted' = minted
  <2>1. UNCHANGED <<store_vars, mem>>
    BY <1>4 DEF PinSubmit, PinVerified, PinWrong, PinCancel, AdoptSession, ClosePopup, Lock,
       TearDown, Tick, SetWallet, Untrust, vars, store_vars, conn_vars
  <2> QED
    BY <2>1, StillDerived
<1> QED
  BY <1>1, <1>2, <1>3, <1>4

LEMMA NextAgrees == IInv /\ CopiesAgree /\ [Next]_vars => CopiesAgree' /\ CapStep
<1> SUFFICES ASSUME IInv, CopiesAgree, [Next]_vars PROVE CopiesAgree' /\ CapStep
  OBVIOUS
<1>1. CASE \E r \in Reqs : CreateSession(r)
  BY <1>1, CreateAgrees
<1>2. CASE ~\E r \in Reqs : CreateSession(r)
  <2>1. Derived /\ minted' = minted
    BY <1>2, RequestDerived, OtherDerived DEF Next
  <2> QED
    BY <2>1, Parts, DerivedAgree
<1> QED
  BY <1>1, <1>2

\* All the copies of a session, in the store and in every handler, agree on
\* what it is bound to and until when.
THEOREM CopiesOfOneSession == Spec => [](IInv /\ CopiesAgree)
<1>1. Init => CopiesAgree
  BY DEF Init, CopiesAgree, Copies, SameSession
<1> QED
  BY <1>1, NextAgrees, InitIInv, NextIInv, PTL DEF Spec

\* Whatever touches, grants, reconnects, handoffs and writes of stale copies
\* there are, a session's origin, account and absolute deadline stay those of
\* createSession.
THEOREM CapNeverMoves == Spec => CapIsFixed
<1>1. IInv /\ CopiesAgree /\ [Next]_vars
        => [\A s \in Sids : \A c \in Copies(s), d \in Copies(s)' : SameSession(c, d)]_vars
  BY NextAgrees DEF CapStep
<1> QED
  BY <1>1, CopiesOfOneSession, PTL DEF Spec, CapIsFixed

-----------------------------------------------------------------------------
(* Ended sessions.                                                         *)

\* A session is saved, or some code still works under it.
Alive(s) == store[s] # NoRec \/ \E x \in Ports : Holds(x, s)

\* What EndedStaysEnded says of a step.
EndStep ==
  \A s \in 1..minted :
    store[s] = NoRec /\ (\A x \in Ports : ~Holds(x, s))
      => store'[s] = NoRec /\ \A x \in Ports : ~Holds(x, s)'

\* A step may work under, or save, a session that is alive or not minted yet.
Usable(s) == s \in 1..minted => Alive(s)

\* No session may always be worked under.
LEMMA NoneUsable == ASSUME IInv PROVE Usable(None)
BY Parts, NoneAssumption DEF Usable, RecordType

\* Whoever works under a session after a step did so before it, or works under
\* the one session s of the step.
LEMMA UnderOne ==
  ASSUME IInv, NEW s, Usable(s),
         \A t \in Sids : store'[t] # NoRec => store[t] # NoRec \/ t = s,
         \A x \in Ports : session'[x] \in {session[x], None, s},
         \A x \in Ports : adopting'[x] \in {adopting[x], 0, s},
         \A r \in Reqs : InFlight(r)' /\ rq'[r].kind # "userDisconnect" =>
           \/ rq'[r].sid \in {None, s}
           \/ rq'[r].sid = rq[r].sid /\ InFlight(r) /\ rq[r].kind # "userDisconnect"
  PROVE  EndStep
<1> SUFFICES ASSUME NEW t \in 1..minted, Alive(t)' PROVE Alive(t)
  BY DEF EndStep, Alive
<1>0. t \in Sids /\ t # None /\ t # 0
  <2>1. t \in Int /\ t > 0 /\ t \in Sids
    BY Parts, BoundAssumption DEF RecordType, Sids
  <2>2. None \notin Int
    BY NoneAssumption
  <2> QED
    BY <2>1, <2>2
<1>1. CASE t = s
  BY <1>1 DEF Usable
<1>2. CASE t # s
  <2>1. CASE store'[t] # NoRec
    BY <1>0, <1>2, <2>1 DEF Alive
  <2>2. ASSUME NEW x \in Ports, Holds(x, t)' PROVE Alive(t)
    <3>1. CASE session'[x] = t
      BY <1>0, <1>2, <3>1 DEF Alive, Holds
    <3>2. CASE adopting'[x] = t
      BY <1>0, <1>2, <3>2 DEF Alive, Holds
    <3>3. ASSUME NEW r \in Reqs, PortOf[r] = x, InFlight(r)', rq'[r].sid = t,
                 rq'[r].kind # "userDisconnect"
          PROVE  Alive(t)
      BY <1>0, <1>2, <3>3 DEF Alive, Holds
    <3> QED
      BY <2>2, <3>1, <3>2, <3>3 DEF Holds
  <2> QED
    BY <2>1, <2>2 DEF Alive
<1> QED
  BY <1>1, <1>2

\* The same for the step of one request.
LEMMA RequestUnder ==
  ASSUME IInv, NEW r \in Reqs, NEW s, Usable(s), Others(r), UNCHANGED adopting,
         NEW x \in Ports, NEW e \in {None, s},
         session' = session \/ session' = [session EXCEPT ![x] = e],
         \A t \in Sids : store'[t] # NoRec => store[t] # NoRec \/ t = s,
         \/ rq'[r].pc = "done"
         \/ rq'[r].sid \in {None, s}
         \/ rq'[r].kind = "userDisconnect"
         \/ rq'[r].sid = rq[r].sid /\ InFlight(r) /\ rq'[r].kind = rq[r].kind
  PROVE  EndStep
<1>1. \A y \in Ports : session'[y] \in {session[y], None, s}
  BY Parts DEF HandlerType
<1>2. ASSUME NEW q \in Reqs, InFlight(q)', rq'[q].kind # "userDisconnect"
      PROVE  \/ rq'[q].sid \in {None, s}
             \/ rq'[q].sid = rq[q].sid /\ InFlight(q) /\ rq[q].kind # "userDisconnect"
  BY <1>2 DEF Others, InFlight
<1> QED
  BY <1>1, <1>2, UnderOne

\* What a request works under, what a port holds and what is saved is usable.
LEMMA HeldUsable ==
  ASSUME IInv
  PROVE  /\ \A r \in Reqs : InFlight(r) /\ rq[r].pc # "ending" => Usable(rq[r].sid)
         /\ \A x \in Ports : Usable(session[x]) /\ Usable(adopting[x])
         /\ \A s \in Sids, o \in Origins : Restored(o, s) => Usable(s)
<1>1. ASSUME NEW r \in Reqs, InFlight(r), rq[r].pc # "ending" PROVE Usable(rq[r].sid)
  <2>1. rq[r].kind # "userDisconnect" /\ PortOf[r] \in Ports
    BY <1>1, Parts, WiringAssumption DEF ReqOK
  <2> QED
    BY <1>1, <2>1 DEF Usable, Alive, Holds
<1>2. ASSUME NEW x \in Ports PROVE Usable(session[x]) /\ Usable(adopting[x])
  BY DEF Usable, Alive, Holds
<1>3. ASSUME NEW s \in Sids, NEW o \in Origins, Restored(o, s) PROVE Usable(s)
  <2>1. store[s].origin = o
    BY <1>3, Parts, RestoredRec
  <2> QED
    BY <2>1, NoneAssumption DEF Usable, Alive, NoRec
<1> QED
  BY <1>1, <1>2, <1>3

\* A request ends, and may have dropped its port's session.
LEMMA FinishEnds ==
  ASSUME IInv, NEW r \in Reqs, NEW res, Finish(r, res), UNCHANGED <<store, adopting>>,
         session' = session \/ session' = [session EXCEPT ![PortOf[r]] = None]
  PROVE  EndStep
<1>1. Others(r) /\ rq'[r].pc = "done"
  BY Parts DEF Finish, RequestType, ReqRec, Others
<1>2. PortOf[r] \in Ports
  BY WiringAssumption
<1> QED
  BY <1>1, <1>2, NoneUsable, RequestUnder

\* It goes on under the session it has.
LEMMA GoesOnEnds ==
  ASSUME IInv, NEW r \in Reqs, GoesOn(r), rq'[r].sid = rq[r].sid,
         UNCHANGED <<session, store, adopting>>
  PROVE  EndStep
<1>1. PortOf[r] \in Ports
  BY WiringAssumption
<1> QED
  BY <1>1, NoneUsable, RequestUnder DEF GoesOn

\* ... which it may save and make its port's.
LEMMA WritesEnds ==
  ASSUME IInv, NEW r \in Reqs, InFlight(r), rq[r].pc # "ending", Others(r),
         UNCHANGED adopting,
         rq'[r].pc = "done" \/ rq'[r].sid = rq[r].sid,
         session' = session \/ session' = [session EXCEPT ![PortOf[r]] = rq[r].sid],
         NEW v, store' = store \/ store' = [store EXCEPT ![rq[r].sid] = v]
  PROVE  EndStep
<1>1. PortOf[r] \in Ports /\ Usable(rq[r].sid)
  BY HeldUsable, WiringAssumption
<1>2. \A t \in Sids : store'[t] # NoRec => store[t] # NoRec \/ t = rq[r].sid
  BY Parts DEF RecordType
<1> QED
  BY <1>1, <1>2, RequestUnder

\* A call arrives under the session its port has.
LEMMA ArriveEnds ==
  ASSUME IInv, NEW r \in Reqs, Arrive(r) PROVE EndStep
<1> DEFINE x == PortOf[r]
<1>0. x \in Ports
  BY WiringAssumption
<1>1. CASE ArriveLocked(r)
  <2>1. PICK k \in Kinds : Answer(r, k, "locked")
    BY <1>1 DEF ArriveLocked
  <2>2. Others(r) /\ rq'[r].pc = "done"
    BY <2>1, Parts DEF Answer, Started, RequestType, Others
  <2>3. UNCHANGED <<store, session, adopting>>
    BY <1>1 DEF ArriveLocked, store_vars, conn_vars
  <2> QED
    BY <1>0, <2>2, <2>3, NoneUsable, RequestUnder
<1>2. CASE StartConnect(r)
  <2>1. PICK s \in Sids \cup {None} :
          Restored(OriginOf[x], s) /\ Begin(r, "connect", "restored", s)
    BY <1>2 DEF StartConnect
  <2>2. Others(r) /\ rq'[r].sid = s
    BY <2>1, Parts DEF Begin, Started, RequestType, Others
  <2>3. Usable(s)
    BY <1>0, <2>1, NoneUsable, HeldUsable, WiringAssumption
  <2>4. UNCHANGED <<store, session, adopting>>
    BY <1>2 DEF StartConnect, store_vars
  <2> QED
    BY <1>0, <2>2, <2>3, <2>4, RequestUnder
<1>3. CASE StartDisconnect(r)
  <2>1. PICK k \in EndKinds : Answer(r, k, "ok") \/ Begin(r, k, "ending", session[x])
    BY <1>3 DEF StartDisconnect
  <2>2. Others(r) /\ (rq'[r].pc = "done" \/ rq'[r].sid = session[x])
    BY <2>1, Parts DEF Answer, Begin, Started, RequestType, Others
  <2>3. /\ UNCHANGED <<session, adopting>>
        /\ store' = store \/ store' = [store EXCEPT ![session[x]] = NoRec]
    BY <1>3 DEF StartDisconnect, conn_vars
  <2>4. \A t \in Sids : store'[t] # NoRec => store[t] # NoRec
    BY <2>3, Parts DEF RecordType
  <2>5. Usable(session[x])
    BY <1>0, HeldUsable
  <2> QED
    BY <1>0, <2>2, <2>3, <2>4, <2>5, RequestUnder
<1>4. CASE StartUse(r)
  <2>1. PICK k \in ReadKinds \cup SignKinds :
          \/ Answer(r, k, "unauthorized")
          \/ Begin(r, k, "expiring", session[x])
          \/ Begin(r, k, "touched", session[x])
    BY <1>4 DEF StartUse
  <2>2. Others(r) /\ (rq'[r].pc = "done" \/ rq'[r].sid = session[x])
    BY <2>1, Parts DEF Answer, Begin, Started, RequestType, Others
  <2>3. /\ UNCHANGED <<session, adopting>>
        /\ \E v : store' = store \/ store' = [store EXCEPT ![session[x]] = v]
    BY <1>4 DEF StartUse
  <2>4. \A t \in Sids : store'[t] # NoRec => store[t] # NoRec \/ t = session[x]
    BY <2>3, Parts DEF RecordType
  <2>5. Usable(session[x])
    BY <1>0, HeldUsable
  <2> QED
    BY <1>0, <2>2, <2>3, <2>4, <2>5, RequestUnder
<1> QED
  BY <1>1, <1>2, <1>3, <1>4 DEF Arrive

\* A connect is given an account, under the session it had.
LEMMA BindEnds ==
  ASSUME IInv, NEW r \in Reqs, NEW a, InFlight(r), BindAccount(r, a),
         UNCHANGED <<session, store, adopting>>
  PROVE  EndStep
<1>1. GoesOn(r) /\ rq'[r].sid = rq[r].sid
  BY Parts DEF BindAccount, GoesOn, RequestType, ReqRec, Others
<1> QED
  BY <1>1, GoesOnEnds

\* A connect works under the session it looked up while that was alive.
LEMMA ConnectEnds ==
  ASSUME IInv, NEW r \in Reqs,
         \/ Reconnect(r) \/ ConnectTrusted(r) \/ AskConnect(r) \/ KeyedRestored(r)
         \/ KeyedFresh(r) \/ TouchCreated(r) \/ SetSession(r) \/ ReplyConnect(r)
         \/ ApproveConnect(r)
  PROVE  EndStep
<1>1. CASE Reconnect(r) \/ ConnectTrusted(r) \/ ApproveConnect(r)
  <2>1. PICK a : BindAccount(r, a)
    BY <1>1 DEF Reconnect, ConnectTrusted, ApproveConnect
  <2>2. InFlight(r) /\ UNCHANGED <<session, store, adopting>>
    BY <1>1 DEF Reconnect, ConnectTrusted, ApproveConnect, Prompted, InFlight, store_vars
  <2> QED
    BY <2>1, <2>2, BindEnds
<1>2. CASE AskConnect(r)
  <2>1. GoesOn(r) /\ rq'[r].sid = rq[r].sid
    BY <1>2, Parts DEF AskConnect, GoesOn, RequestType, ReqRec, Others, InFlight
  <2> QED
    BY <1>2, <2>1, GoesOnEnds DEF AskConnect, store_vars, conn_vars
<1>3. CASE KeyedRestored(r) \/ TouchCreated(r)
  <2>1. /\ InFlight(r) /\ rq[r].pc # "ending" /\ rq' = [rq EXCEPT ![r].pc = "bound"]
        /\ UNCHANGED <<session, adopting>>
        /\ \E v : store' = [store EXCEPT ![rq[r].sid] = v]
    BY <1>3 DEF KeyedRestored, TouchCreated, Touch, InFlight
  <2>2. Others(r) /\ rq'[r].sid = rq[r].sid
    BY <2>1, Parts DEF RequestType, ReqRec, Others
  <2> QED
    BY <2>1, <2>2, WritesEnds
<1>4. CASE KeyedFresh(r)
  <2>1. InFlight(r) /\ UNCHANGED <<session, store, adopting>>
    BY <1>4 DEF KeyedFresh, InFlight, store_vars
  <2>2. CASE Finish(r, "rejected")
    BY <2>1, <2>2, FinishEnds
  <2>3. CASE rq' = [rq EXCEPT ![r].pc = "chain"]
    <3>1. GoesOn(r) /\ rq'[r].sid = rq[r].sid
      BY <2>1, <2>3, Parts DEF GoesOn, RequestType, ReqRec, Others
    <3> QED
      BY <2>1, <3>1, GoesOnEnds
  <2> QED
    BY <1>4, <2>2, <2>3 DEF KeyedFresh
<1>5. CASE SetSession(r)
  <2>1. /\ InFlight(r) /\ rq[r].pc # "ending"
        /\ UNCHANGED <<store, adopting>>
        /\ session' = [session EXCEPT ![PortOf[r]] = rq[r].sid]
    BY <1>5 DEF SetSession, InFlight, store_vars
  <2>2. Others(r) /\ rq'[r].sid = rq[r].sid
    BY <1>5, Parts DEF SetSession, RequestType, ReqRec, Others
  <2> QED
    BY <2>1, <2>2, WritesEnds
<1>6. CASE ReplyConnect(r)
  BY <1>6, FinishEnds DEF ReplyConnect, store_vars, conn_vars
<1> QED
  BY <1>1, <1>2, <1>3, <1>4, <1>5, <1>6

\* Calls under a session end it or leave it as it was.
LEMMA UseEnds ==
  ASSUME IInv, NEW r \in Reqs,
         \/ EndSession(r) \/ ExpireSession(r) \/ Read(r) \/ Sign(r) \/ NonceArrived(r)
         \/ ReplySigned(r) \/ ApproveSign(r) \/ Reject(r)
  PROVE  EndStep
<1>1. CASE EndSession(r) \/ ExpireSession(r) \/ Reject(r)
  <2>1. (\E res : Finish(r, res)) /\ UNCHANGED <<store, adopting>>
    BY <1>1 DEF EndSession, ExpireSession, Reject, store_vars
  <2>2. session' = session \/ session' = [session EXCEPT ![PortOf[r]] = None]
    BY <1>1 DEF EndSession, ExpireSession, Reject, conn_vars
  <2> QED
    BY <2>1, <2>2, FinishEnds
<1>2. CASE Read(r) \/ Sign(r) \/ ReplySigned(r)
  <2>1. /\ InFlight(r) /\ rq[r].pc # "ending" /\ UNCHANGED <<store, adopting>>
        /\ session' = [session EXCEPT ![PortOf[r]] = rq[r].sid]
    BY <1>2 DEF Read, Sign, ReplySigned, Resume, InFlight, store_vars
  <2>2. Others(r) /\ (rq'[r].pc = "done" \/ rq'[r].sid = rq[r].sid)
    <3>1. CASE Read(r) \/ ReplySigned(r)
      BY <3>1, Parts DEF Read, ReplySigned, Finish, RequestType, ReqRec, Others
    <3>2. CASE Sign(r)
      BY <3>2, Parts DEF Sign, Finish, RequestType, ReqRec, Others
    <3> QED
      BY <1>2, <3>1, <3>2
  <2> QED
    BY <2>1, <2>2, WritesEnds
<1>3. CASE NonceArrived(r)
  <2>1. InFlight(r) /\ UNCHANGED <<session, store, adopting>>
    BY <1>3 DEF NonceArrived, InFlight, store_vars, conn_vars
  <2>2. CASE Finish(r, "internal")
    BY <2>1, <2>2, FinishEnds
  <2>3. CASE rq' = [rq EXCEPT ![r].pc = "approve"]
    <3>1. GoesOn(r) /\ rq'[r].sid = rq[r].sid
      BY <2>1, <2>3, Parts DEF GoesOn, RequestType, ReqRec, Others
    <3> QED
      BY <2>1, <3>1, GoesOnEnds
  <2> QED
    BY <1>3, <2>2, <2>3 DEF NonceArrived
<1>4. CASE ApproveSign(r)
  <2>1. /\ InFlight(r) /\ rq[r].pc # "ending" /\ rq' = [rq EXCEPT ![r].pc = "granted"]
        /\ UNCHANGED <<session, adopting>>
        /\ \E v : store' = store \/ store' = [store EXCEPT ![rq[r].sid] = v]
    BY <1>4 DEF ApproveSign, Prompted, InFlight
  <2>2. Others(r) /\ rq'[r].sid = rq[r].sid
    BY <2>1, Parts DEF RequestType, ReqRec, Others
  <2> QED
    BY <2>1, <2>2, WritesEnds
<1> QED
  BY <1>1, <1>2, <1>3, <1>4

\* A session that is created has a number no session had.
LEMMA CreateEnds ==
  ASSUME IInv, NEW r \in Reqs, CreateSession(r) PROVE EndStep
<1>1. PICK n \in Nat : n = minted + 1
  BY Parts, BoundAssumption DEF RecordType
<1>2. Usable(n)
  BY <1>1, Parts DEF Usable, RecordType
<1>3. /\ InFlight(r) /\ UNCHANGED <<session, adopting>>
      /\ \E v : store' = [store EXCEPT ![n] = v]
      /\ rq' = [rq EXCEPT ![r].pc = "created", ![r].sid = n]
  BY <1>1 DEF CreateSession, InFlight
<1>4. \A t \in Sids : store'[t] # NoRec => store[t] # NoRec \/ t = n
  BY <1>3, Parts DEF RecordType
<1>5. Others(r) /\ rq'[r].sid = n
  BY <1>3, Parts DEF RequestType, ReqRec, Others
<1>6. PortOf[r] \in Ports
  BY WiringAssumption
<1> QED
  BY <1>2, <1>3, <1>4, <1>5, <1>6, RequestUnder

\* Nothing that a session could come back through is touched.
LEMMA StillEnds ==
  ASSUME IInv, UNCHANGED <<session, adopting>>,
         \A t \in Sids : store'[t] # NoRec => store[t] # NoRec,
         \A r \in Reqs : InFlight(r)' =>
           rq'[r].sid = rq[r].sid /\ InFlight(r) /\ rq[r].kind = rq'[r].kind
  PROVE  EndStep
BY NoneUsable, UnderOne

\* PIN prompts touch no session.
LEMMA PinEnds ==
  ASSUME IInv, NEW w \in Windows,
         PinSubmit(w) \/ PinVerified(w) \/ PinWrong(w) \/ PinCancel(w)
  PROVE  EndStep
<1>1. UNCHANGED <<store, session, adopting>>
  BY DEF PinSubmit, PinVerified, PinWrong, PinCancel, store_vars, conn_vars
<1>2. CASE PinSubmit(w) \/ PinWrong(w)
  BY <1>1, <1>2, StillEnds DEF PinSubmit, PinWrong, InFlight
<1>3. CASE PinVerified(w)
  <2> DEFINE r == IF w = Main THEN pin[Main] ELSE verifying[w]
             a == rq[verifying[w]].acct
  <2>1. /\ verifying[w] # None
        /\ rq' = IF r = None THEN rq ELSE [rq EXCEPT ![r].pc = "keyed", ![r].signer = a]
    BY <1>3 DEF PinVerified
  <2>2. CASE r = None
    BY <1>1, <2>1, <2>2, StillEnds DEF InFlight
  <2>3. CASE r # None
    <3>1. r \in Reqs /\ rq[r].pc = "pin"
      BY <2>1, <2>3, Parts, MainAssumption DEF HostType, PinShape, Windows
    <3>2. rq' = [rq EXCEPT ![r].pc = "keyed", ![r].signer = a]
      BY <2>1, <2>3
    <3> HIDE DEF r, a
    <3>3. GoesOn(r) /\ rq'[r].sid = rq[r].sid
      BY <3>1, <3>2, Parts DEF GoesOn, RequestType, ReqRec, Others, InFlight
    <3> QED
      BY <1>1, <3>1, <3>3, GoesOnEnds
  <2> QED
    BY <2>2, <2>3
<1>4. CASE PinCancel(w)
  <2> DEFINE r == pin[w]
  <2>1. r \in Reqs /\ rq[r].pc = "pin"
    BY <1>4, Parts DEF PinCancel, HostType, PinShape
  <2>2. rq' = [rq EXCEPT ![r].pc = "keyed"]
    BY <1>4 DEF PinCancel
  <2> HIDE DEF r
  <2>3. GoesOn(r) /\ rq'[r].sid = rq[r].sid
    BY <2>1, <2>2, Parts DEF GoesOn, RequestType, ReqRec, Others, InFlight
  <2> QED
    BY <1>1, <2>1, <2>3, GoesOnEnds
<1> QED
  BY <1>2, <1>3, <1>4

\* A port that moves or closes takes its session along or drops it.
LEMMA PortEnds ==
  ASSUME IInv, NEW x \in Ports, Handoff(x) \/ Adopt(x) \/ AdoptSession(x) \/ ClosePopup(x)
  PROVE  EndStep
<1>1. CASE Handoff(x)
  <2>1. UNCHANGED <<store, rq, adopting>> /\ session' = [session EXCEPT ![x] = None]
    BY <1>1 DEF Handoff, store_vars
  <2>2. \A y \in Ports : session'[y] \in {session[y], None}
    BY <2>1, Parts DEF HandlerType
  <2> QED
    BY <2>1, <2>2, NoneUsable, UnderOne DEF InFlight
<1>2. CASE Adopt(x)
  <2>1. PICK s \in Sids \cup {None} :
          Restored(OriginOf[x], s) /\ adopting' = [adopting EXCEPT ![x] = s]
    BY <1>2 DEF Adopt
  <2>2. UNCHANGED <<store, rq, session>>
    BY <1>2 DEF Adopt, store_vars
  <2>3. \A y \in Ports : adopting'[y] \in {adopting[y], s}
    BY <2>1, Parts DEF HandlerType
  <2>4. Usable(s)
    BY <2>1, NoneUsable, HeldUsable, WiringAssumption
  <2> QED
    BY <2>2, <2>3, <2>4, UnderOne DEF InFlight
<1>3. CASE AdoptSession(x)
  <2>1. /\ UNCHANGED <<store, rq>>
        /\ session' = session \/ session' = [session EXCEPT ![x] = adopting[x]]
        /\ adopting' = [adopting EXCEPT ![x] = 0]
    BY <1>3 DEF AdoptSession, store_vars
  <2>2. \A y \in Ports : /\ session'[y] \in {session[y], adopting[x]}
                         /\ adopting'[y] \in {adopting[y], 0}
    BY <2>1, Parts DEF HandlerType
  <2>3. Usable(adopting[x])
    BY HeldUsable
  <2> QED
    BY <2>1, <2>2, <2>3, UnderOne DEF InFlight
<1>4. CASE ClosePopup(x)
  <2>1. /\ UNCHANGED <<store, session, adopting>>
        /\ rq' = [r \in Reqs |-> IF PortOf[r] = x /\ InFlight(r)
                                   THEN [rq[r] EXCEPT !.pc = "done", !.result = "dropped"]
                                   ELSE rq[r]]
    BY <1>4 DEF ClosePopup, store_vars, conn_vars
  <2>2. ASSUME NEW r \in Reqs, InFlight(r)' PROVE rq'[r] = rq[r]
    <3>1. rq[r] \in ReqRec
      BY Parts DEF RequestType
    <3>2. [rq[r] EXCEPT !.pc = "done", !.result = "dropped"].pc = "done"
      BY <3>1 DEF ReqRec
    <3> QED
      BY <2>1, <2>2, <3>2 DEF InFlight
  <2> QED
    BY <2>1, <2>2, StillEnds DEF InFlight
<1> QED
  BY <1>1, <1>2, <1>3, <1>4

\* Every step leaves an ended session ended.
LEMMA NextEnds == IInv /\ [Next]_vars => EndStep
<1> SUFFICES ASSUME IInv, [Next]_vars PROVE EndStep
  OBVIOUS
<1>1. ASSUME NEW r \in Reqs, Arrive(r) \/ Continue(r) \/ Decide(r) PROVE EndStep
  BY <1>1, ArriveEnds, ConnectEnds, UseEnds, CreateEnds DEF Continue, Decide
<1>2. ASSUME NEW w \in Windows,
             PinSubmit(w) \/ PinVerified(w) \/ PinWrong(w) \/ PinCancel(w)
      PROVE  EndStep
  BY <1>2, PinEnds
<1>3. ASSUME NEW x \in Ports, Handoff(x) \/ Adopt(x) \/ AdoptSession(x) \/ ClosePopup(x)
      PROVE  EndStep
  BY <1>3, PortEnds
<1>4. ASSUME NEW s \in Sids, Revoke(s) PROVE EndStep
  <2>1. UNCHANGED <<session, adopting, rq>> /\ store' = [store EXCEPT ![s] = NoRec]
    BY <1>4 DEF Revoke, conn_vars
  <2>2. \A t \in Sids : store'[t] # NoRec => store[t] # NoRec
    BY <2>1, Parts DEF RecordType
  <2> QED
    BY <2>1, <2>2, StillEnds DEF InFlight
<1>5. ASSUME \/ Lock \/ TearDown \/ Tick
             \/ \E a \in Accounts : SetWallet(a)
             \/ \E o \in Origins : Untrust(o)
             \/ UNCHANGED vars
      PROVE  EndStep
  <2>1. UNCHANGED <<store, session, adopting, rq>>
    BY <1>5 DEF Lock, TearDown, Tick, SetWallet, Untrust, vars, store_vars, conn_vars
  <2> QED
    BY <2>1, StillEnds DEF InFlight
<1> QED
  BY <1>1, <1>2, <1>3, <1>4, <1>5 DEF Next

\* A session that was deleted and that no handler, adoption or request works
\* under any more never comes back.
THEOREM EndedForGood == Spec => EndedStaysEnded
<1>1. IInv /\ [Next]_vars
        => [\A s \in 1..minted :
              store[s] = NoRec /\ (\A x \in Ports : ~Holds(x, s))
                => store'[s] = NoRec /\ \A x \in Ports : ~Holds(x, s)']_vars
  BY NextEnds DEF EndStep
<1> QED
  BY <1>1, Inductive, PTL DEF Spec, EndedStaysEnded

-----------------------------------------------------------------------------
(***************************************************************************)
(* The promise.  Beyond IInv the proof needs which method a request at a   *)
(* program counter has called (KindOK): an answer means a connection or a  *)
(* signature only to the method that asked for one.                        *)
(***************************************************************************)

\* The program counters of onConnect alone.
ConnectPCs == {"restored", "pin", "keyed", "chain", "created", "bound", "reply"}
UsePCs     == {"expiring", "touched"}

KindOK(r) ==
  /\ rq[r].pc \in ConnectPCs => rq[r].kind = "connect"
  /\ rq[r].pc = "ending" => rq[r].kind \in EndKinds
  /\ rq[r].pc \in UsePCs => rq[r].kind \in ReadKinds \cup SignKinds
  /\ rq[r].pc \in {"nonce", "granted"} => Signs(r)
  /\ rq[r].pc = "approve" => rq[r].kind = "connect" \/ Signs(r)
  /\ rq[r].pc = "nonce" => rq[r].signer \in Accounts

KindInv == \A r \in Reqs : KindOK(r)

calls == [r \in Reqs |-> CallOf(r)]

\* The user shares an account with the dApp of a request.
HasConsent(r) == \E a \in Accounts : <<OriginOf[PortOf[r]], a>> \in consented

\* A step of the promise, or none.
Kept == Promise!PromiseNext \/ UNCHANGED <<calls, consented>>

Over == [state |-> "over", by |-> None]

-----------------------------------------------------------------------------
(* From the step of one request to the step of the promise.                *)

\* The calls of the other requests stay as they are, ...
LEMMA OneCall ==
  ASSUME NEW r \in Reqs, Others(r)
  PROVE  /\ \A q \in Reqs \ {r} : CallOf(q)' = CallOf(q)
         /\ calls' = [calls EXCEPT ![r] = CallOf(r)']
<1>1. ASSUME NEW q \in Reqs \ {r} PROVE CallOf(q)' = CallOf(q)
  BY DEF Others, CallOf, StateOf, AnswerOf, Signs
<1> QED
  BY <1>1 DEF calls

\* ... and so does what is known of their methods.
LEMMA OneKind ==
  ASSUME KindInv, NEW r \in Reqs, Others(r), KindOK(r)'
  PROVE  KindInv'
BY DEF KindInv, KindOK, Others, Signs

\* A request that is done claims nothing.
LEMMA DoneKind ==
  ASSUME NEW r \in Reqs, rq'[r].pc = "done"
  PROVE  KindOK(r)'
BY DEF KindOK, ConnectPCs, UsePCs

\* A handler goes on from one await to the next.
LEMMA Waits ==
  ASSUME KindInv, NEW r \in Reqs, Others(r), StateOf(r) = "waiting", StateOf(r)' = "waiting",
         KindOK(r)', consented' = consented
  PROVE  KindInv' /\ Kept
<1>1. CallOf(r)' = CallOf(r)
  BY DEF CallOf
<1>2. calls' = calls
  BY <1>1, OneCall DEF calls
<1> QED
  BY <1>2, OneKind DEF Kept

\* A call is over.
LEMMA IsOver ==
  ASSUME KindInv, NEW r \in Reqs, Others(r), StateOf(r) \in {"waiting", "shown", "approved"},
         StateOf(r)' = "over", rq'[r].pc = "done", consented' = consented
  PROVE  KindInv' /\ Kept
<1>1. CallOf(r)' = Over /\ CallOf(r).state = StateOf(r)
  BY DEF CallOf, Over
<1>2. Promise!End({r})
  BY <1>1, OneCall DEF Promise!End, Promise!Ended, Over
<1>3. Promise!PromiseNext
  BY <1>2 DEF Promise!PromiseNext
<1> QED
  BY <1>3, OneKind, DoneKind DEF Kept
\* A call is shown, approved, signed, or its dApp connected.
LEMMA IsShown ==
  ASSUME KindInv, NEW r \in Reqs, Others(r), StateOf(r) = "waiting", StateOf(r)' = "shown",
         rq'[r].signer \in Accounts, HasConsent(r), KindOK(r)', consented' = consented
  PROVE  KindInv' /\ Kept
<1>1. CallOf(r)' = [state |-> "shown", by |-> rq'[r].signer] /\ CallOf(r).state = "waiting"
  BY DEF CallOf
<1>2. Promise!Show(r, rq'[r].signer)
  BY <1>1, OneCall DEF Promise!Show, Promise!HasAccess, HasConsent, calls
<1>3. Promise!PromiseNext
  BY <1>2 DEF Promise!PromiseNext
<1> QED
  BY <1>3, OneKind DEF Kept

LEMMA IsApproved ==
  ASSUME KindInv, NEW r \in Reqs, Others(r), StateOf(r) = "shown", StateOf(r)' = "approved",
         rq'[r].signer = rq[r].signer, KindOK(r)', consented' = consented
  PROVE  KindInv' /\ Kept
<1>1. CallOf(r)' = [CallOf(r) EXCEPT !.state = "approved"] /\ CallOf(r).state = "shown"
  BY DEF CallOf
<1>2. Promise!Approve(r)
  BY <1>1, OneCall DEF Promise!Approve, calls
<1>3. Promise!PromiseNext
  BY <1>2 DEF Promise!PromiseNext
<1> QED
  BY <1>3, OneKind DEF Kept

LEMMA IsSigned ==
  ASSUME KindInv, NEW r \in Reqs, Others(r), StateOf(r) = "approved", StateOf(r)' = "signed",
         rq'[r].signer = rq[r].signer, rq'[r].pc = "done", consented' = consented
  PROVE  KindInv' /\ Kept
<1>1. CallOf(r)' = [CallOf(r) EXCEPT !.state = "signed"] /\ CallOf(r).state = "approved"
  BY DEF CallOf
<1>2. Promise!Sign(r)
  BY <1>1, OneCall DEF Promise!Sign, calls
<1>3. Promise!PromiseNext
  BY <1>2 DEF Promise!PromiseNext
<1> QED
  BY <1>3, OneKind, DoneKind DEF Kept

LEMMA IsConnected ==
  ASSUME KindInv, NEW r \in Reqs, Others(r), StateOf(r) = "waiting", StateOf(r)' = "connected",
         HasConsent(r), rq'[r].pc = "done", consented' = consented
  PROVE  KindInv' /\ Kept
<1>1. CallOf(r)' = [CallOf(r) EXCEPT !.state = "connected"] /\ CallOf(r).state = "waiting"
  BY DEF CallOf
<1>2. Promise!Connect(r)
  BY <1>1, OneCall DEF Promise!Connect, Promise!HasAccess, HasConsent, calls
<1>3. Promise!PromiseNext
  BY <1>2 DEF Promise!PromiseNext
<1> QED
  BY <1>3, OneKind, DoneKind DEF Kept

\* The user shares an account while a connect waits for it.
LEMMA IsShared ==
  ASSUME KindInv, NEW r \in Reqs, Others(r), StateOf(r) = "waiting", StateOf(r)' = "waiting",
         KindOK(r)', NEW o \in Origins, NEW a \in Accounts,
         consented' = consented \cup {<<o, a>>}
  PROVE  KindInv' /\ Kept
<1>1. CallOf(r)' = CallOf(r)
  BY DEF CallOf
<1>2. calls' = calls
  BY <1>1, OneCall DEF calls
<1>3. Promise!Share(o, a)
  BY <1>2 DEF Promise!Share, calls
<1>4. Promise!PromiseNext
  BY <1>3 DEF Promise!PromiseNext
<1> QED
  BY <1>4, OneKind DEF Kept

\* A step that touches no request and no consent.
LEMMA Still ==
  ASSUME KindInv, rq' = rq, consented' = consented
  PROVE  KindInv' /\ Kept
BY DEF KindInv, KindOK, Signs, Kept, calls, CallOf, StateOf, AnswerOf
-----------------------------------------------------------------------------
(* What the parts of a step do to their request.                           *)

LEMMA Answers ==
  ASSUME RequestType, NEW r \in Reqs, NEW k, NEW res, Answer(r, k, res)
  PROVE  Others(r) /\ rq'[r].pc = "done" /\ rq'[r].kind = k /\ rq'[r].result = res
BY DEF Answer, Started, RequestType, Others

LEMMA FinishAnswers ==
  ASSUME RequestType, NEW r \in Reqs, NEW res, Finish(r, res)
  PROVE  /\ Goes(r, "done") /\ rq'[r].signer = rq[r].signer
         /\ rq'[r].result = res \/ rq'[r].result = "dropped"
BY DEF Finish, RequestType, ReqRec, Goes, Others

\* A handler that fails ends its call.
LEMMA Fails ==
  ASSUME IInv, KindInv, NEW r \in Reqs, NEW res, res # "ok", Finish(r, res),
         rq[r].pc # "done", consented' = consented
  PROVE  KindInv' /\ Kept
<1>1. /\ Goes(r, "done") /\ rq'[r].result # "ok"
  BY Parts, FinishAnswers
<1>2. StateOf(r) \in {"waiting", "shown", "approved"} /\ StateOf(r)' = "over"
  BY <1>1 DEF StateOf, AnswerOf, Goes
<1> QED
  BY <1>1, <1>2, IsOver DEF Goes

\* A handler with a session serves a dApp that an account was shared with.
LEMMA SessionConsent ==
  ASSUME IInv, NEW r \in Reqs, InFlight(r), rq[r].pc # "ending", rq[r].sid \in Sids
  PROVE  HasConsent(r)
<1> DEFINE rec == mem[PortOf[r]][rq[r].sid]
<1>1. PortOf[r] \in Ports /\ Own(PortOf[r], rq[r].sid)
  BY Parts, WiringAssumption DEF ReqOK
<1>2. rec \in Rec /\ rec # NoRec /\ rec.origin = OriginOf[PortOf[r]]
  BY <1>1, Parts, OwnRec DEF Own
<1>3. rec \in Copies(rq[r].sid)
  BY <1>1 DEF Copies
<1>4. <<rec.origin, rec.addr>> \in consented
  BY <1>2, <1>3, Parts DEF ConsentedSessions
<1> HIDE DEF rec
<1> QED
  BY <1>2, <1>4 DEF HasConsent, Rec

-----------------------------------------------------------------------------
(* Arrivals.                                                               *)

\* A call that the locked window refuses is over.
LEMMA ArriveLockedKept ==
  ASSUME IInv, KindInv, NEW r \in Reqs, ArriveLocked(r) PROVE KindInv' /\ Kept
<1>1. PICK k \in Kinds : Delivered(r, k) /\ Answer(r, k, "locked")
  BY DEF ArriveLocked
<1>2. consented' = consented
  BY DEF ArriveLocked
<1>3. Others(r) /\ rq'[r].pc = "done" /\ rq'[r].result = "locked"
  BY <1>1, Parts, Answers
<1>4. StateOf(r) = "waiting" /\ StateOf(r)' = "over"
  BY <1>1, <1>3 DEF Delivered, StateOf, AnswerOf
<1> QED
  BY <1>2, <1>3, <1>4, IsOver

LEMMA StartConnectKept ==
  ASSUME IInv, KindInv, NEW r \in Reqs, StartConnect(r) PROVE KindInv' /\ Kept
<1>1. PICK s \in Sids \cup {None} : Begin(r, "connect", "restored", s)
  BY DEF StartConnect
<1>2. rq[r].pc = "new" /\ stage[PortOf[r]] \in Hosts /\ UNCHANGED <<stage, consented>>
  BY DEF StartConnect, Delivered
<1>3. Others(r) /\ rq'[r].pc = "restored" /\ rq'[r].kind = "connect"
  BY <1>1, <1>2, Parts, Begins DEF PCs, Kinds
<1>4. StateOf(r) = "waiting" /\ StateOf(r)' = "waiting"
  BY <1>2, <1>3 DEF StateOf
<1>5. KindOK(r)'
  BY <1>3 DEF KindOK, ConnectPCs, UsePCs
<1> QED
  BY <1>2, <1>3, <1>4, <1>5, Waits

\* A disconnect is answered, or waits for its session to be deleted.
LEMMA StartDisconnectKept ==
  ASSUME IInv, KindInv, NEW r \in Reqs, StartDisconnect(r) PROVE KindInv' /\ Kept
<1>1. PICK k \in EndKinds :
        /\ Delivered(r, k)
        /\ \/ Answer(r, k, "ok")
           \/ /\ session[PortOf[r]] # None
              /\ Begin(r, k, "ending", session[PortOf[r]])
  BY DEF StartDisconnect
<1>2. /\ rq[r].pc = "new" /\ stage[PortOf[r]] \in Hosts /\ UNCHANGED <<stage, consented>>
      /\ StateOf(r) = "waiting"
  BY <1>1 DEF StartDisconnect, Delivered, StateOf
<1>3. k \in Kinds /\ k # "connect" /\ k \notin SignKinds
  BY DEF EndKinds, Kinds, SignKinds
<1>4. CASE Answer(r, k, "ok")
  <2>1. Others(r) /\ rq'[r].pc = "done" /\ rq'[r].kind = k
    BY <1>4, Parts, Answers
  <2>2. StateOf(r)' = "over"
    BY <1>3, <2>1 DEF StateOf, AnswerOf, Signs
  <2> QED
    BY <1>2, <2>1, <2>2, IsOver
<1>5. CASE Begin(r, k, "ending", session[PortOf[r]])
  <2>1. session[PortOf[r]] \in Sids \cup {None}
    BY Parts, WiringAssumption DEF HandlerType
  <2>2. Others(r) /\ rq'[r].pc = "ending" /\ rq'[r].kind = k
    BY <1>2, <1>3, <1>5, <2>1, Parts, Begins DEF PCs
  <2>3. StateOf(r)' = "waiting" /\ KindOK(r)'
    BY <2>2 DEF StateOf, KindOK, ConnectPCs, UsePCs
  <2> QED
    BY <1>2, <2>2, <2>3, Waits
<1> QED
  BY <1>1, <1>4, <1>5

\* A read or a signature is refused, or waits for its session.
LEMMA StartUseKept ==
  ASSUME IInv, KindInv, NEW r \in Reqs, StartUse(r) PROVE KindInv' /\ Kept
<1> DEFINE s == session[PortOf[r]]
<1>1. PICK k \in ReadKinds \cup SignKinds :
        /\ Delivered(r, k)
        /\ \/ Answer(r, k, "unauthorized")
           \/ \E pc \in UsePCs : Begin(r, k, pc, s)
  BY DEF StartUse, UsePCs
<1>2. /\ rq[r].pc = "new" /\ stage[PortOf[r]] \in Hosts /\ UNCHANGED <<stage, consented>>
      /\ StateOf(r) = "waiting"
  BY <1>1 DEF StartUse, Delivered, StateOf
<1>3. k \in Kinds /\ s \in Sids \cup {None}
  BY Parts, WiringAssumption DEF Kinds, HandlerType
<1> HIDE DEF s
<1>4. CASE Answer(r, k, "unauthorized")
  <2>1. Others(r) /\ rq'[r].pc = "done" /\ rq'[r].result = "unauthorized"
    BY <1>4, Parts, Answers
  <2>2. StateOf(r)' = "over"
    BY <2>1 DEF StateOf, AnswerOf
  <2> QED
    BY <1>2, <2>1, <2>2, IsOver
<1>5. ASSUME NEW pc \in UsePCs, Begin(r, k, pc, s) PROVE KindInv' /\ Kept
  <2>1. Others(r) /\ rq'[r].pc = pc /\ rq'[r].kind = k
    BY <1>2, <1>3, <1>5, Parts, Begins DEF PCs, UsePCs
  <2>2. StateOf(r)' = "waiting" /\ KindOK(r)'
    BY <2>1 DEF StateOf, KindOK, ConnectPCs, UsePCs
  <2> QED
    BY <1>2, <2>1, <2>2, Waits
<1> QED
  BY <1>1, <1>4, <1>5
-----------------------------------------------------------------------------
(* onConnect.                                                              *)

\* Binding an account is not seen outside.
LEMMA BindWaits ==
  ASSUME IInv, NEW r \in Reqs, NEW a \in Accounts, rq[r].pc # "pin", BindAccount(r, a),
         rq[r].kind = "connect"
  PROVE  Others(r) /\ StateOf(r)' = "waiting" /\ KindOK(r)'
<1>1. Others(r) /\ rq'[r].pc \in {"keyed", "pin"} /\ rq'[r].kind = "connect"
  BY Parts, Binds
<1> QED
  BY <1>1 DEF StateOf, KindOK, ConnectPCs, UsePCs

LEMMA ReconnectKept ==
  ASSUME IInv, KindInv, NEW r \in Reqs, Reconnect(r) PROVE KindInv' /\ Kept
<1> DEFINE a == mem[PortOf[r]][rq[r].sid].addr
<1>1. rq[r].pc = "restored" /\ rq[r].sid # None /\ BindAccount(r, a) /\ consented' = consented
  BY DEF Reconnect
<1>2. a \in Accounts
  <2>1. PortOf[r] \in Ports /\ rq[r].sid \in Sids /\ Own(PortOf[r], rq[r].sid)
    BY <1>1, Parts, WiringAssumption DEF ReqOK, InFlight, RequestType, ReqRec
  <2> QED
    BY <2>1, Parts, OwnRec DEF Rec
<1> HIDE DEF a
<1>3. rq[r].kind = "connect" /\ StateOf(r) = "waiting"
  BY <1>1 DEF KindInv, KindOK, ConnectPCs, StateOf
<1> QED
  BY <1>1, <1>2, <1>3, BindWaits, Waits

LEMMA ConnectTrustedKept ==
  ASSUME IInv, KindInv, NEW r \in Reqs, ConnectTrusted(r) PROVE KindInv' /\ Kept
<1>1. PICK a \in Accounts :
        /\ rq[r].pc = "restored" /\ BindAccount(r, a)
        /\ consented' = consented \cup {<<OriginOf[PortOf[r]], a>>}
  BY DEF ConnectTrusted
<1>2. rq[r].kind = "connect" /\ StateOf(r) = "waiting"
  BY <1>1 DEF KindInv, KindOK, ConnectPCs, StateOf
<1>3. OriginOf[PortOf[r]] \in Origins
  BY WiringAssumption
<1> QED
  BY <1>1, <1>2, <1>3, BindWaits, IsShared

LEMMA AskConnectKept ==
  ASSUME IInv, KindInv, NEW r \in Reqs, AskConnect(r) PROVE KindInv' /\ Kept
<1>1. /\ rq[r].pc = "restored" /\ rq' = [rq EXCEPT ![r].pc = "approve"]
      /\ consented' = consented
  BY DEF AskConnect
<1>2. rq[r].kind = "connect" /\ StateOf(r) = "waiting"
  BY <1>1 DEF KindInv, KindOK, ConnectPCs, StateOf
<1>3. Goes(r, "approve")
  BY <1>1, Parts DEF RequestType, ReqRec, Goes, Others
<1>4. StateOf(r)' = "waiting" /\ KindOK(r)'
  BY <1>2, <1>3 DEF Goes, StateOf, Signs, SignKinds, KindOK, ConnectPCs, UsePCs
<1> QED
  BY <1>1, <1>2, <1>3, <1>4, Waits DEF Goes

\* The consent that a connection rests on.
LEMMA ApproveConnectKept ==
  ASSUME IInv, KindInv, NEW r \in Reqs, ApproveConnect(r) PROVE KindInv' /\ Kept
<1>1. PICK a \in Accounts :
        /\ rq[r].pc = "approve" /\ rq[r].kind = "connect" /\ BindAccount(r, a)
        /\ consented' = consented \cup {<<OriginOf[PortOf[r]], a>>}
  BY DEF ApproveConnect, Prompted
<1>2. StateOf(r) = "waiting"
  BY <1>1 DEF StateOf, Signs, SignKinds
<1>3. OriginOf[PortOf[r]] \in Origins
  BY WiringAssumption
<1> QED
  BY <1>1, <1>2, <1>3, BindWaits, IsShared

LEMMA RejectKept ==
  ASSUME IInv, KindInv, NEW r \in Reqs, Reject(r) PROVE KindInv' /\ Kept
BY Fails DEF Reject, Prompted

\* A connect that moves from one await to another.
LEMMA ConnectWaits ==
  ASSUME IInv, KindInv, NEW r \in Reqs, rq[r].pc \in ConnectPCs, NEW c \in ConnectPCs,
         Others(r), rq'[r].pc = c, rq'[r].kind = rq[r].kind, consented' = consented
  PROVE  KindInv' /\ Kept
<1>1. rq[r].kind = "connect"
  BY DEF KindInv, KindOK
<1>2. StateOf(r) = "waiting" /\ StateOf(r)' = "waiting" /\ KindOK(r)'
  BY <1>1 DEF StateOf, KindOK, ConnectPCs, UsePCs
<1> QED
  BY <1>2, Waits

LEMMA KeyedRestoredKept ==
  ASSUME IInv, KindInv, NEW r \in Reqs, KeyedRestored(r) PROVE KindInv' /\ Kept
<1>1. /\ rq[r].pc = "keyed" /\ rq' = [rq EXCEPT ![r].pc = "bound"]
      /\ consented' = consented
  BY DEF KeyedRestored
<1>2. Goes(r, "bound")
  BY <1>1, Parts DEF RequestType, ReqRec, Goes, Others
<1> QED
  BY <1>1, <1>2, ConnectWaits DEF Goes, ConnectPCs

LEMMA KeyedFreshKept ==
  ASSUME IInv, KindInv, NEW r \in Reqs, KeyedFresh(r) PROVE KindInv' /\ Kept
<1>1. /\ rq[r].pc = "keyed" /\ consented' = consented
      /\ \/ Finish(r, "rejected")
         \/ rq' = [rq EXCEPT ![r].pc = "chain"]
  BY DEF KeyedFresh
<1>2. CASE Finish(r, "rejected")
  BY <1>1, <1>2, Fails
<1>3. CASE rq' = [rq EXCEPT ![r].pc = "chain"]
  <2>1. Goes(r, "chain")
    BY <1>3, Parts DEF RequestType, ReqRec, Goes, Others
  <2> QED
    BY <1>1, <2>1, ConnectWaits DEF Goes, ConnectPCs
<1> QED
  BY <1>1, <1>2, <1>3

LEMMA CreateSessionKept ==
  ASSUME IInv, KindInv, NEW r \in Reqs, CreateSession(r) PROVE KindInv' /\ Kept
<1>1. /\ rq[r].pc = "chain" /\ consented' = consented
      /\ rq' = [rq EXCEPT ![r].pc = "created", ![r].sid = minted + 1]
  BY DEF CreateSession
<1>2. Others(r) /\ rq'[r].pc = "created" /\ rq'[r].kind = rq[r].kind
  BY <1>1, Parts DEF RequestType, ReqRec, Others
<1> QED
  BY <1>1, <1>2, ConnectWaits DEF ConnectPCs

LEMMA TouchCreatedKept ==
  ASSUME IInv, KindInv, NEW r \in Reqs, TouchCreated(r) PROVE KindInv' /\ Kept
<1>1. /\ rq[r].pc = "created" /\ rq' = [rq EXCEPT ![r].pc = "bound"]
      /\ consented' = consented
  BY DEF TouchCreated
<1>2. Goes(r, "bound")
  BY <1>1, Parts DEF RequestType, ReqRec, Goes, Others
<1> QED
  BY <1>1, <1>2, ConnectWaits DEF Goes, ConnectPCs

LEMMA SetSessionKept ==
  ASSUME IInv, KindInv, NEW r \in Reqs, SetSession(r) PROVE KindInv' /\ Kept
<1> DEFINE x == PortOf[r]
           a == IF currentAccount(x) # None THEN currentAccount(x)
                ELSE mem[x][rq[r].sid].addr
<1>1. /\ rq[r].pc = "bound" /\ consented' = consented
      /\ rq' = [rq EXCEPT ![r].pc = "reply", ![r].acct = a]
  BY DEF SetSession
<1> HIDE DEF a
<1>2. Others(r) /\ rq'[r].pc = "reply" /\ rq'[r].kind = rq[r].kind
  BY <1>1, Parts DEF RequestType, ReqRec, Others
<1> QED
  BY <1>1, <1>2, ConnectWaits DEF ConnectPCs

\* A dApp is told of a connection under a session of its own, which binds an account that
\* was shared with it.
LEMMA ReplyConnectKept ==
  ASSUME IInv, KindInv, NEW r \in Reqs, ReplyConnect(r) PROVE KindInv' /\ Kept
<1>1. /\ rq[r].pc = "reply" /\ consented' = consented
      /\ Finish(r, "internal") \/ Finish(r, "ok")
  BY DEF ReplyConnect
<1>2. rq[r].kind = "connect" /\ StateOf(r) = "waiting" /\ HasConsent(r)
  <2>1. rq[r].kind = "connect" /\ StateOf(r) = "waiting"
    BY <1>1 DEF KindInv, KindOK, ConnectPCs, StateOf
  <2>2. rq[r].sid \in Sids /\ InFlight(r)
    BY <1>1, Parts DEF ReqOK, SidPCs, InFlight
  <2> QED
    BY <1>1, <2>1, <2>2, SessionConsent
<1>3. CASE Finish(r, "internal")
  BY <1>1, <1>3, Fails
<1>4. CASE Finish(r, "ok")
  <2>1. Goes(r, "done")
    BY <1>4, Parts, FinishAnswers
  <2>2. StateOf(r)' \in {"connected", "over"}
    BY <1>2, <2>1 DEF Goes, StateOf, AnswerOf, Signs, SignKinds
  <2> QED
    BY <1>1, <1>2, <2>1, <2>2, IsConnected, IsOver DEF Goes
<1> QED
  BY <1>1, <1>3, <1>4
-----------------------------------------------------------------------------
(* onDisconnect, requireSession's expiry, onRead and onSign.               *)

\* The answer of a disconnect or of a read is no signature.
LEMMA EndSessionKept ==
  ASSUME IInv, KindInv, NEW r \in Reqs, EndSession(r) PROVE KindInv' /\ Kept
<1>1. rq[r].pc = "ending" /\ Finish(r, "ok") /\ consented' = consented
  BY DEF EndSession
<1>2. rq[r].kind \in EndKinds /\ StateOf(r) = "waiting"
  BY <1>1 DEF KindInv, KindOK, StateOf
<1>3. Goes(r, "done")
  BY <1>1, Parts, FinishAnswers
<1>4. StateOf(r)' = "over"
  BY <1>2, <1>3 DEF Goes, StateOf, AnswerOf, Signs, SignKinds, EndKinds
<1> QED
  BY <1>1, <1>2, <1>3, <1>4, IsOver DEF Goes

LEMMA ExpireSessionKept ==
  ASSUME IInv, KindInv, NEW r \in Reqs, ExpireSession(r) PROVE KindInv' /\ Kept
BY Fails DEF ExpireSession

LEMMA ReadKept ==
  ASSUME IInv, KindInv, NEW r \in Reqs, Read(r) PROVE KindInv' /\ Kept
<1> DEFINE res == IF Owns(r) THEN "ok" ELSE "dropped"
           a == IF rq[r].kind = "readAddr" THEN currentAccount(PortOf[r])
                ELSE hostAccount(ReqWin(r))
<1>1. /\ rq[r].pc = "touched" /\ rq[r].kind \in ReadKinds /\ consented' = consented
      /\ rq' = [rq EXCEPT ![r].pc = "done", ![r].result = res, ![r].acct = a]
  BY DEF Read
<1> HIDE DEF res, a
<1>2. Others(r) /\ rq'[r].pc = "done" /\ rq'[r].kind = rq[r].kind
  BY <1>1, Parts DEF RequestType, ReqRec, Others
<1>3. StateOf(r) = "waiting" /\ StateOf(r)' = "over"
  BY <1>1, <1>2 DEF StateOf, AnswerOf, Signs, SignKinds, ReadKinds
<1> QED
  BY <1>1, <1>2, <1>3, IsOver

\* A message is shown at once, a transaction when its nonce is there, both under a session.
LEMMA SignKept ==
  ASSUME IInv, KindInv, NEW r \in Reqs, Sign(r) PROVE KindInv' /\ Kept
<1> DEFINE g == currentWallet(PortOf[r])
           ask == rq[r].kind = "signMsg"
           pc == IF ask THEN "approve" ELSE "nonce"
           n == IF ask THEN None ELSE hostAccount(ReqWin(r))
<1>1. /\ rq[r].pc = "touched" /\ Signs(r) /\ consented' = consented
      /\ \/ \E res \in {"locked", "unauthorized", "internal"} : Finish(r, res)
         \/ /\ g \in Accounts
            /\ rq' = [rq EXCEPT ![r].pc = pc, ![r].signer = g, ![r].nonceOf = n]
  BY DEF Sign, Signs
<1>2. pc \in {"approve", "nonce"}
  OBVIOUS
<1> HIDE DEF g, n, pc
<1>3. CASE \E res \in {"locked", "unauthorized", "internal"} : Finish(r, res)
  BY <1>1, <1>3, Fails
<1>4. CASE /\ g \in Accounts
           /\ rq' = [rq EXCEPT ![r].pc = pc, ![r].signer = g, ![r].nonceOf = n]
  <2>1. Others(r) /\ rq'[r].pc = pc /\ rq'[r].kind = rq[r].kind /\ rq'[r].signer = g
    BY <1>4, Parts DEF RequestType, ReqRec, Others
  <2>2. Signs(r)' /\ StateOf(r) = "waiting"
    BY <1>1, <2>1 DEF Signs, StateOf
  <2>3. KindOK(r)'
    BY <1>2, <1>4, <2>1, <2>2 DEF KindOK, ConnectPCs, UsePCs, Signs
  <2>4. HasConsent(r)
    BY <1>1, Parts, SessionConsent DEF ReqOK, SidPCs, InFlight
  <2>5. StateOf(r)' = IF pc = "approve" THEN "shown" ELSE "waiting"
    BY <1>2, <2>1, <2>2 DEF StateOf
  <2> QED
    BY <1>1, <1>2, <1>4, <2>1, <2>2, <2>3, <2>4, <2>5, IsShown, Waits
<1> QED
  BY <1>1, <1>3, <1>4

LEMMA NonceArrivedKept ==
  ASSUME IInv, KindInv, NEW r \in Reqs, NonceArrived(r) PROVE KindInv' /\ Kept
<1>1. /\ rq[r].pc = "nonce" /\ consented' = consented
      /\ rq' = [rq EXCEPT ![r].pc = "approve"] \/ Finish(r, "internal")
  BY DEF NonceArrived
<1>2. CASE Finish(r, "internal")
  BY <1>1, <1>2, Fails
<1>3. CASE rq' = [rq EXCEPT ![r].pc = "approve"]
  <2>1. Others(r) /\ rq'[r].pc = "approve" /\ rq'[r].kind = rq[r].kind
        /\ rq'[r].signer = rq[r].signer
    BY <1>3, Parts DEF RequestType, ReqRec, Others
  <2>2. Signs(r) /\ rq[r].signer \in Accounts /\ StateOf(r) = "waiting"
    BY <1>1 DEF KindInv, KindOK, StateOf
  <2>3. StateOf(r)' = "shown" /\ KindOK(r)'
    BY <2>1, <2>2 DEF StateOf, KindOK, ConnectPCs, UsePCs, Signs
  <2>4. HasConsent(r)
    BY <1>1, Parts, SessionConsent DEF ReqOK, SidPCs, InFlight
  <2> QED
    BY <1>1, <2>1, <2>2, <2>3, <2>4, IsShown
<1> QED
  BY <1>1, <1>2, <1>3

LEMMA ApproveSignKept ==
  ASSUME IInv, KindInv, NEW r \in Reqs, ApproveSign(r) PROVE KindInv' /\ Kept
<1>1. /\ rq[r].pc = "approve" /\ Signs(r) /\ consented' = consented
      /\ rq' = [rq EXCEPT ![r].pc = "granted"]
  BY DEF ApproveSign, Prompted, Signs
<1>2. Others(r) /\ rq'[r].pc = "granted" /\ rq'[r].kind = rq[r].kind
      /\ rq'[r].signer = rq[r].signer
  BY <1>1, Parts DEF RequestType, ReqRec, Others
<1>3. StateOf(r) = "shown" /\ StateOf(r)' = "approved" /\ KindOK(r)'
  BY <1>1, <1>2 DEF StateOf, KindOK, ConnectPCs, UsePCs, Signs
<1> QED
  BY <1>1, <1>2, <1>3, IsApproved

LEMMA ReplySignedKept ==
  ASSUME IInv, KindInv, NEW r \in Reqs, ReplySigned(r) PROVE KindInv' /\ Kept
<1>1. rq[r].pc = "granted" /\ Finish(r, "ok") /\ consented' = consented
  BY DEF ReplySigned
<1>2. Signs(r) /\ StateOf(r) = "approved"
  BY <1>1 DEF KindInv, KindOK, StateOf
<1>3. Goes(r, "done") /\ rq'[r].signer = rq[r].signer
  BY <1>1, Parts, FinishAnswers
<1>4. StateOf(r)' \in {"signed", "over"}
  BY <1>2, <1>3 DEF Goes, StateOf, AnswerOf, Signs, SignKinds
<1> QED
  BY <1>1, <1>2, <1>3, <1>4, IsSigned, IsOver DEF Goes

-----------------------------------------------------------------------------
(* The windows.                                                            *)

\* A PIN that is typed or given up lets a connect go on.
LEMMA KeysWait ==
  ASSUME IInv, KindInv, NEW r \in Reqs, rq[r].pc = "pin", NEW g,
         rq' = [rq EXCEPT ![r].pc = "keyed", ![r].signer = g], consented' = consented
  PROVE  KindInv' /\ Kept
<1>1. Others(r) /\ rq'[r].pc = "keyed" /\ rq'[r].kind = rq[r].kind
  BY Parts DEF RequestType, ReqRec, Others
<1> QED
  BY <1>1, ConnectWaits DEF ConnectPCs

LEMMA PinVerifiedKept ==
  ASSUME IInv, KindInv, NEW w \in Windows, PinVerified(w) PROVE KindInv' /\ Kept
<1> DEFINE v == verifying[w]
           r == IF w = Main THEN pin[Main] ELSE v
<1>1. /\ v # None /\ consented' = consented
      /\ rq' = IF r = None THEN rq
               ELSE [rq EXCEPT ![r].pc = "keyed", ![r].signer = rq[v].acct]
  BY DEF PinVerified
<1>2. CASE r = None
  BY <1>1, <1>2, Still
<1>3. CASE r # None
  <2>1. r \in Reqs /\ rq[r].pc = "pin"
    BY <1>1, <1>3, Parts DEF HostType, PinShape, Windows
  <2> HIDE DEF r, v
  <2> QED
    BY <1>1, <1>3, <2>1, KeysWait
<1> QED
  BY <1>2, <1>3

LEMMA PinCancelKept ==
  ASSUME IInv, KindInv, NEW w \in Windows, PinCancel(w) PROVE KindInv' /\ Kept
<1> DEFINE r == pin[w]
<1>1. r # None /\ rq' = [rq EXCEPT ![r].pc = "keyed"] /\ consented' = consented
  BY DEF PinCancel
<1>2. r \in Reqs /\ rq[r].pc = "pin"
  BY <1>1, Parts DEF HostType, PinShape
<1> HIDE DEF r
<1>3. Goes(r, "keyed")
  BY <1>1, <1>2, Parts DEF RequestType, ReqRec, Goes, Others
<1> QED
  BY <1>1, <1>2, <1>3, ConnectWaits DEF Goes, ConnectPCs

\* A popup that goes away ends the calls it was serving.
LEMMA ClosePopupKept ==
  ASSUME IInv, KindInv, NEW x \in Ports, ClosePopup(x) PROVE KindInv' /\ Kept
<1> DEFINE gone(r) == PortOf[r] = x /\ InFlight(r)
           C == {r \in Reqs : gone(r)}
<1>1. /\ consented' = consented
      /\ rq' = [r \in Reqs |-> IF gone(r)
                                 THEN [rq[r] EXCEPT !.pc = "done", !.result = "dropped"]
                                 ELSE rq[r]]
  BY DEF ClosePopup
<1>2. ASSUME NEW r \in Reqs
      PROVE  /\ gone(r) => rq'[r].pc = "done" /\ rq'[r].result = "dropped"
             /\ ~gone(r) => rq'[r] = rq[r]
  <2>1. /\ [rq[r] EXCEPT !.pc = "done", !.result = "dropped"].pc = "done"
        /\ [rq[r] EXCEPT !.pc = "done", !.result = "dropped"].result = "dropped"
    BY Parts DEF RequestType, ReqRec
  <2> HIDE DEF gone
  <2> QED
    BY <1>1, <2>1
<1>3. ASSUME NEW r \in C
      PROVE  CallOf(r)' = Over /\ CallOf(r).state \notin Promise!Ended /\ KindOK(r)'
  <2>1. rq[r].pc # "done" /\ rq'[r].pc = "done" /\ rq'[r].result = "dropped"
    BY <1>2, <1>3 DEF InFlight
  <2>2. CallOf(r)' = Over
    BY <2>1 DEF CallOf, Over, StateOf, AnswerOf
  <2>3. CallOf(r).state \notin Promise!Ended
    BY <2>1 DEF CallOf, StateOf, Promise!Ended
  <2> QED
    BY <2>1, <2>2, <2>3, DoneKind
<1>4. ASSUME NEW r \in Reqs \ C
      PROVE  CallOf(r)' = CallOf(r) /\ KindOK(r)'
  <2>1. rq'[r] = rq[r]
    BY <1>2, <1>4
  <2> QED
    BY <2>1 DEF CallOf, StateOf, AnswerOf, Signs, KindInv, KindOK
<1> HIDE DEF C
<1>5. C \subseteq Reqs
  BY DEF C
<1>6. calls' = [r \in Reqs |-> IF r \in C THEN Over ELSE calls[r]]
  BY <1>3, <1>4 DEF calls
<1>7. Promise!End(C)
  BY <1>1, <1>3, <1>5, <1>6 DEF Promise!End, calls, Over
<1>8. Promise!PromiseNext
  BY <1>5, <1>7 DEF Promise!PromiseNext
<1> QED
  BY <1>3, <1>4, <1>8 DEF KindInv, Kept

-----------------------------------------------------------------------------
\* Every step of the handlers, the windows and the user keeps the promise.
LEMMA NextKept == IInv /\ KindInv /\ [Next]_vars => KindInv' /\ Kept
<1> SUFFICES ASSUME IInv, KindInv, [Next]_vars PROVE KindInv' /\ Kept
  OBVIOUS
<1>1. ASSUME NEW r \in Reqs, Arrive(r) PROVE KindInv' /\ Kept
  BY <1>1, ArriveLockedKept, StartConnectKept, StartDisconnectKept, StartUseKept DEF Arrive
<1>2. ASSUME NEW r \in Reqs, Continue(r) PROVE KindInv' /\ Kept
  BY <1>2, ReconnectKept, ConnectTrustedKept, AskConnectKept, KeyedRestoredKept,
     KeyedFreshKept, CreateSessionKept, TouchCreatedKept, SetSessionKept, ReplyConnectKept,
     EndSessionKept, ExpireSessionKept, ReadKept, SignKept, NonceArrivedKept,
     ReplySignedKept
     DEF Continue
<1>3. ASSUME NEW r \in Reqs, Decide(r) PROVE KindInv' /\ Kept
  BY <1>3, ApproveConnectKept, ApproveSignKept, RejectKept DEF Decide
<1>4. ASSUME NEW w \in Windows,
             PinSubmit(w) \/ PinVerified(w) \/ PinWrong(w) \/ PinCancel(w)
      PROVE  KindInv' /\ Kept
  BY <1>4, PinVerifiedKept, PinCancelKept, Still DEF PinSubmit, PinWrong
<1>5. ASSUME NEW x \in Ports, Handoff(x) \/ Adopt(x) \/ AdoptSession(x) \/ ClosePopup(x)
      PROVE  KindInv' /\ Kept
  BY <1>5, ClosePopupKept, Still DEF Handoff, Adopt, AdoptSession
<1>6. ASSUME \/ Lock \/ TearDown \/ Tick
             \/ \E a \in Accounts : SetWallet(a)
             \/ \E s \in Sids : Revoke(s)
             \/ \E o \in Origins : Untrust(o)
      PROVE  KindInv' /\ Kept
  BY <1>6, Still DEF Lock, TearDown, Tick, SetWallet, Revoke, Untrust
<1>7. CASE UNCHANGED vars
  BY <1>7, Still DEF vars
<1> QED
  BY <1>1, <1>2, <1>3, <1>4, <1>5, <1>6, <1>7 DEF Next

LEMMA InitKept == Init => KindInv /\ Promise!PromiseInit
<1> SUFFICES ASSUME Init PROVE KindInv /\ Promise!PromiseInit
  OBVIOUS
<1>1. \A r \in Reqs : rq[r] = NewReq
  BY DEF Init
<1>2. KindInv
  BY <1>1 DEF KindInv, KindOK, NewReq, ConnectPCs, UsePCs
<1>3. \A r \in Reqs : CallOf(r) = [state |-> "waiting", by |-> None]
  BY <1>1 DEF CallOf, StateOf, NewReq
<1>4. consented = {}
  BY DEF Init
<1> QED
  BY <1>2, <1>3, <1>4 DEF Promise!PromiseInit

\* A dApp is connected, or has something shown for signing, only with the user's consent;
\* nothing is signed that was not shown first and approved then, with the keys it was shown
\* with; an answer is final.
THEOREM PromiseKept == Spec => WalletPromise
<1>1. Init => KindInv /\ Promise!PromiseInit
  BY InitKept
<1>2. IInv /\ KindInv /\ [Next]_vars => KindInv' /\ [Promise!PromiseNext]_(Promise!promise_vars)
  BY NextKept DEF Kept, calls, Promise!promise_vars
<1> QED
  BY <1>1, <1>2, Inductive, PTL DEF Spec, WalletPromise, Promise!PromiseSpec
=============================================================================
