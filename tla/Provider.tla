------------------------------ MODULE Provider ------------------------------
(***************************************************************************)
(* The dApp's side of a session: WalletProvider and PopupTransport.  The   *)
(* wallet is external: it gets what is posted on a port, may answer it,    *)
(* may move the port from the connect popup to its main window, where what *)
(* was posted before may be lost, and may end the session.                 *)
(*                                                                         *)
(* A port keeps its message handler after the provider has moved on to     *)
(* another.  The connect request of the handshake is the request Hello.    *)
(***************************************************************************)
EXTENDS Naturals, FiniteSets

CONSTANTS
  Asks,    \* requests of the dApp, ping among them
  Pings,   \* those that are wallet_ping
  Hello,   \* the wallet_connect request of connect()
  MaxPorts \* bound: transports made

ASSUME ProviderAssumption == Pings \subseteq Asks /\ Hello \notin Asks /\ MaxPorts \in Nat

PortIds == 1..MaxPorts
NoPort == 0
Posts == Asks \cup {Hello}

VARIABLES
  port,       \* each port: unused, opening (the popup's handshake), open or closed
  transport,  \* the provider's current one
  linked,     \* `connected' and `currentAddress'
  connecting, \* the shared promise of connect()
  adopted,    \* `adopted'
  promise,    \* each request: new, waiting (for connect), pending or settled
  early,      \* preAdoption of the pending ones
  mail,       \* request and port of the copies on their way to the wallet
  answers,    \* answers on their way to the dApp
  moved,      \* ports that have moved to the main window
  notices     \* SESSION_ADOPTED on their way: the port, and history: the calls then pending

prov_vars == <<port, transport, linked, connecting, adopted, promise, early, mail, answers, notices, moved>>

Open(p) == p # NoPort /\ port[p] = "open"
PendingAsks == {r \in Posts : promise[r] = "pending"}

\* Mutant: what is sent before the port moves is not marked.
DispatchUnmarked(r) ==
  /\ promise' = [promise EXCEPT ![r] = "pending"]
  /\ early' = early \ {r} /\ mail' = mail \cup {<<r, transport>>}

\* dispatch
Dispatch(r) ==
  /\ promise' = [promise EXCEPT ![r] = "pending"]
  /\ early' = (IF adopted THEN early \ {r} ELSE early \cup {r})
  /\ mail' = mail \cup {<<r, transport>>}

Reject(r) == promise' = [promise EXCEPT ![r] = "settled"] /\ UNCHANGED <<early, mail>>

-----------------------------------------------------------------------------
(* connect() and the handshake                                             *)

NewPorts == {p \in PortIds : port[p] = "unused"}
Next1 == CHOOSE p \in NewPorts : \A q \in NewPorts : p <= q

\* The shared promise and the session in hand come first; a popup may be blocked.
Opens ==
  /\ ~connecting /\ ~(linked /\ Open(transport)) /\ NewPorts # {}
  /\ port' = [port EXCEPT ![Next1] = "opening"] /\ transport' = Next1
  /\ connecting' = TRUE /\ promise[Hello] \in {"new", "settled"}
  /\ answers' = answers \ {Hello} /\ mail' = {m \in mail : m[1] # Hello}

Connect ==
  /\ Opens /\ promise' = [promise EXCEPT ![Hello] = "new"]
  /\ UNCHANGED <<linked, adopted, early, notices, moved>>

\* onHello: the window's listener goes, the port is used, and connect is asked for on the
\* provider's transport, which a disconnect may have dropped meanwhile.
OnHello(p) ==
  /\ port[p] = "opening"
  /\ port' = [port EXCEPT ![p] = "open"]
  /\ IF transport = p THEN Dispatch(Hello) /\ UNCHANGED connecting
     ELSE connecting' = FALSE /\ UNCHANGED <<promise, early, mail>>
  /\ UNCHANGED <<transport, linked, adopted, answers, notices, moved>>

\* fail: timed out, closed by the user, an incompatible version or no port.
HandshakeFails(p) ==
  /\ port[p] = "opening" /\ port' = [port EXCEPT ![p] = "closed"]
  /\ connecting' = FALSE
  /\ UNCHANGED <<transport, linked, adopted, promise, early, mail, answers, notices, moved>>

-----------------------------------------------------------------------------
(* request()                                                               *)

\* A dropped session is connected again first, except for ping.
Request(r) ==
  /\ promise[r] = "new"
  /\ IF Open(transport) THEN Dispatch(r) /\ UNCHANGED <<port, transport, connecting, answers>>
     ELSE IF r \in Pings THEN Reject(r) /\ UNCHANGED <<port, transport, connecting, answers>>
     ELSE /\ promise' = [promise EXCEPT ![r] = "waiting", ![Hello] = IF connecting THEN @ ELSE "new"]
          /\ UNCHANGED early
          /\ IF connecting THEN UNCHANGED <<port, transport, connecting, mail, answers>>
             ELSE Opens
  /\ UNCHANGED <<linked, adopted, notices, moved>>

\* connect() has settled.
Resume(r) ==
  /\ promise[r] = "waiting" /\ ~connecting
  /\ IF linked /\ Open(transport) THEN Dispatch(r) ELSE Reject(r)
  /\ UNCHANGED <<port, transport, linked, connecting, adopted, answers, notices, moved>>

-----------------------------------------------------------------------------
(* What comes in, on whichever port still has the handler.                 *)

\* A response to a request that is no longer pending is dropped.
Response(r) ==
  /\ r \in answers /\ answers' = answers \ {r}
  /\ IF promise[r] # "pending" THEN UNCHANGED <<promise, linked, connecting>>
     ELSE /\ promise' = [promise EXCEPT ![r] = "settled"]
          /\ IF r # Hello THEN UNCHANGED <<linked, connecting>>
             ELSE connecting' = FALSE /\ linked' \in {TRUE, linked} \* or refused
  /\ UNCHANGED <<port, transport, adopted, early, mail, notices, moved>>

\* Mutant: only connect has a timer.
TimeOutOfConnect(r) ==
  /\ r = Hello /\ promise[r] = "pending" /\ promise' = [promise EXCEPT ![r] = "settled"]
  /\ connecting' = FALSE
  /\ UNCHANGED <<port, transport, linked, adopted, early, mail, answers, notices, moved>>

TimeOut(r) ==
  /\ promise[r] = "pending" /\ promise' = [promise EXCEPT ![r] = "settled"]
  /\ connecting' = (connecting /\ r # Hello)
  /\ UNCHANGED <<port, transport, linked, adopted, early, mail, answers, notices, moved>>

\* SESSION_ADOPTED: what was sent before is sent again on the current transport; a
\* transport that is not open throws at the first.
AdoptedArrives(n) ==
  /\ n \in notices /\ notices' = notices \ {n}
  /\ adopted' = TRUE
  /\ LET again == {r \in early : promise[r] = "pending"}
     IN IF transport = NoPort THEN early' = {} /\ UNCHANGED mail
        ELSE IF Open(transport) THEN early' = {} /\ mail' = mail \cup {<<r, transport>> : r \in again}
        ELSE UNCHANGED mail /\ \E r \in again \cup {Hello} : early' = early \ {r}
  /\ UNCHANGED <<port, transport, linked, connecting, promise, answers, moved>>

\* clearSession: a transport that was open is closed and rejects all that is pending; one
\* in its handshake is dropped, and its handshake ends by itself.
ClearSession ==
  /\ linked' = FALSE /\ transport' = NoPort
  /\ IF Open(transport)
     THEN /\ port' = [port EXCEPT ![transport] = "closed"]
          /\ promise' = [r \in Posts |-> IF promise[r] = "pending" THEN "settled" ELSE promise[r]]
          /\ connecting' = (connecting /\ promise[Hello] # "pending")
     ELSE UNCHANGED <<port, promise, connecting>>

\* disconnect(), and the wallet's DISCONNECT or SESSION_EXPIRED on any port with a handler.
SessionEnds ==
  /\ transport # NoPort
  /\ ClearSession
  /\ UNCHANGED <<adopted, early, mail, answers, notices, moved>>

-----------------------------------------------------------------------------
(* The wallet.                                                             *)

Answers(m) ==
  /\ m \in mail /\ mail' = mail \ {m}
  /\ answers' \in {answers, IF port[m[2]] = "open" THEN answers \cup {m[1]} ELSE answers}
  /\ UNCHANGED <<port, transport, linked, connecting, adopted, promise, early, notices, moved>>

\* The port moves to the main window; copies under way may get lost.
Moves(p) ==
  /\ port[p] = "open" /\ p \notin moved /\ moved' = moved \cup {p}
  /\ promise[Hello] = "settled"
  /\ notices' = notices \cup {[port |-> p, calls |-> PendingAsks]}
  /\ \E lost \in SUBSET {m \in mail : m[2] = p} : mail' = mail \ lost
  /\ UNCHANGED <<port, transport, linked, connecting, adopted, promise, early, answers>>

-----------------------------------------------------------------------------
ProvInit ==
  /\ port = [p \in PortIds |-> "unused"] /\ transport = NoPort
  /\ linked = FALSE /\ connecting = FALSE /\ adopted = FALSE
  /\ promise = [r \in Posts |-> "new"] /\ early = {} /\ mail = {} /\ answers = {} /\ notices = {} /\ moved = {}

ProvNext ==
  \/ Connect \/ SessionEnds
  \/ \E p \in PortIds : OnHello(p) \/ HandshakeFails(p) \/ Moves(p)
  \/ \E n \in notices : AdoptedArrives(n)
  \/ \E r \in Asks : Request(r) \/ Resume(r)
  \/ \E r \in Posts : Response(r) \/ TimeOut(r)
  \/ \E m \in mail : Answers(m)

\* The timers of the handshake and of each request, and promises that have settled.
ProvFairness ==
  /\ \A p \in PortIds : WF_prov_vars(HandshakeFails(p) \/ OnHello(p))
  /\ \A r \in Posts : WF_prov_vars(TimeOut(r)) /\ WF_prov_vars(Resume(r))

ProvSpec == ProvInit /\ [][ProvNext]_prov_vars /\ ProvFairness

-----------------------------------------------------------------------------
ProvTypeOK ==
  /\ port \in [PortIds -> {"unused", "opening", "open", "closed"}]
  /\ transport \in PortIds \cup {NoPort} /\ linked \in BOOLEAN /\ connecting \in BOOLEAN
  /\ promise \in [Posts -> {"new", "waiting", "pending", "settled"}]
  /\ early \subseteq Posts /\ mail \subseteq Posts \X PortIds /\ answers \subseteq Posts

\* Every call of the dApp settles, whatever is lost, moved, closed or never answered.
RequestsSettle == \A r \in Asks : promise[r] \in {"waiting", "pending"} ~> promise[r] = "settled"

Adopted(n) == n \notin notices' /\ transport = n.port /\ Open(n.port)
SentAgain(n) == \A r \in n.calls \cap PendingAsks : <<r, n.port>> \in mail'

\* When the port moves for the first time, every call that was in flight is posted again
\* on it: the copies before the transfer may be lost.
FirstAdoptionResends == [][\A n \in notices : Adopted(n) /\ ~adopted => SentAgain(n)]_prov_vars

\* The same of every transfer.  (Not so: `adopted' stays set when the provider connects
\* again, and the calls of the new session are taken for calls made after its transfer.)
AdoptionResends == [][\A n \in notices : Adopted(n) => SentAgain(n)]_prov_vars
=============================================================================
