------------------------------ MODULE Settings ------------------------------
(***************************************************************************)
(* The settings record and everyone who writes it: the network pill of the *)
(* main window, its Settings panel, the theme and the language switchers,  *)
(* and the connect popup, each an asynchronous writer of one IndexedDB     *)
(* record; and the RPC client with its warning, which follows the record.  *)
(*                                                                         *)
(* Two ways of writing: setSettings puts back a whole snapshot, and        *)
(* patchSettings reads the record and writes it merged with a patch, in    *)
(* two transactions.  Only setSettings and switchNetwork publish.          *)
(***************************************************************************)
EXTENDS Naturals, FiniteSets

CONSTANTS
  NetUrl,         \* [network ids -> the RPC URL of their definition]
  Presets,        \* ids of the built-in networks, "devnet" among them
  TypedUrls,      \* URLs the user may type instead
  NoUrl,
  PageIsHttps,    \* the page of the wallet is served over https
  CspAllowsHttp,  \* VITE_ALLOW_HTTP_ENDPOINTS
  MaxWrites       \* bound: writes begun

\* URLs are records [scheme, host, loopback].
ASSUME SettingsAssumption ==
  /\ "devnet" \in Presets /\ Presets \subseteq DOMAIN NetUrl
  /\ PageIsHttps \in BOOLEAN /\ CspAllowsHttp \in BOOLEAN /\ MaxWrites \in Nat

VARIABLES
  stored,    \* the record in IndexedDB
  memory,    \* [window -> store.settings]
  client,    \* [window -> the RPC client's URL and the warning of the header badge]
  panel,     \* the Settings panel's own copy, read when it was opened
  write,     \* [writer -> the write it has in flight]
  writes     \* bound: writes begun

set_vars == <<stored, memory, client, panel, write, writes>>

Windows  == {"main", "popup"}
Writers  == {"pill", "panel", "theme", "lang", "popup"}
Customs  == DOMAIN NetUrl \ Presets
Unread   == [network |-> "none"]
NoClient == [url |-> NoUrl, warned |-> "none"]
NoWrite  == [pc |-> "idle", rec |-> Unread, net |-> "none", fields |-> {}]
Fields   == {"network", "rpc", "proxy", "lang", "theme", "lock", "trusted", "custom"}

\* loadSettings: what is stored, or the defaults.
Defaults == [network |-> "devnet", rpc |-> NetUrl["devnet"], proxy |-> NoUrl, lang |-> 0,
             theme |-> 0, lock |-> 0, trusted |-> {}, custom |-> Customs]

SetInit ==
  /\ stored = Defaults
  /\ memory = [w \in Windows |-> Unread] /\ client = [w \in Windows |-> NoClient]
  /\ panel = Unread
  /\ write = [s \in Writers |-> NoWrite] /\ writes = 0

-----------------------------------------------------------------------------
(* Which endpoints may be fetched, and what the badge says of them.        *)

\* checkEndpoint of a URL that is fetched directly.
Kind(url, trusted) ==
  IF url.scheme = "https"       THEN "https"
  ELSE IF url.scheme # "http"   THEN "scheme"
  ELSE IF url.loopback          THEN "loopback"
  ELSE IF PageIsHttps           THEN "mixed-content"
  ELSE IF ~CspAllowsHttp        THEN "csp"
  ELSE IF url.host \in trusted  THEN "allowlisted"
  ELSE "not-allowlisted"

Allowed(kind) == kind \in {"https", "loopback", "allowlisted", "proxied"}

\* With a proxy in front, the proxy is what is checked.
Verdict(s) ==
  IF s.proxy = NoUrl THEN Kind(s.rpc, s.trusted)
  ELSE IF Allowed(Kind(s.proxy, s.trusted)) THEN "proxied" ELSE Kind(s.proxy, s.trusted)

\* endpointWarning
Warning(s) == IF Allowed(Verdict(s)) /\ Verdict(s) # "allowlisted" THEN "none" ELSE Verdict(s)

Client(s) == [url |-> IF s.proxy = NoUrl THEN s.rpc ELSE s.proxy, warned |-> Warning(s)]

-----------------------------------------------------------------------------
(* Reading and writing.                                                    *)

\* initRpc at start-up; a failed read leaves the window without settings.
InitRpc(w) ==
  /\ memory[w] = Unread
  /\ memory' = [memory EXCEPT ![w] = stored]
  /\ client' = [client EXCEPT ![w] = Client(stored)]
  /\ UNCHANGED <<stored, panel, write, writes>>

BeginWrite(s, op) ==
  /\ write[s] = NoWrite /\ writes < MaxWrites
  /\ write' = [write EXCEPT ![s] = op] /\ writes' = writes + 1

Whole(rec, fields) == [pc |-> "put", rec |-> rec, net |-> "none", fields |-> fields]
Patch(net, fields) == [pc |-> "read", rec |-> Unread, net |-> net, fields |-> fields]

\* Mutant: the popup patches the id only and leaves the endpoint behind.
MergedIdOnly(op, s) ==
  IF op.fields = {"lang"} THEN [s EXCEPT !.lang = 1]
                          ELSE [s EXCEPT !.network = op.net]

\* The record with the patch of op merged into it.
Merged(op, s) ==
  IF op.fields = {"lang"} THEN [s EXCEPT !.lang = 1]
                          ELSE [s EXCEPT !.network = op.net, !.rpc = NetUrl[op.net]]

\* patchSettings, first transaction.  switchNetwork reads unread settings back first,
\* and has nothing to do when the network is the current one.
ReadForPatch(s) ==
  /\ write[s].pc = "read"
  /\ IF s = "pill" /\ memory["main"] = Unread
       THEN memory' = [memory EXCEPT !["main"] = stored] ELSE UNCHANGED memory
  /\ write' = [write EXCEPT ![s] =
       IF s = "pill" /\ memory'["main"].network = write[s].net THEN NoWrite
       ELSE [@ EXCEPT !.pc = "put", !.rec = Merged(write[s], stored)]]
  /\ UNCHANGED <<stored, client, panel, writes>>

Home(s) == IF s = "popup" THEN "popup" ELSE "main"

\* Mutant: the settings are published and the client is not rebuilt.
PublishedSettingsOnly(s, rec) ==
  /\ memory' = [memory EXCEPT ![Home(s)] = rec] /\ UNCHANGED client

\* publishSettings; the language writer does not publish.
Published(s, rec) ==
  IF s = "lang" THEN UNCHANGED <<memory, client>>
  ELSE /\ memory' = [memory EXCEPT ![Home(s)] = rec]
       /\ client' = [client EXCEPT ![Home(s)] = Client(rec)]

\* The put lands; the popup, having patched, puts the result again through setSettings.
Put(s) ==
  /\ write[s].pc \in {"put", "again"}
  /\ stored' = write[s].rec
  /\ IF s = "popup" /\ write[s].pc = "put"
       THEN write' = [write EXCEPT ![s].pc = "again"] /\ UNCHANGED <<memory, client>>
       ELSE write' = [write EXCEPT ![s] = NoWrite] /\ Published(s, write[s].rec)
  /\ UNCHANGED <<panel, writes>>

\* A put that fails is reported and publishes nothing.
PutFails(s) ==
  /\ write[s].pc \in {"put", "again"} /\ write' = [write EXCEPT ![s] = NoWrite]
  /\ UNCHANGED <<stored, memory, client, panel, writes>>

-----------------------------------------------------------------------------
(* The writers.                                                            *)

\* NetworkSwitcher.select -> switchNetwork
TapPill(n) ==
  /\ IF memory["main"] = Unread THEN n \in Presets
     ELSE memory["main"].network # n /\ n \in Presets \cup memory["main"].custom
  /\ BeginWrite("pill", Patch(n, {"network", "rpc"}))
  /\ UNCHANGED <<stored, memory, client, panel>>

\* ConnectApp.handleSwitchNetwork
SwitchInPopup(n) ==
  /\ memory["popup"] # Unread /\ memory["popup"].network # n /\ n \in Presets \cup memory["popup"].custom
  /\ BeginWrite("popup", Patch(n, {"network", "rpc"}))
  /\ UNCHANGED <<stored, memory, client, panel>>

\* useI18n.setLang
SetLang ==
  /\ stored.lang = 0 /\ BeginWrite("lang", Patch("none", {"lang"}))
  /\ UNCHANGED <<stored, memory, client, panel>>

\* useTheme.setMode: the store's snapshot with the theme changed.
SetTheme ==
  /\ memory["main"] # Unread
  /\ BeginWrite("theme", Whole([memory["main"] EXCEPT !.theme = 1 - @], {"theme"}))
  /\ UNCHANGED <<stored, memory, client, panel>>

OpenPanel  == panel = Unread /\ panel' = stored /\ UNCHANGED <<stored, memory, client, write, writes>>
ClosePanel == panel # Unread /\ panel' = Unread /\ UNCHANGED <<stored, memory, client, write, writes>>

\* Typing in the URL fields changes the copy only.
TypeUrl ==
  /\ panel # Unread
  /\ \E u \in TypedUrls : panel' \in {[panel EXCEPT !.rpc = u], [panel EXCEPT !.proxy = u]}
  /\ panel' # panel /\ UNCHANGED <<stored, memory, client, write, writes>>

\* Each control of the panel writes the whole copy, with what was typed in it.
PanelWrites(next, fields) ==
  /\ panel # Unread /\ panel' = next
  /\ BeginWrite("panel", Whole(next, fields \cup {"rpc", "proxy"}))
  /\ UNCHANGED <<stored, memory, client>>

SelectNetwork(n) ==
  /\ n \in Presets \cup panel.custom /\ n # panel.network
  /\ PanelWrites([panel EXCEPT !.network = n, !.rpc = NetUrl[n]], {"network", "rpc"})
SaveUrls == /\ panel.rpc.scheme \in {"http", "https"}
            /\ PanelWrites(panel, {"rpc", "proxy"})
TrustOrigin   == /\ Verdict(panel) = "not-allowlisted"
                 /\ PanelWrites([panel EXCEPT !.trusted = @ \cup {Client(panel).url.host}], {"trusted"})
UntrustOrigin == \E o \in panel.trusted :
                   PanelWrites([panel EXCEPT !.trusted = @ \ {o}], {"trusted"})
SetAutoLock   == PanelWrites([panel EXCEPT !.lock = 1 - @], {"lock"})
AddNetwork    == \E n \in Customs \ panel.custom :
                   PanelWrites([panel EXCEPT !.custom = @ \cup {n}], {"custom"})
\* Deleting the active network falls back to devnet.
DeleteNetwork ==
  \E n \in panel.custom :
    IF panel.network = n
      THEN PanelWrites([panel EXCEPT !.custom = @ \ {n}, !.network = "devnet",
                                     !.rpc = NetUrl["devnet"]], {"custom", "network", "rpc"})
      ELSE PanelWrites([panel EXCEPT !.custom = @ \ {n}], {"custom"})

SetNext ==
  \/ \E w \in Windows : InitRpc(w)
  \/ \E s \in Writers : ReadForPatch(s) \/ Put(s) \/ PutFails(s)
  \/ \E n \in DOMAIN NetUrl : TapPill(n) \/ SwitchInPopup(n)
  \/ SetLang \/ SetTheme \/ OpenPanel \/ ClosePanel \/ TypeUrl
  \/ panel # Unread /\ (\/ \E n \in DOMAIN NetUrl : SelectNetwork(n)
                        \/ SaveUrls \/ TrustOrigin \/ UntrustOrigin
                        \/ SetAutoLock \/ AddNetwork \/ DeleteNetwork)

SetSpec == SetInit /\ [][SetNext]_set_vars

-----------------------------------------------------------------------------
AllUrls == TypedUrls \cup {NetUrl[n] : n \in DOMAIN NetUrl}
Records == [network : DOMAIN NetUrl, rpc : AllUrls, proxy : TypedUrls \cup {NoUrl}, lang : 0..1,
            theme : 0..1, lock : 0..1, trusted : SUBSET {u.host : u \in AllUrls}, custom : SUBSET Customs]

SetTypeOK ==
  /\ stored \in Records /\ panel \in Records \cup {Unread}
  /\ \A w \in Windows : memory[w] \in Records \cup {Unread}
  /\ \A w \in Windows : client[w].url \in AllUrls \cup {NoUrl}
  /\ \A s \in Writers : write[s].pc \in {"idle", "read", "put", "again"} /\ write[s].fields \subseteq Fields
  /\ writes \in 0..MaxWrites

\* Whatever writers interleave, and whatever whole records they put back, the stored URL
\* is that of the stored network unless the user typed one: no mix of two networks
\* (ConnectApp: "Patching only rpcUrl would leave the explorer and relayer pointing at the
\* previous network").
EndpointsMoveTogether == stored.rpc \in TypedUrls \cup {NetUrl[stored.network]}

\* The RPC client of a window, and the badge about it, are those of the settings the
\* window shows, so the badge never speaks of another endpoint than the one in use.
ClientMatchesSettings ==
  \A w \in Windows : client[w] # NoClient => client[w] = Client(memory[w])

\* A write changes the fields it was made for and no other: "it cannot revert a field
\* another writer changed meanwhile" (wallet-store.ts, of the pill and the Settings selector).
NoSilentRevert ==
  [][\A s \in Writers : write[s].pc = "put" /\ write'[s] # write[s] /\ stored' # stored
       => \A f \in Fields : stored'[f] # stored[f] => f \in write[s].fields]_set_vars
=============================================================================
