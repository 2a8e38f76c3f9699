------------------------------- MODULE MCParts -------------------------------
(***************************************************************************)
(* The components that share no state with each other, one at a time: the  *)
(* first state chooses which one runs, and the others stay as they began.  *)
(***************************************************************************)
EXTENDS WalletDb, Accounts, Sending, Settings, PrivateBalance, WasmBridge,
        Tokens, TokensPanel, Provider, History, UnlockScreen, Browser,
        Address, Signing, Protocol, ContractForms, PromptWindows, PrivatePanels,
        Mnemonic, Keystore, TextFormats, QrScanner

CONSTANT Parts   \* the components to run
VARIABLE part

parts_vars == <<part, db_vars, acct_vars, send_vars, set_vars, priv_vars, wasm_vars,
                tok_vars, panel_vars, prov_vars, hist_vars, pin_vars, browser_vars, sign_vars, ct_vars, pw_vars, pp_vars, scan_vars>>

MCAddrs   == {"A0", "A1", "B"}
MCPhrase  == [a \in MCAddrs |-> IF a = "B" THEN "raw" ELSE "phrase"]
MCHdIndex == [a \in MCAddrs |-> IF a = "A1" THEN 1 ELSE 0]
MCEarlier == {{}, {"A0", "B"}, {"A0", "A1"}}
MCSlot    == [a \in MCAddrs |-> IF a = "B" THEN "A1" ELSE a]   \* B and A1 start alike

\* To itself from A, and over the amount where the recommended fee changes.
MCTyped == {[to |-> "A", amount |-> "2000"]}
MCRawAmount == [a \in {"2000"} |-> 2000000000]

MCUrl(s, h, l) == [scheme |-> s, host |-> h, loopback |-> l]
MCNetUrl == [n \in {"devnet", "mainnet", "home"} |->
               CASE n = "devnet"  -> MCUrl("https", "d", FALSE)
                 [] n = "mainnet" -> MCUrl("https", "m", FALSE)
                 [] OTHER         -> MCUrl("http", "lan", FALSE)]
MCTypedUrls == {MCUrl("http", "local", TRUE)}
MCNoUrl     == MCUrl("none", "none", FALSE)

MCContracts    == <<"a", "d">>
MCStartBalance == [c \in {"a", "d"} |-> IF c = "a" THEN 1 ELSE 0]
MCConfirmed    == [o \in HistOwners |-> IF o = "a" THEN 4 ELSE 1]
MCRejected     == [o \in HistOwners |-> IF o = "a" THEN 1 ELSE 0]

MCRel(slot, to)  == [slot |-> slot, spec |-> [kind |-> "relative", circle |-> "none", to |-> to]]
MCOct(slot, t)   == [slot |-> slot, spec |-> Link(t)]
MCOther(slot, kind) == [slot |-> slot, spec |-> Bare(kind)]
MCHome == <<"home">>
MCBusy == <<"busy">>
MCCss  == <<"a", "css">>
MCCssToo == <<"b", "css">>
MCJs   == <<"js">>
MCDocuments == [p \in {MCHome, MCBusy, MCCss, MCCssToo, MCJs} |->
  CASE p = MCHome -> << MCOther("base", "remote"), MCRel("stylesheet", <<"a", ".", "css">>),
                        MCOther("poster", "remote"), MCRel("a", <<"..", "busy">>),
                        MCOct("a", Target("sealed", <<".", "home">>)),
                        MCOther("unread", "remote"), MCRel("area", <<"busy">>) >>
    [] p = MCBusy -> << MCRel("script", <<"js">>), MCOther("inline", "data"), MCOther("inline", "data"),
                        MCOct("a", Target("sealed", <<"..", "home">>)) >>
    [] p = MCCss  -> << MCRel("import", <<"..", "b", "css">>) >>
    [] p = MCCssToo -> << MCRel("import", <<"..", "a", "css">>) >>
    [] OTHER -> <<>>]
MCStyles == {MCCss, MCCssToo}
MCJss == {MCJs}
MCTypedAddresses == {Target("open", MCHome), Target("sealed", MCHome), Target("open", NoPath)}
MCTypedTexts == UNION {[1..n -> {"0", "1", "5", ".", "-"}] : n \in 0..4}

\* What is in a text that the quotes around it would end, and what is like a tag.
MCKey(k) == <<"quote", ",", "quote", k, "quote", ":", "quote">>
MCMessages == { [message |-> <<"x">>], [message |-> <<"x">>, scheme |-> "raw"],
                [message |-> <<"{">>, scheme |-> "raw"], [message |-> MsgTag \o <<"1", "newline", "x">>, scheme |-> "raw"] }
MCFields(names) == [i \in DOMAIN names |-> [name |-> names[i], type |-> "string"]]
MCBigint(n) == [t |-> "bigint", n |-> n]
MCNaN == [t |-> "nonfinite", of |-> "NaN"]
MCTypedDatas ==
  { [name |-> <<"app">>, version |-> <<"1">>, primaryType |-> <<"T">>, type |-> ty, data |-> d] :
      ty \in {MCFields(<<"a", "0">>), MCFields(<<"0", "a">>), MCFields(<<"a">>)},
      d  \in {[a |-> Str(<<"x">>), b |-> Null], ("a" :> Str(<<"x">>) @@ "0" :> Num(1)), [a |-> [t |-> "true"]]} }
MCApprovals ==
  { [program |-> p, method |-> m] : p \in {<<"p">>, <<"p">> \o MCKey("method") \o <<"m">>},
                                   m \in {<<"n">>, <<"m">> \o MCKey("method") \o <<"n">>} }
  \cup { [program |-> <<"p">>, method |-> <<"n">>, spender |-> <<>>, expiry |-> 0, args |-> <<>>],
         [program |-> <<"p">>, method |-> <<"n">>, limit |-> <<"1">>],
         [program |-> <<"p">>, method |-> <<"n">>, args |-> <<Num(1)>>],
         [program |-> <<"p">>, method |-> <<"n">>, args |-> <<Str(<<"1">>)>>] }
  \cup { [program |-> <<"p">>, method |-> <<"n">>, args |-> <<v>>] : v \in {MCBigint(1), MCBigint(1000), MCNaN} }
MCCalls ==
  { [program |-> <<"p">>, method |-> <<"m">>, opType |-> o, args |-> a] :
      o \in {"call", "program_call", "else"}, a \in {<<>>, <<Str(<<"quote">>)>>, <<MCBigint(1)>>, <<MCNaN>>, <<Arr(<<MCBigint(1)>>)>>} }
  \cup { [program |-> <<"p">>, method |-> <<"m">>], [program |-> <<"p">>, method |-> <<>>],
         [program |-> <<"p">>, method |-> <<"m">>, ou |-> Digits(100000)] }
MCTransfers ==
  { [to |-> t, amount |-> <<"1">>] : t \in {"oct1", "me", "junk"} }
  \cup { [to |-> "oct1", amountRaw |-> <<"0", "1", "0", "0">>], [to |-> "oct1", amount |-> <<"1">>, message |-> <<"x">>],
         [to |-> "oct1", amount |-> <<"0", ".", "0">>], [to |-> "oct1", amount |-> <<"1">>, ou |-> <<"1", ".", "5">>], [to |-> "oct1", amount |-> <<"1">>, ou |-> Digits(150)] }
MCSignRequests ==
  [kind : {"signMessage"}, params : MCMessages] \cup [kind : {"signTypedData"}, params : MCTypedDatas]
  \cup [kind : {"approveContract"}, params : MCApprovals] \cup [kind : {"signContract"}, params : MCCalls]
  \cup [kind : {"signTransfer"}, params : MCTransfers]
MCAbiOf == [c \in {"c", "d"} |->
             IF c = "c" THEN ("abi" :> <<"m", "", "n", "m">> @@ "exports" :> <<"">>) ELSE [methods |-> <<>>]]
MCPwAccounts == <<"A", "B">>
MCPpStart == [a \in {"A", "B"} |-> IF a = "A" THEN 3 ELSE 1]
MCStealthTexts == {<<"1">>, <<"2", "0">>}
MCIntegerKeys == <<"0">>
MCFavourites == {Target("open", MCHome)}

\* A hash of which two bits are known.
MCOnes(e, m) == Cardinality({i \in DOMAIN e : e[i] = 1 /\ i % m # 1})
MCSha256 == [e \in UNION {[1..n -> {0, 1}] : n \in {5, 10}} |-> <<MCOnes(e, 4) % 2, MCOnes(e, 3) % 2>>]
MCKsPhrases == {<<"phrase", "p">>, <<"phrase", "q">>}
MCKsSeeds == {<<"seed", "s">>, <<"seed", "t">>}
MCUriAmounts == UNION {[1..n -> {"0", "1", ".", "-", " ", "&", "+"}] : n \in 0..3}
MCCsvCells == UNION {[1..n -> {"x", "quote", ",", "cr", "lf", "="}] : n \in 0..2}

ASSUME AddressesAreValid == DerivedAddressIsValid
ASSUME AddressesOfHashesDiffer == AddressesDiffer
ASSUME ContractMethodsAreOptions == MethodsAreOptions
ASSUME PpStealthIsForTheRecipient == StealthIsForTheRecipient

PartsInit ==
  /\ part \in Parts
  /\ DbInit /\ AcctInit /\ SendInit /\ SetInit /\ PrivInit /\ WasmInit
  /\ TokensInit /\ PanelInit /\ ProvInit /\ HistInit /\ PinInit
  /\ BrowserInit /\ SignInit /\ CtInit /\ PwInit /\ PpInit /\ ScanInit
  /\ part # "storage"  => version = "old"
  /\ part # "accounts" => manifest.active = Nobody
  /\ part # "sending"  => wallet.addr = "A"
  /\ part # "panel"    => net = 1 /\ due = {}
  /\ part # "history"  => viewer = "a"
  /\ part # "contracts" => ctWallet = "A"
  /\ part # "panels"    => ppWallet = "A" /\ pp.page = "stealth"

\* Every component but p.
Still(p) ==
  /\ p # "storage" => UNCHANGED db_vars
  /\ p # "accounts" => UNCHANGED acct_vars
  /\ p # "sending" => UNCHANGED send_vars
  /\ p # "settings" => UNCHANGED set_vars
  /\ p # "private" => UNCHANGED priv_vars
  /\ p # "bridge" => UNCHANGED wasm_vars
  /\ p # "tokens" => UNCHANGED tok_vars
  /\ p # "panel" => UNCHANGED panel_vars
  /\ p # "provider" => UNCHANGED prov_vars
  /\ p # "history" => UNCHANGED hist_vars
  /\ p # "unlock" => UNCHANGED pin_vars
  /\ p # "browser" => UNCHANGED browser_vars
  /\ p # "signing" => UNCHANGED sign_vars
  /\ p # "contracts" => UNCHANGED ct_vars
  /\ p # "prompts" => UNCHANGED pw_vars
  /\ p # "panels" => UNCHANGED pp_vars
  /\ p # "scanner" => UNCHANGED scan_vars

PartsNext ==
  \/ part = "storage" /\ DbNext /\ Still("storage") /\ UNCHANGED part
  \/ part = "accounts" /\ AcctNext /\ Still("accounts") /\ UNCHANGED part
  \/ part = "sending" /\ SendNext /\ Still("sending") /\ UNCHANGED part
  \/ part = "settings" /\ SetNext /\ Still("settings") /\ UNCHANGED part
  \/ part = "private" /\ PrivNext /\ Still("private") /\ UNCHANGED part
  \/ part = "bridge" /\ WasmNext /\ Still("bridge") /\ UNCHANGED part
  \/ part = "tokens" /\ TokensNext /\ Still("tokens") /\ UNCHANGED part
  \/ part = "panel" /\ PanelNext /\ Still("panel") /\ UNCHANGED part
  \/ part = "provider" /\ ProvNext /\ Still("provider") /\ UNCHANGED part
  \/ part = "history" /\ HistNext /\ Still("history") /\ UNCHANGED part
  \/ part = "unlock" /\ PinNext /\ Still("unlock") /\ UNCHANGED part
  \/ part = "browser" /\ BrowserNext /\ Still("browser") /\ UNCHANGED part
  \/ part = "signing" /\ SignNext /\ Still("signing") /\ UNCHANGED part
  \/ part = "contracts" /\ CtNext /\ Still("contracts") /\ UNCHANGED part
  \/ part = "prompts" /\ PwNext /\ Still("prompts") /\ UNCHANGED part
  \/ part = "panels" /\ PpNext /\ Still("panels") /\ UNCHANGED part
  \/ part = "scanner" /\ ScanNext /\ Still("scanner") /\ UNCHANGED part

PartsFairness ==
  /\ \A a \in Gets : WF_db_vars(part = "storage" /\ AttemptStep(a))
  /\ \A r \in Requests : WF_db_vars(part = "storage" /\ Blocking(r))
  /\ WF_db_vars(part = "storage" /\ ElsewhereUpgrades)
  /\ \A k \in SendIds : WF_send_vars(part = "sending" /\ SendProgress(k))
  /\ \A t \in PanelTasks : WF_panel_vars(part = "panel" /\ WorkStep(t))
  /\ \A p \in PortIds : WF_prov_vars(part = "provider" /\ (HandshakeFails(p) \/ OnHello(p)))
  /\ \A r \in Posts : /\ WF_prov_vars(part = "provider" /\ TimeOut(r))
                       /\ WF_prov_vars(part = "provider" /\ Resume(r))
  /\ \A r \in RenderIds : WF_browser_vars(part = "browser" /\ RenderStep(r))

PartsSpec     == PartsInit /\ [][PartsNext]_parts_vars
FairPartsSpec == PartsSpec /\ PartsFairness

\* The type invariants of the components; that of PromptWindows also says what may be drawn,
\* and the bridge's methods also free what they allocated.
PartsTypeOK ==
  /\ part \in Parts
  /\ DbTypeOK /\ AcctTypeOK /\ SendTypeOK /\ SetTypeOK /\ PrivTypeOK /\ WasmTypeOK
  /\ MethodsFree
  /\ TokensTypeOK /\ PanelTypeOK /\ ProvTypeOK /\ HistTypeOK /\ PinTypeOK /\ BrowserTypeOK
  /\ SignTypeOK /\ CtTypeOK /\ PwTypeOK /\ PpTypeOK /\ ScanTypeOK
=============================================================================
