--------------------------- MODULE MCParts_proofs ---------------------------
(***************************************************************************)
(* The components that share no state, run in one specification: each of   *)
(* them runs as it does alone, so what is proved of it alone holds of the  *)
(* whole, and all the types hold of the whole.                             *)
(***************************************************************************)
EXTENDS MCParts, Storage_proofs, Sending_proofs, Bridges_proofs, Panels_proofs

\* Every component begins as it does alone, ...
LEMMA PartsBegin ==
  PartsInit =>
    /\ DbInit /\ AcctInit /\ SendInit /\ SetInit /\ PrivInit /\ WasmInit
    /\ TokensInit /\ PanelInit /\ ProvInit /\ HistInit /\ PinInit
    /\ BrowserInit /\ SignInit /\ CtInit /\ PwInit /\ PpInit /\ ScanInit
    /\ part \in Parts
BY Zenon DEF PartsInit

\* ... and a step of one of them leaves the others alone (Still).
LEMMA PartsGoOn ==
  ASSUME [PartsNext]_parts_vars
  PROVE /\ [DbNext]_db_vars
        /\ [AcctNext]_acct_vars
        /\ [SendNext]_send_vars
        /\ [SetNext]_set_vars
        /\ [PrivNext]_priv_vars
        /\ [WasmNext]_wasm_vars
        /\ [TokensNext]_tok_vars
        /\ [PanelNext]_panel_vars
        /\ [ProvNext]_prov_vars
        /\ [HistNext]_hist_vars
        /\ [PinNext]_pin_vars
        /\ [BrowserNext]_browser_vars
        /\ [SignNext]_sign_vars
        /\ [CtNext]_ct_vars
        /\ [PwNext]_pw_vars
        /\ [PpNext]_pp_vars
        /\ [ScanNext]_scan_vars
        /\ part' = part
<1>0. CASE UNCHANGED parts_vars
  BY <1>0 DEF parts_vars
<1>1. CASE part = "storage" /\ DbNext /\ Still("storage") /\ UNCHANGED part
  BY <1>1 DEF Still
<1>2. CASE part = "accounts" /\ AcctNext /\ Still("accounts") /\ UNCHANGED part
  BY <1>2 DEF Still
<1>3. CASE part = "sending" /\ SendNext /\ Still("sending") /\ UNCHANGED part
  BY <1>3 DEF Still
<1>4. CASE part = "settings" /\ SetNext /\ Still("settings") /\ UNCHANGED part
  BY <1>4 DEF Still
<1>5. CASE part = "private" /\ PrivNext /\ Still("private") /\ UNCHANGED part
  BY <1>5 DEF Still
<1>6. CASE part = "bridge" /\ WasmNext /\ Still("bridge") /\ UNCHANGED part
  BY <1>6 DEF Still
<1>7. CASE part = "tokens" /\ TokensNext /\ Still("tokens") /\ UNCHANGED part
  BY <1>7 DEF Still
<1>8. CASE part = "panel" /\ PanelNext /\ Still("panel") /\ UNCHANGED part
  BY <1>8 DEF Still
<1>9. CASE part = "provider" /\ ProvNext /\ Still("provider") /\ UNCHANGED part
  BY <1>9 DEF Still
<1>10. CASE part = "history" /\ HistNext /\ Still("history") /\ UNCHANGED part
  BY <1>10 DEF Still
<1>11. CASE part = "unlock" /\ PinNext /\ Still("unlock") /\ UNCHANGED part
  BY <1>11 DEF Still
<1>12. CASE part = "browser" /\ BrowserNext /\ Still("browser") /\ UNCHANGED part
  BY <1>12 DEF Still
<1>13. CASE part = "signing" /\ SignNext /\ Still("signing") /\ UNCHANGED part
  BY <1>13 DEF Still
<1>14. CASE part = "contracts" /\ CtNext /\ Still("contracts") /\ UNCHANGED part
  BY <1>14 DEF Still
<1>15. CASE part = "prompts" /\ PwNext /\ Still("prompts") /\ UNCHANGED part
  BY <1>15 DEF Still
<1>16. CASE part = "panels" /\ PpNext /\ Still("panels") /\ UNCHANGED part
  BY <1>16 DEF Still
<1>17. CASE part = "scanner" /\ ScanNext /\ Still("scanner") /\ UNCHANGED part
  BY <1>17 DEF Still
<1> QED
  BY <1>0, <1>1, <1>2, <1>3, <1>4, <1>5, <1>6, <1>7, <1>8, <1>9, <1>10, <1>11, <1>12, <1>13, <1>14, <1>15, <1>16, <1>17 DEF PartsNext
-----------------------------------------------------------------------------
\* Whatever part runs, every component behaves as its own specification says (of those
\* whose specification asks for fairness: as its first state and its steps do).  So each
\* invariant and each action property that is proved of a component holds of PartsSpec,
\* under which TLC checks it.
THEOREM PartsRunAlone ==
  PartsSpec =>
    /\ AcctSpec /\ SetSpec /\ PrivSpec /\ WasmSpec /\ TokensSpec /\ HistSpec /\ PinSpec
    /\ SignSpec /\ CtSpec /\ PwSpec /\ PpSpec /\ ScanSpec
    /\ DbInit /\ [][DbNext]_db_vars /\ SendInit /\ [][SendNext]_send_vars
    /\ PanelInit /\ [][PanelNext]_panel_vars /\ ProvInit /\ [][ProvNext]_prov_vars
    /\ BrowserInit /\ [][BrowserNext]_browser_vars
BY PartsBegin, PartsGoOn, PTL
   DEF PartsSpec, AcctSpec, SetSpec, PrivSpec, WasmSpec, TokensSpec, HistSpec, PinSpec,
       SignSpec, CtSpec, PwSpec, PpSpec, ScanSpec

\* The types of every component hold whatever part runs (PartsTypeOK), for every value of
\* every component's constants.
THEOREM PartsTypes == PartsSpec => []PartsTypeOK
<1>1. DbInit /\ [][DbNext]_db_vars => []DbTypeOK
  BY DbWholeInit, DbWholeStep, DbWholeTypes, PTL
<1>2. AcctInit /\ [][AcctNext]_acct_vars => []AcctTypeOK
  BY AcctWholeInit, AccountsKept, StartedStep, AcctWholeTypes, PTL DEF AcctSpec
<1>3. SendInit /\ [][SendNext]_send_vars => []SendTypeOK
  BY SendWholeInit, SendNextInv, WipedStep, SendWholeTypes, PTL
<1>4. SetInit /\ [][SetNext]_set_vars => []SetTypeOK
  BY SettingsTyped, PTL DEF SetSpec
<1>5. PrivInit /\ [][PrivNext]_priv_vars => []PrivTypeOK
  BY PrivInitInv, PrivNextInv, TurnsInit, TurnsStep, PrivTypes, PTL
<1>6. WasmInit /\ [][WasmNext]_wasm_vars => [](WasmTypeOK /\ MethodsFree)
  <2>1. WasmInv => WasmTypeOK
    BY DEF WasmInv
  <2> QED
    BY <2>1, WasmInitInv, WasmStepInv, NothingLeaks, PTL DEF WasmSpec
<1>7. TokensInit /\ [][TokensNext]_tok_vars => []TokensTypeOK
  BY TokInvHolds, ListsTypedInit, ListsTypedStep, TokTypes, PTL DEF TokensSpec
<1>8. PanelInit /\ [][PanelNext]_panel_vars => []PanelTypeOK
  <2>1. PanelInv => PanelTypeOK
    BY DEF PanelInv
  <2> QED
    BY <2>1, PanelInitInv, PanelStepInv, PTL
<1>9. ProvInit /\ [][ProvNext]_prov_vars => []ProvTypeOK
  BY ProvWholeInit, ProvWholeStep, ProvTypes, PTL
<1>10. HistInit /\ [][HistNext]_hist_vars => []HistTypeOK
  BY ListsInOrder, LoadsCountInit, LoadsCountStep, HistTypes, PTL DEF HistSpec
<1>11. PinInit /\ [][PinNext]_pin_vars => []PinTypeOK
  BY PinInitInv, PinNextInv, ScreensInit, ScreensStep, PinTypes, PTL
<1>12. BrowserInit /\ [][BrowserNext]_browser_vars => []BrowserTypeOK
  <2>1. BrowserInv => BrowserTypeOK
    BY DEF BrowserInv, BrowserTyped, BrowserTypeOK, PassWords, RenderRecs
  <2> QED
    BY <2>1, BrowserInitInv, BrowserStepInv, PTL
<1>13. SignInit /\ [][SignNext]_sign_vars => []SignTypeOK
  BY SignTypeCorrect, PTL DEF SignSpec
<1>14. CtInit /\ [][CtNext]_ct_vars => []CtTypeOK
  BY OnlyWholeFormsSent, PTL DEF CtSpec
<1>15. PwInit /\ [][PwNext]_pw_vars => []PwTypeOK
  BY PwInitInv, PwStepInv, PwTypes, PTL
<1>16. PpInit /\ [][PpNext]_pp_vars => []PpTypeOK
  BY DoneWasTaken, PTL DEF PpSpec
<1>17. ScanInit /\ [][ScanNext]_scan_vars => []ScanTypeOK
  BY InitCameraInv, StepCameraInv, FillsInit, FillsStep, ScanTypes, PTL
<1>18. PartsSpec => [](part \in Parts)
  <2>1. PartsInit => part \in Parts
    BY PartsBegin
  <2>2. part \in Parts /\ [PartsNext]_parts_vars => (part \in Parts)'
    BY PartsGoOn
  <2> QED
    BY <2>1, <2>2, PTL DEF PartsSpec
<1>19. part \in Parts /\ DbTypeOK /\ AcctTypeOK /\ SendTypeOK /\ SetTypeOK /\ PrivTypeOK /\ WasmTypeOK
       /\ MethodsFree
       /\ TokensTypeOK /\ PanelTypeOK /\ ProvTypeOK /\ HistTypeOK /\ PinTypeOK /\ BrowserTypeOK
       /\ SignTypeOK /\ CtTypeOK /\ PwTypeOK /\ PpTypeOK /\ ScanTypeOK
       => PartsTypeOK
  BY Zenon DEF PartsTypeOK
<1> QED
  BY <1>1, <1>2, <1>3, <1>4, <1>5, <1>6, <1>7, <1>8, <1>9, <1>10, <1>11, <1>12, <1>13, <1>14, <1>15, <1>16, <1>17, <1>18, <1>19, PartsRunAlone, PTL
     DEF AcctSpec, SetSpec, PrivSpec, WasmSpec, TokensSpec, HistSpec, PinSpec, SignSpec,
         CtSpec, PwSpec, PpSpec, ScanSpec
=============================================================================
