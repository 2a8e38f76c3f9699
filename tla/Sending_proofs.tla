--------------------------- MODULE Sending_proofs ---------------------------
(***************************************************************************)
(* What is sent and what is signed.  First Sending, for any set of         *)
(* accounts and forms and any number of dialogs, sends and unlocks: its    *)
(* types, that the node takes only what the user approved, and that        *)
(* nothing is taken from a wallet that was locked.                         *)
(*                                                                         *)
(* What the node takes is signed several awaits after the dialog, with     *)
(* what the send's closure captured.  Bound ties the two together for as   *)
(* long as the send is under way: its account and form are the dialog's,   *)
(* and so is its nonce, which is asked for again only if none was shown.   *)
(*                                                                         *)
(* Then what is sent and signed as text.  Amounts: what formatOct writes   *)
(* of any raw amount, parseOct reads as that amount.  Signing, for any     *)
(* accounts, texts and values a page may ask to have signed: what is       *)
(* signed is what the dialog showed, and two requests whose signatures are *)
(* over the same bytes asked for the same thing.  For the latter, escaped  *)
(* characters, numbers, lists and objects are told apart by their text     *)
(* even where more text follows, which makes the canonical JSON of one     *)
(* layer of arrays and objects tell its values apart if that of the layer  *)
(* below it does.  Addresses, for hashes of any length: which of them are  *)
(* valid, and that they tell their keys apart.                             *)
(***************************************************************************)
EXTENDS Sending, Signing, Address, Lists_proofs

SendPCs    == {"idle", "fetch", "fetching", "staged", "signing", "sign", "posted", "sent",
               "failed", "over"}
UnderWay   == SendPCs \ {"idle", "over"}
Forms      == Typed \cup {EmptyForm}
WalletRecs == [id : 0..MaxWallets, addr : Senders \cup {"none"}]
SendRecs   == [pc : SendPCs, wallet : WalletRecs, panel : 0..MaxWallets, form : Forms,
               nonce : Nat]
TxRecs     == [from : Senders \cup {"none"}, form : Forms, nonce : Nat, ou : Nat,
               id : 0..MaxWallets]
SignedRecs == [tx : TxRecs, valid : BOOLEAN, late : BOOLEAN]

\* The types, of the sends and transactions too; a send under way has a wallet.
SendTyped ==
  /\ wallet \in WalletRecs /\ (wallet.id # 0 => wallet.addr \in Senders)
  /\ opened \in 1..MaxWallets /\ mounted \in 0..MaxWallets
  /\ (wallet.id = 0) = (mounted = 0)
  /\ form \in Forms /\ dialog \in BOOLEAN /\ modal \in BOOLEAN
  /\ dialog => wallet.id # 0
  /\ nextNonce \in 0..(MaxStaged + 1) /\ nonceStatus \in {"loading", "error", "ready"}
  /\ fetch \in [FetchIds -> Senders \cup {"none"}]
  /\ send \in [SendIds -> SendRecs]
  /\ \A k \in SendIds : send[k].pc \in UnderWay => send[k].wallet.addr \in Senders
  /\ staged \in [Senders -> 0..MaxStaged]
  /\ signed \in [SendIds -> SignedRecs]
  /\ taken \in [SendIds -> TxRecs] /\ approved \in [SendIds -> TxRecs]

\* lock() wipes every wallet it closes.
AllWiped == wiped = closed

\* What was signed is what the send captured.
SignedFrom(tx, s) == tx.from = s.wallet.addr /\ tx.form = s.form /\ tx.nonce = s.nonce

\* A send under way is the one that was approved; and what it has signed with the bytes of
\* a wiped wallet is not valid.
Bound(k) ==
  /\ send[k].pc \in UnderWay =>
       /\ approved[k].from = send[k].wallet.addr /\ approved[k].form = send[k].form
       /\ approved[k].nonce # 0 => approved[k].nonce = send[k].nonce
  /\ send[k].pc = "signing" => send[k].nonce = 0
  /\ send[k].pc = "posted" => /\ SignedFrom(signed[k].tx, send[k])
                              /\ signed[k].valid => ~signed[k].late
  /\ taken[k] # NoTx => /\ send[k].pc \in {"sent", "failed"} /\ ~signed[k].late
                        /\ SignedFrom(taken[k], send[k])

SendInv == SendTyped /\ AllWiped /\ \A k \in SendIds : Bound(k)

-----------------------------------------------------------------------------

\* The empty form, no transaction and no send are of their types.
LEMMA SendingTypes ==
  /\ EmptyForm \in Forms /\ NoTx \in TxRecs /\ NoSigned \in SignedRecs /\ NoSend \in SendRecs
  /\ [NoSend EXCEPT !.pc = "over"] \in SendRecs
  /\ [NoSend EXCEPT !.pc = "over"].pc = "over"
<1>1. 0 \in 0..MaxWallets /\ 0 \in Nat
  BY SendingAssumption
<1>2. EmptyForm \in Forms
  BY DEF Forms
<1> HIDE DEF EmptyForm
<1>3. NoTx \in TxRecs
  BY <1>1, <1>2 DEF NoTx, TxRecs
<1>4. NoSend \in SendRecs
  BY <1>1, <1>2 DEF NoSend, SendRecs, SendPCs, WalletRecs
<1>5. /\ [NoSend EXCEPT !.pc = "over"] \in SendRecs
      /\ [NoSend EXCEPT !.pc = "over"].pc = "over"
  BY <1>4 DEF SendRecs, SendPCs
<1>6. NoSigned \in SignedRecs
  BY <1>3 DEF NoSigned, SignedRecs
<1> QED
  BY <1>2, <1>3, <1>4, <1>5, <1>6

\* Nothing is open and nothing under way at first.
LEMMA SendInitInv == SendInit => SendInv
<1> SUFFICES ASSUME SendInit PROVE SendInv
  OBVIOUS
<1>0. NoSend.pc = "idle"
  BY DEF NoSend
<1>1. SendTyped
  <2>1. PICK a \in Senders : wallet = [id |-> 1, addr |-> a]
    BY DEF SendInit
  <2>2. wallet \in WalletRecs /\ wallet.id # 0 /\ wallet.addr \in Senders
    BY <2>1, SendingAssumption DEF WalletRecs
  <2>3. \A k \in SendIds : send[k] = NoSend
    BY DEF SendInit
  <2>4. /\ opened \in 1..MaxWallets /\ mounted \in 0..MaxWallets /\ mounted # 0
        /\ nextNonce \in 0..(MaxStaged + 1) /\ staged \in [Senders -> 0..MaxStaged]
    BY SendingAssumption DEF SendInit
  <2>5. /\ send \in [SendIds -> SendRecs] /\ taken \in [SendIds -> TxRecs]
        /\ approved \in [SendIds -> TxRecs] /\ signed \in [SendIds -> SignedRecs]
    BY SendingTypes DEF SendInit
  <2>6. /\ form \in Forms /\ dialog \in BOOLEAN /\ modal \in BOOLEAN /\ ~dialog
        /\ nonceStatus \in {"loading", "error", "ready"}
        /\ fetch \in [FetchIds -> Senders \cup {"none"}]
    BY SendingTypes DEF SendInit
  <2>7. \A k \in SendIds : send[k].pc \notin UnderWay
    BY <1>0, <2>3 DEF UnderWay
  <2> QED
    BY <2>2, <2>4, <2>5, <2>6, <2>7 DEF SendTyped
<1>2. AllWiped
  BY DEF SendInit, AllWiped
<1>3. ASSUME NEW k \in SendIds PROVE Bound(k)
  BY <1>0 DEF SendInit, Bound, UnderWay
<1> QED
  BY <1>1, <1>2, <1>3 DEF SendInv

-----------------------------------------------------------------------------
(* Lemmas on the parts of a step.                                          *)

\* A step that leaves the sends alone.
LEMMA QuietSend ==
  ASSUME SendInv, SendTyped', AllWiped', UNCHANGED <<send, signed, taken, approved>>
  PROVE  SendInv'
BY DEF SendInv, Bound

\* A send goes on: nothing of what was approved changes.
LEMMA SendGoes ==
  ASSUME SendInv, NEW k \in SendIds, send[k].pc \in UnderWay, taken[k] = NoTx,
         NEW pc \in SendPCs \ {"idle", "posted"},
         send' = [send EXCEPT ![k].pc = pc],
         pc = "signing" => send[k].nonce = 0,
         UNCHANGED <<opened_vars, shown_vars, modal, fetch, staged, signed, taken, approved>>
  PROVE  SendInv'
<1>1. send[k] \in SendRecs
  BY DEF SendInv, SendTyped
<1>2. [send[k] EXCEPT !.pc = pc] \in SendRecs
  BY <1>1 DEF SendRecs
<1>3. /\ send'[k].pc = pc /\ send'[k].wallet = send[k].wallet /\ send'[k].form = send[k].form
      /\ send'[k].nonce = send[k].nonce
      /\ \A j \in SendIds \ {k} : send'[j] = send[j]
  BY <1>1 DEF SendInv, SendTyped, SendRecs
<1>4. SendTyped'
  <2>1. send' \in [SendIds -> SendRecs]
    BY <1>2 DEF SendInv, SendTyped
  <2>2. \A j \in SendIds : send'[j].pc \in UnderWay => send'[j].wallet.addr \in Senders
    BY <1>3 DEF SendInv, SendTyped
  <2> QED
    BY <2>1, <2>2 DEF SendInv, SendTyped, opened_vars, shown_vars
<1>5. AllWiped'
  BY DEF SendInv, AllWiped, opened_vars
<1>6. ASSUME NEW j \in SendIds PROVE Bound(j)'
  BY <1>3 DEF SendInv, Bound
<1> QED
  BY <1>4, <1>5, <1>6 DEF SendInv

-----------------------------------------------------------------------------
(* The dialog and the form.                                                *)

\* Typing, cancelling and closing the modal leave what is under way alone.
LEMMA FormKeeps ==
  ASSUME SendInv, EditForm \/ CancelDialog \/ CloseModal PROVE SendInv'
<1>1. SendTyped'
  <2>1. CASE EditForm
    <3>1. form' \in Forms
      BY <2>1 DEF EditForm, Forms
    <3> QED
      BY <2>1, <3>1 DEF EditForm, SendInv, SendTyped, opened_vars
  <2>2. CASE CancelDialog
    BY <2>2 DEF CancelDialog, SendInv, SendTyped, opened_vars
  <2>3. CASE CloseModal
    BY <2>3 DEF CloseModal, SendInv, SendTyped, opened_vars, shown_vars
  <2> QED
    BY <2>1, <2>2, <2>3
<1>2. AllWiped' /\ UNCHANGED <<send, signed, taken, approved>>
  BY DEF EditForm, CancelDialog, CloseModal, SendInv, AllWiped, opened_vars
<1> QED
  BY <1>1, <1>2, QuietSend

\* The dialog opens with the form, and asks for the nonce of the open account.
LEMMA RequestKeeps ==
  ASSUME SendInv, NEW f \in FetchIds, RequestSend(f) PROVE SendInv'
<1>1. SendTyped'
  <2>1. wallet.id # 0 /\ wallet.addr \in Senders
    BY DEF RequestSend, Free, SendInv, SendTyped
  <2>2. fetch' \in [FetchIds -> Senders \cup {"none"}]
    BY <2>1 DEF RequestSend, AskNonce, SendInv, SendTyped
  <2>3. nextNonce' \in 0..(MaxStaged + 1)
    BY SendingAssumption DEF RequestSend
  <2> QED
    BY <2>1, <2>2, <2>3 DEF RequestSend, SendInv, SendTyped, opened_vars
<1>2. AllWiped' /\ UNCHANGED <<send, signed, taken, approved>>
  BY DEF RequestSend, SendInv, AllWiped, opened_vars
<1> QED
  BY <1>1, <1>2, QuietSend

\* A nonce arrives for the dialog, which may show another account by then.
LEMMA DialogFetchKeeps ==
  ASSUME SendInv, NEW f \in FetchIds, DialogFetchEnds(f) PROVE SendInv'
<1>1. fetch[f] \in Senders
  BY DEF DialogFetchEnds, SendInv, SendTyped
<1>2. NextNonce(fetch[f]) \in 0..(MaxStaged + 1)
  BY <1>1, SendingAssumption DEF NextNonce, SendInv, SendTyped
<1>3. SendTyped'
  BY <1>2 DEF DialogFetchEnds, SendInv, SendTyped, opened_vars
<1>4. AllWiped' /\ UNCHANGED <<send, signed, taken, approved>>
  BY DEF DialogFetchEnds, SendInv, AllWiped, opened_vars
<1> QED
  BY <1>3, <1>4, QuietSend

\* The send captures what the dialog shows.
LEMMA ConfirmKeeps ==
  ASSUME SendInv, NEW k \in SendIds, Confirm(k) PROVE SendInv'
<1>1. CASE ~(ValidTo /\ ValidAmount)
  <2>1. SendTyped'
    BY <1>1 DEF Confirm, SendInv, SendTyped, opened_vars
  <2>2. AllWiped' /\ UNCHANGED <<send, signed, taken, approved>>
    BY <1>1 DEF Confirm, SendInv, AllWiped, opened_vars
  <2> QED
    BY <2>1, <2>2, QuietSend
<1>2. CASE ValidTo /\ ValidAmount
  <2> DEFINE pc == IF nextNonce # 0 THEN "staged" ELSE "fetch"
             s == [pc |-> pc, wallet |-> wallet, panel |-> mounted, form |-> form,
                   nonce |-> nextNonce]
  <2>1. /\ send[k].pc = "idle" /\ dialog /\ dialog' = FALSE
        /\ send' = [send EXCEPT ![k] = s]
        /\ approved' = [approved EXCEPT ![k] = Details] /\ modal' = TRUE
        /\ UNCHANGED <<opened_vars, form, nextNonce, nonceStatus, fetch, staged, signed, taken>>
    BY <1>2 DEF Confirm
  <2>2. nextNonce \in Nat
    BY SendingAssumption DEF SendInv, SendTyped
  <2>3. s \in SendRecs /\ s.pc \in UnderWay /\ s.pc \notin {"signing", "posted"}
        /\ s.wallet.addr \in Senders
    BY <2>1, <2>2 DEF SendRecs, SendPCs, UnderWay, SendInv, SendTyped
  <2>4. /\ Details \in TxRecs /\ Details.from = wallet.addr /\ Details.form = form
        /\ Details.nonce # 0 => Details.nonce = nextNonce
    <3>1. FeeShown \in Nat
      BY DEF FeeShown
    <3>2. (IF nonceStatus = "ready" THEN nextNonce ELSE 0) \in Nat
      BY <2>2
    <3> QED
      BY <3>1, <3>2 DEF Details, TxRecs, SendInv, SendTyped, WalletRecs
  <2>5. s.wallet = wallet /\ s.form = form /\ s.nonce = nextNonce
    OBVIOUS
  <2> HIDE DEF s
  <2>6. SendTyped'
    BY <2>1, <2>3, <2>4 DEF SendInv, SendTyped, opened_vars
  <2>7. ASSUME NEW j \in SendIds PROVE Bound(j)'
    <3>1. CASE j # k
      BY <2>1, <3>1 DEF SendInv, SendTyped, Bound
    <3>2. CASE j = k
      <4>1. send'[k] = s /\ approved'[k] = Details /\ taken'[k] = NoTx
        BY <2>1 DEF SendInv, SendTyped, Bound
      <4> QED
        BY <2>3, <2>4, <2>5, <3>2, <4>1 DEF Bound
    <3> QED
      BY <3>1, <3>2
  <2>8. AllWiped'
    BY <2>1 DEF SendInv, AllWiped, opened_vars
  <2> QED
    BY <2>6, <2>7, <2>8 DEF SendInv
<1> QED
  BY <1>1, <1>2

-----------------------------------------------------------------------------
(* The send under way.                                                     *)

\* A send without a nonce asks for one.
LEMMA StageFetchKeeps ==
  ASSUME SendInv, NEW k \in SendIds, StageFetch(k) PROVE SendInv'
<1>1. send[k].pc \in UnderWay /\ taken[k] = NoTx
  BY DEF StageFetch, SendInv, Bound, UnderWay, SendPCs
<1>2. "fetching" \in SendPCs \ {"idle", "posted"}
  BY DEF SendPCs
<1> QED
  BY <1>1, <1>2, SendGoes DEF StageFetch

\* sendStandard asks for a nonce only if it was given none.
LEMMA SendStandardKeeps ==
  ASSUME SendInv, NEW k \in SendIds, SendStandard(k) PROVE SendInv'
<1>1. send[k].pc \in UnderWay /\ taken[k] = NoTx
  BY DEF SendStandard, SendInv, Bound, UnderWay, SendPCs
<1> DEFINE pc == CASE send[k].form.to = send[k].wallet.addr -> "failed"
                   [] send[k].form.to # send[k].wallet.addr /\ send[k].nonce # 0 -> "sign"
                   [] OTHER -> "signing"
<1>2. pc \in SendPCs \ {"idle", "posted"} /\ (pc = "signing" => send[k].nonce = 0)
  <2>1. CASE send[k].form.to = send[k].wallet.addr
    BY <2>1 DEF SendPCs
  <2>2. CASE send[k].form.to # send[k].wallet.addr /\ send[k].nonce # 0
    BY <2>2 DEF SendPCs
  <2>3. CASE send[k].form.to # send[k].wallet.addr /\ send[k].nonce = 0
    BY <2>3 DEF SendPCs
  <2> QED
    BY <2>1, <2>2, <2>3
<1>3. send' = [send EXCEPT ![k].pc = pc]
  BY DEF SendStandard
<1> HIDE DEF pc
<1> QED
  BY <1>1, <1>2, <1>3, SendGoes DEF SendStandard

\* The nonce asked for here is used only where the dialog showed none.
LEMMA SendFetchKeeps ==
  ASSUME SendInv, NEW k \in SendIds, SendFetchEnds(k) PROVE SendInv'
<1>1. /\ send[k].pc \in UnderWay /\ taken[k] = NoTx /\ send[k].pc \in Asking
      /\ UNCHANGED <<opened_vars, shown_vars, modal, fetch, staged, signed, taken, approved>>
  BY DEF SendFetchEnds, SendInv, Bound, UnderWay, SendPCs, Asking
<1>2. "failed" \in SendPCs \ {"idle", "posted"} /\ "staged" \in SendPCs \ {"idle", "posted"}
  BY DEF SendPCs
<1>3. CASE send' = [send EXCEPT ![k].pc = "failed"]
  BY <1>1, <1>2, <1>3, SendGoes
<1>4. CASE send' = [send EXCEPT ![k] = SendFetched(@)] /\ send[k].pc = "fetching"
  <2>1. send' = [send EXCEPT ![k].pc = "staged"]
    BY <1>4 DEF SendFetched
  <2> QED
    BY <1>1, <1>2, <2>1, SendGoes
<1>5. CASE send' = [send EXCEPT ![k] = SendFetched(@)] /\ send[k].pc = "signing"
  <2> DEFINE s == [send[k] EXCEPT !.pc = "sign", !.nonce = NextNonce(send[k].wallet.addr)]
  <2>1. send[k] \in SendRecs /\ send[k].wallet.addr \in Senders
    BY <1>1 DEF SendInv, SendTyped
  <2>2. NextNonce(send[k].wallet.addr) \in Nat
    BY <2>1, SendingAssumption DEF SendInv, SendTyped, NextNonce
  <2>3. s \in SendRecs /\ s.pc = "sign" /\ s.wallet = send[k].wallet /\ s.form = send[k].form
    BY <2>1, <2>2 DEF SendRecs, SendPCs
  <2>4. send' = [send EXCEPT ![k] = s]
    BY <1>5 DEF SendFetched
  <2> HIDE DEF s
  <2>5. send'[k] = s /\ \A j \in SendIds \ {k} : send'[j] = send[j]
    BY <2>4 DEF SendInv, SendTyped
  <2>6. SendTyped'
    <3>1. send' \in [SendIds -> SendRecs]
      BY <2>3, <2>4 DEF SendInv, SendTyped
    <3>2. \A j \in SendIds : send'[j].pc \in UnderWay => send'[j].wallet.addr \in Senders
      BY <2>1, <2>3, <2>5 DEF SendInv, SendTyped
    <3> QED
      BY <1>1, <3>1, <3>2 DEF SendInv, SendTyped, opened_vars, shown_vars
  <2>7. ASSUME NEW j \in SendIds PROVE Bound(j)'
    <3>1. CASE j # k
      BY <1>1, <2>5, <3>1 DEF SendInv, Bound
    <3>2. CASE j = k
      <4>1. send[k].nonce = 0 /\ approved[k].nonce = 0
        <5>1. send[k].nonce = 0
          BY <1>5 DEF SendInv, Bound
        <5> QED
          BY <1>1, <5>1 DEF SendInv, Bound
      <4>2. approved'[k] = approved[k] /\ taken'[k] = NoTx
        BY <1>1
      <4> QED
        BY <1>1, <2>3, <2>5, <3>2, <4>1, <4>2 DEF SendInv, Bound
    <3> QED
      BY <3>1, <3>2
  <2>8. AllWiped'
    BY <1>1 DEF SendInv, AllWiped, opened_vars
  <2> QED
    BY <2>6, <2>7, <2>8 DEF SendInv
<1> QED
  BY <1>1, <1>3, <1>4, <1>5 DEF SendFetchEnds, Asking

\* What is signed is what the closure captured, with bytes that are good unless the wallet
\* was locked before.
LEMMA SignKeeps ==
  ASSUME SendInv, NEW k \in SendIds, SignTransaction(k) PROVE SendInv'
<1> DEFINE tx == SignedTx(send[k])
<1>1. /\ send[k].pc = "sign" /\ send[k].pc \in UnderWay /\ taken[k] = NoTx
      /\ UNCHANGED <<opened_vars, shown_vars, modal, fetch, staged, taken, approved>>
  BY DEF SignTransaction, SendInv, Bound, UnderWay, SendPCs
<1>2. send[k] \in SendRecs /\ send[k].wallet.addr \in Senders
  BY <1>1 DEF SendInv, SendTyped
<1>3. RecommendedOu(RawAmount[send[k].form.amount]) \in Nat
  BY DEF RecommendedOu
<1>4. tx \in TxRecs /\ SignedFrom(tx, send[k])
  BY <1>2, <1>3 DEF SignedTx, SendRecs, TxRecs, WalletRecs, SignedFrom
<1>5. PICK v \in BOOLEAN : v = (send[k].wallet.id \notin wiped)
  OBVIOUS
<1>6. PICK l \in BOOLEAN : l = (send[k].wallet.id \in closed)
  <2>1. (send[k].wallet.id \in closed) \in BOOLEAN
    OBVIOUS
  <2> QED
    BY <2>1
<1>7. PICK g : g = [tx |-> tx, valid |-> v, late |-> l]
  OBVIOUS
<1>8. signed' = [signed EXCEPT ![k] = g]
  BY <1>5, <1>6, <1>7 DEF SignTransaction
<1> HIDE DEF tx
<1>9. g \in SignedRecs /\ g.tx = tx /\ g.valid = v /\ g.late = l
  BY <1>4, <1>7 DEF SignedRecs
<1>10. v => ~l
  BY <1>5, <1>6 DEF SendInv, AllWiped
<1>11. PICK s : s = [send[k] EXCEPT !.pc = "posted"]
  OBVIOUS
<1>12. /\ s \in SendRecs /\ s.pc = "posted" /\ s.wallet = send[k].wallet /\ s.form = send[k].form
       /\ s.nonce = send[k].nonce
  BY <1>2, <1>11 DEF SendRecs, SendPCs
<1>13. send' = [send EXCEPT ![k] = s]
  BY <1>11 DEF SignTransaction
<1>14. /\ send'[k] = s /\ signed'[k] = g
       /\ \A j \in SendIds \ {k} : send'[j] = send[j] /\ signed'[j] = signed[j]
  BY <1>8, <1>13 DEF SendInv, SendTyped
<1>15. SendTyped'
  <2>1. send' \in [SendIds -> SendRecs] /\ signed' \in [SendIds -> SignedRecs]
    BY <1>8, <1>9, <1>12, <1>13 DEF SendInv, SendTyped
  <2>2. \A j \in SendIds : send'[j].pc \in UnderWay => send'[j].wallet.addr \in Senders
    BY <1>2, <1>12, <1>14 DEF SendInv, SendTyped
  <2> QED
    BY <1>1, <2>1, <2>2 DEF SendInv, SendTyped, opened_vars, shown_vars
<1>16. ASSUME NEW j \in SendIds PROVE Bound(j)'
  <2>1. CASE j # k
    BY <1>1, <1>14, <2>1 DEF SendInv, Bound
  <2>2. CASE j = k
    <3>1. approved'[k] = approved[k] /\ taken'[k] = NoTx
      BY <1>1
    <3>2. SignedFrom(tx, s)
      BY <1>4, <1>12 DEF SignedFrom
    <3> QED
      BY <1>1, <1>9, <1>10, <1>12, <1>14, <2>2, <3>1, <3>2 DEF SendInv, Bound
  <2> QED
    BY <2>1, <2>2
<1>17. AllWiped'
  BY <1>1 DEF SendInv, AllWiped, opened_vars
<1> QED
  BY <1>15, <1>16, <1>17 DEF SendInv

\* What is submitted is what was signed from the approved dialog.
LEMMA SubmitKeeps ==
  ASSUME SendInv, NEW k \in SendIds, Submit(k) PROVE SendInv'
<1> DEFINE tx == signed[k].tx
<1>0. /\ send[k].pc = "posted" /\ send[k].pc \in UnderWay /\ taken[k] = NoTx
      /\ UNCHANGED <<opened_vars, shown_vars, modal, fetch, signed, approved>>
  BY DEF Submit, SendInv, Bound, UnderWay, SendPCs
<1>1. "sent" \in SendPCs \ {"idle", "posted"} /\ "failed" \in SendPCs \ {"idle", "posted"}
  BY DEF SendPCs
<1>2. CASE send' = [send EXCEPT ![k].pc = "failed"] /\ UNCHANGED <<staged, taken>>
  BY <1>0, <1>1, <1>2, SendGoes
<1>3. ASSUME Accepts(signed[k]), taken' = [taken EXCEPT ![k] = tx],
             staged' = [staged EXCEPT ![tx.from] = tx.nonce],
             NEW pc \in {"sent", "failed"}, send' = [send EXCEPT ![k].pc = pc]
      PROVE  SendInv'
  <2>1. /\ tx \in TxRecs /\ SignedFrom(tx, send[k]) /\ ~signed[k].late
        /\ tx.from \in Senders /\ tx.nonce \in Nat
    <3>1. tx \in TxRecs
      BY DEF SendInv, SendTyped, SignedRecs
    <3>2. SignedFrom(tx, send[k]) /\ ~signed[k].late
      BY <1>0, <1>3 DEF SendInv, Bound, Accepts
    <3>3. send[k].wallet.addr \in Senders
      BY <1>0 DEF SendInv, SendTyped
    <3> QED
      BY <3>1, <3>2, <3>3 DEF SignedFrom, TxRecs
  <2>2. tx.nonce \in 0..MaxStaged
    BY <1>3, <2>1, SendingAssumption DEF Accepts
  <2> HIDE DEF tx
  <2>3. send[k] \in SendRecs /\ [send[k] EXCEPT !.pc = pc] \in SendRecs
    BY <1>1, <1>3 DEF SendInv, SendTyped, SendRecs
  <2>4. /\ send'[k].pc = pc /\ send'[k].wallet = send[k].wallet
        /\ send'[k].form = send[k].form /\ send'[k].nonce = send[k].nonce
        /\ \A j \in SendIds \ {k} : send'[j] = send[j] /\ taken'[j] = taken[j]
        /\ taken'[k] = tx
    BY <1>3, <2>3 DEF SendInv, SendTyped, SendRecs
  <2>5. SendTyped'
    <3>1. send' \in [SendIds -> SendRecs] /\ taken' \in [SendIds -> TxRecs]
      BY <1>3, <2>1, <2>3 DEF SendInv, SendTyped
    <3>2. staged' \in [Senders -> 0..MaxStaged]
      BY <1>3, <2>2 DEF SendInv, SendTyped
    <3>3. \A j \in SendIds : send'[j].pc \in UnderWay => send'[j].wallet.addr \in Senders
      BY <1>0, <2>4 DEF SendInv, SendTyped
    <3> QED
      BY <1>0, <3>1, <3>2, <3>3 DEF SendInv, SendTyped, opened_vars, shown_vars
  <2>6. ASSUME NEW j \in SendIds PROVE Bound(j)'
    <3>1. CASE j # k
      BY <1>0, <2>4, <3>1 DEF SendInv, Bound
    <3>2. CASE j = k
      <4>1. approved'[k] = approved[k] /\ signed'[k] = signed[k]
        BY <1>0
      <4>2. SignedFrom(tx, send'[k])
        BY <2>1, <2>4 DEF SignedFrom
      <4> QED
        BY <1>0, <2>1, <2>4, <3>2, <4>1, <4>2 DEF SendInv, Bound
    <3> QED
      BY <3>1, <3>2
  <2>7. AllWiped'
    BY <1>0 DEF SendInv, AllWiped, opened_vars
  <2> QED
    BY <2>5, <2>6, <2>7 DEF SendInv
<1> QED
  BY <1>2, <1>3 DEF Submit

\* A send is over: its modal may be gone, and the form is cleared.
LEMMA HandleSendKeeps ==
  ASSUME SendInv, NEW k \in SendIds, HandleSendEnds(k) PROVE SendInv'
<1> DEFINE over == [NoSend EXCEPT !.pc = "over"]
<1>1. over \in SendRecs /\ over.pc = "over" /\ over.pc \notin UnderWay /\ NoTx \in TxRecs
      /\ NoSigned \in SignedRecs
      /\ EmptyForm \in Forms
  BY SendingTypes DEF UnderWay
<1>2. /\ send' = [send EXCEPT ![k] = over] /\ taken' = [taken EXCEPT ![k] = NoTx]
      /\ signed' = [signed EXCEPT ![k] = NoSigned]
      /\ approved' = [approved EXCEPT ![k] = NoTx]
      /\ UNCHANGED <<opened_vars, dialog, modal, fetch, staged>>
  BY DEF HandleSendEnds
<1>3. \/ UNCHANGED <<form, nextNonce, nonceStatus>>
      \/ form' = EmptyForm /\ nextNonce' = 0 /\ nonceStatus' = "loading"
  BY DEF HandleSendEnds
<1> HIDE DEF over
<1>4. /\ send'[k] = over /\ taken'[k] = NoTx
      /\ \A j \in SendIds \ {k} : /\ send'[j] = send[j] /\ taken'[j] = taken[j]
                                  /\ approved'[j] = approved[j] /\ signed'[j] = signed[j]
  BY <1>2 DEF SendInv, SendTyped
<1>5. SendTyped'
  <2>1. form' \in Forms /\ nextNonce' \in 0..(MaxStaged + 1)
        /\ nonceStatus' \in {"loading", "error", "ready"}
    BY <1>1, <1>3, SendingAssumption DEF SendInv, SendTyped
  <2>2. /\ send' \in [SendIds -> SendRecs] /\ taken' \in [SendIds -> TxRecs]
        /\ approved' \in [SendIds -> TxRecs] /\ signed' \in [SendIds -> SignedRecs]
    BY <1>1, <1>2 DEF SendInv, SendTyped
  <2>3. \A j \in SendIds : send'[j].pc \in UnderWay => send'[j].wallet.addr \in Senders
    BY <1>1, <1>4 DEF SendInv, SendTyped
  <2> QED
    BY <1>2, <2>1, <2>2, <2>3 DEF SendInv, SendTyped, opened_vars
<1>6. ASSUME NEW j \in SendIds PROVE Bound(j)'
  BY <1>1, <1>4 DEF SendInv, Bound
<1>7. AllWiped'
  BY <1>2 DEF SendInv, AllWiped, opened_vars
<1> QED
  BY <1>5, <1>6, <1>7 DEF SendInv

-----------------------------------------------------------------------------
(* The wallet around the panel.                                            *)

\* A wallet that opens is a new object of an account.
LEMMA OpenedTyped ==
  ASSUME SendInv, NEW a \in Senders, OpensWallet(a)
  PROVE  /\ opened' \in 1..MaxWallets /\ wallet' \in WalletRecs
         /\ wallet'.id = opened' /\ wallet'.id # 0 /\ wallet'.addr \in Senders
<1>1. opened' \in 1..MaxWallets /\ opened' # 0 /\ opened' \in 0..MaxWallets
  BY SendingAssumption DEF OpensWallet, SendInv, SendTyped
<1> QED
  BY <1>1 DEF OpensWallet, WalletRecs

\* Switching, locking and unlocking wipe the wallet that was open, and no other.
LEMMA WalletKeeps ==
  ASSUME SendInv, SwitchAccount \/ LockWallet \/ UnlockWallet \/ OtherSend PROVE SendInv'
<1>1. CASE SwitchAccount
  <2>1. PICK a \in Senders : OpensWallet(a)
    BY <1>1 DEF SwitchAccount
  <2>2. mounted' # 0 /\ mounted' = mounted
    BY <1>1 DEF SwitchAccount, Free, SendInv, SendTyped
  <2>3. SendTyped'
    BY <1>1, <2>1, <2>2, OpenedTyped DEF SwitchAccount, shown_vars, SendInv, SendTyped
  <2>4. AllWiped' /\ UNCHANGED <<send, signed, taken, approved>>
    BY <1>1 DEF SwitchAccount, SendInv, AllWiped
  <2> QED
    BY <2>3, <2>4, QuietSend
<1>2. CASE UnlockWallet
  <2>1. PICK a \in Senders : OpensWallet(a)
    BY <1>2 DEF UnlockWallet
  <2>2. mounted' # 0 /\ mounted' \in 0..MaxWallets
    BY <1>2, <2>1, OpenedTyped DEF UnlockWallet, WalletRecs
  <2>3. SendTyped'
    BY <1>2, <2>1, <2>2, OpenedTyped DEF UnlockWallet, shown_vars, SendInv, SendTyped
  <2>4. AllWiped' /\ UNCHANGED <<send, signed, taken, approved>>
    BY <1>2 DEF UnlockWallet, SendInv, AllWiped
  <2> QED
    BY <2>3, <2>4, QuietSend
<1>3. CASE LockWallet
  <2>1. wallet' \in WalletRecs /\ wallet'.id = 0
    BY <1>3, SendingAssumption DEF LockWallet, WalletRecs
  <2>2. mounted' = 0 /\ mounted' \in 0..MaxWallets /\ nextNonce' \in 0..(MaxStaged + 1)
    BY <1>3, SendingAssumption DEF LockWallet, Unmounted
  <2>3. /\ form' \in Forms /\ dialog' = FALSE /\ modal' = FALSE /\ nonceStatus' = "loading"
        /\ fetch' \in [FetchIds -> Senders \cup {"none"}]
    BY <1>3, SendingTypes DEF LockWallet, Unmounted
  <2>4. SendTyped'
    BY <1>3, <2>1, <2>2, <2>3 DEF LockWallet, SendInv, SendTyped
  <2>5. AllWiped' /\ UNCHANGED <<send, signed, taken, approved>>
    BY <1>3 DEF LockWallet, Wiped, SendInv, AllWiped
  <2> QED
    BY <2>4, <2>5, QuietSend
<1>4. CASE OtherSend
  <2>1. staged' \in [Senders -> 0..MaxStaged]
    BY <1>4, SendingAssumption DEF OtherSend, SendInv, SendTyped
  <2>2. SendTyped'
    BY <1>4, <2>1 DEF OtherSend, opened_vars, shown_vars, SendInv, SendTyped
  <2>3. AllWiped' /\ UNCHANGED <<send, signed, taken, approved>>
    BY <1>4 DEF OtherSend, opened_vars, SendInv, AllWiped
  <2> QED
    BY <2>2, <2>3, QuietSend
<1> QED
  BY <1>1, <1>2, <1>3, <1>4

\* Every step of the page, the wallet and the node keeps SendInv.
LEMMA SendNextInv == ASSUME SendInv, [SendNext]_send_vars PROVE SendInv'
<1>1. CASE UNCHANGED send_vars
  BY <1>1 DEF send_vars, opened_vars, shown_vars, SendInv, SendTyped, AllWiped, Bound
<1>2. ASSUME NEW k \in SendIds, Confirm(k) \/ SendProgress(k) PROVE SendInv'
  BY <1>2, ConfirmKeeps, StageFetchKeeps, SendStandardKeeps, SendFetchKeeps, SignKeeps,
     SubmitKeeps, HandleSendKeeps DEF SendProgress
<1>3. ASSUME NEW f \in FetchIds, RequestSend(f) \/ DialogFetchEnds(f) PROVE SendInv'
  BY <1>3, RequestKeeps, DialogFetchKeeps
<1>4. CASE EditForm \/ CancelDialog \/ CloseModal
  BY <1>4, FormKeeps
<1>5. CASE SwitchAccount \/ LockWallet \/ UnlockWallet \/ OtherSend
  BY <1>5, WalletKeeps
<1> QED
  BY <1>1, <1>2, <1>3, <1>4, <1>5 DEF SendNext

-----------------------------------------------------------------------------
(* What holds of every behaviour.                                          *)

\* Every send under way stays the one that was approved, and every wallet lock() closed is
\* wiped, whatever lands in between.
THEOREM SendsStayBound == SendSpec => []SendInv
<1>1. SendInit => SendInv
  BY SendInitInv
<1>2. SendInv /\ [SendNext]_send_vars => SendInv'
  BY SendNextInv
<1> QED
  BY <1>1, <1>2, PTL DEF SendSpec

\* The node takes only what the dialog showed when it was confirmed: sendStandard signs
\* what the closure of handleSend captured, and no later fetch, form, account or send
\* reaches it.
THEOREM OnlyApprovedTaken == SendSpec => []TakenWasApproved
<1>1. SendInv => TakenWasApproved
  <2> SUFFICES ASSUME SendInv, NEW k \in SendIds, taken[k] # NoTx
               PROVE  /\ approved[k].from = taken[k].from /\ approved[k].form = taken[k].form
                      /\ approved[k].nonce # 0 => approved[k].nonce = taken[k].nonce
    BY DEF TakenWasApproved
  <2>1. send[k].pc \in UnderWay
    BY DEF SendInv, Bound, UnderWay, SendPCs
  <2> QED
    BY <2>1 DEF SendInv, Bound, SignedFrom
<1> QED
  BY <1>1, SendsStayBound, PTL

\* lock() zeroes the bytes a send shares: nothing that is signed with them later is taken,
\* however long the send, the request and its answer are on their way.
THEOREM LockedSignsNothing == SendSpec => []LockStopsUnsigned
<1>1. SendInv => LockStopsUnsigned
  BY DEF SendInv, Bound, LockStopsUnsigned
<1> QED
  BY <1>1, SendsStayBound, PTL

\* Only what is locked is wiped.
LockedBeforeWiped == wiped \subseteq closed

LEMMA WipedStep == LockedBeforeWiped /\ [SendNext]_send_vars => LockedBeforeWiped'
<1> SUFFICES ASSUME wiped \subseteq closed, [SendNext]_send_vars PROVE (wiped \subseteq closed)'
  BY DEF LockedBeforeWiped
<1>1. CASE LockWallet
  BY <1>1 DEF LockWallet, Wiped
<1>2. CASE UNCHANGED <<wiped, closed>>
  BY <1>2
<1> QED
  BY <1>1, <1>2 DEF SendNext, send_vars, opened_vars, SendProgress, Confirm, StageFetch, SendStandard, SendFetchEnds,
     SignTransaction, Submit, HandleSendEnds, RequestSend, DialogFetchEnds, EditForm, CancelDialog, CloseModal, SwitchAccount,
     UnlockWallet, OtherSend

LEMMA SendWholeInit == SendInit => SendInv /\ LockedBeforeWiped
BY SendInitInv DEF SendInit, LockedBeforeWiped

LEMMA SendWholeTypes == SendInv /\ LockedBeforeWiped => SendTypeOK
BY DEF LockedBeforeWiped, SendInv, SendTyped, SendTypeOK, WalletRecs, Forms, SendRecs, SendPCs

-----------------------------------------------------------------------------
(* Amounts.                                                                *)

LEMMA DigitsOfValues ==
  /\ DigitValue \in [Digit -> 0..9] /\ \A d \in Digit : DigitValue[d] \in Nat
  /\ \A n \in 0..9 : DigitOf(n) \in Digit /\ DigitValue[DigitOf(n)] = n
  /\ DigitValue["0"] = 0
<1> DEFINE list == <<"0", "1", "2", "3", "4", "5", "6", "7", "8", "9">>
<1>1. /\ list[1] = "0" /\ list[2] = "1" /\ list[3] = "2" /\ list[4] = "3" /\ list[5] = "4"
      /\ list[6] = "5" /\ list[7] = "6" /\ list[8] = "7" /\ list[9] = "8" /\ list[10] = "9"
  OBVIOUS
<1>2. DigitValue = [d \in Digit |-> CHOOSE n \in 0..9 : d = list[n + 1]]
  BY DEF DigitValue
<1> HIDE DEF list
<1>3. \A n \in 0..9 : n = 0 \/ n = 1 \/ n = 2 \/ n = 3 \/ n = 4 \/ n = 5 \/ n = 6 \/ n = 7 \/ n = 8 \/ n = 9
  OBVIOUS
<1>4. \A n \in 0..9 : list[n + 1] \in Digit
  BY <1>1, <1>3 DEF Digit
<1>5. \A m, n \in 0..9 : list[m + 1] = list[n + 1] => m = n
  BY <1>1, <1>3
<1>6. ASSUME NEW d \in Digit PROVE \E n \in 0..9 : d = list[n + 1]
  <2>1. 0 \in 0..9 /\ 1 \in 0..9 /\ 2 \in 0..9 /\ 3 \in 0..9 /\ 4 \in 0..9 /\ 5 \in 0..9 /\ 6 \in 0..9
        /\ 7 \in 0..9 /\ 8 \in 0..9 /\ 9 \in 0..9
    OBVIOUS
  <2>2. /\ 0 + 1 = 1 /\ 1 + 1 = 2 /\ 2 + 1 = 3 /\ 3 + 1 = 4 /\ 4 + 1 = 5
        /\ 5 + 1 = 6 /\ 6 + 1 = 7 /\ 7 + 1 = 8 /\ 8 + 1 = 9 /\ 9 + 1 = 10
    OBVIOUS
  <2> QED
    BY <1>1, <2>1, <2>2 DEF Digit
<1>7. ASSUME NEW d \in Digit PROVE DigitValue[d] \in 0..9 /\ d = list[DigitValue[d] + 1]
  BY <1>2, <1>6
<1>8. ASSUME NEW n \in 0..9 PROVE DigitValue[list[n + 1]] = n
  BY <1>4, <1>5, <1>7
<1>9. ASSUME NEW n \in 0..9 PROVE DigitOf(n) \in Digit /\ DigitValue[DigitOf(n)] = n
  BY <1>4, <1>8 DEF DigitOf
<1>10. "0" = list[0 + 1] /\ 0 \in 0..9
  BY <1>1
<1>11. DigitValue \in [Digit -> 0..9]
  BY <1>2, <1>7
<1>13. \A d \in Digit : DigitValue[d] \in Nat
  BY <1>7
<1>12. DigitValue["0"] = 0
  BY <1>8, <1>10
<1> QED
  BY <1>9, <1>11, <1>12, <1>13

-----------------------------------------------------------------------------
(* A numeral, read from its front.                                         *)

\* The number so far, and after the last character.
Reads(r, s) ==
  /\ r[0] = 0
  /\ \A k \in 0..Len(s) - 1 : r[k + 1] = 10 * r[k] + DigitValue[s[k + 1]]
  /\ Numeral(s) = r[Len(s)]

LEMMA NumeralIsARun ==
  ASSUME NEW s \in Seq(Digit)
  PROVE  \E r : Reads(r, s)
<1> DEFINE L == Len(s)
           G == [i \in 1..L |-> [n \in Nat |-> 10 * n + DigitValue[s[i]]]]
           Eq(f) == f = [t \in SUBSET (1..L) |->
                          IF t = {} THEN 0 ELSE 10 * f[t \ {Max(t)}] + DigitValue[s[Max(t)]]]
           f == CHOOSE f : Eq(f)
<1>1. L \in Nat /\ DOMAIN s = 1..L /\ \A i \in 1..L : s[i] \in Digit
  BY LenProperties
<1>2. \A i \in 1..L : DigitValue[s[i]] \in Nat
  BY <1>1, DigitsOfValues
<1>3. G \in [1..L -> [Nat -> Nat]]
  BY <1>1, <1>2
<1> HIDE DEF G
<1>4. PICK g \in [SUBSET (1..L) -> Nat] : Unfolds(g, 0, L, G)
  <2>1. 0 \in Nat
    OBVIOUS
  <2> HIDE DEF L
  <2> QED
    BY <1>1, <1>3, <2>1, FoldIsDefined
<1>5. Eq(g)
  <2> DEFINE h == [t \in SUBSET (1..L) |->
                     IF t = {} THEN 0 ELSE 10 * g[t \ {Max(t)}] + DigitValue[s[Max(t)]]]
  <2>1. ASSUME NEW t \in SUBSET (1..L) PROVE g[t] = h[t]
    <3>1. CASE t = {}
      BY <1>4, <3>1 DEF Unfolds
    <3>2. CASE t # {}
      <4>1. Max(t) \in 1..L /\ t \ {Max(t)} \in SUBSET (1..L) /\ g[t] = G[Max(t)][g[t \ {Max(t)}]]
        BY <1>4, <3>2 DEF Unfolds
      <4>2. g[t \ {Max(t)}] \in Nat
        BY <1>4, <4>1
      <4>3. G[Max(t)][g[t \ {Max(t)}]] = 10 * g[t \ {Max(t)}] + DigitValue[s[Max(t)]]
        BY <4>1, <4>2 DEF G
      <4> QED
        BY <3>2, <4>1, <4>3
    <3> QED
      BY <3>1, <3>2
  <2> HIDE DEF h
  <2>2. g = [t \in SUBSET (1..L) |-> g[t]]
    BY <1>4
  <2>3. h = [t \in SUBSET (1..L) |-> h[t]]
    BY DEF h
  <2>4. g = h
    BY <2>1, <2>2, <2>3
  <2> QED
    BY <2>4 DEF h
<1>6. Eq(f)
  BY <1>5
<1>7. Numeral(s) = f[1..L]
  BY <1>1 DEF Numeral, FoldLeft, MapThenFoldSet
<1> HIDE DEF f, G
<1> DEFINE r == [k \in 0..L |-> f[1..k]]
<1>8. r[0] = 0
  <2>1. 1..0 = {} /\ {} \in SUBSET (1..L)
    BY <1>1
  <2> QED
    BY <1>1, <1>6, <2>1
<1>9. ASSUME NEW k \in 0..L - 1 PROVE r[k + 1] = 10 * r[k] + DigitValue[s[k + 1]]
  <2>1. k \in Nat /\ k \in 0..L /\ k + 1 \in 0..L /\ k + 1 \in 1..k + 1
    BY <1>1
  <2>2. 1..k + 1 \in SUBSET (1..L) /\ 1..k + 1 # {}
    BY <1>1, <2>1
  <2>3. f[1..k + 1] = 10 * f[(1..k + 1) \ {Max(1..k + 1)}] + DigitValue[s[Max(1..k + 1)]]
    BY <1>6, <2>2
  <2>4. Max(1..k + 1) = k + 1 /\ (1..k + 1) \ {k + 1} = 1..k
    BY <2>1, MaxOfInterval
  <2> QED
    BY <2>1, <2>3, <2>4
<1>10. r[L] = f[1..L]
  BY <1>1
<1> HIDE DEF r
<1>11. Reads(r, s)
  BY <1>7, <1>8, <1>9, <1>10 DEF Reads
<1> QED
  BY <1>11

LEMMA ReadsNumbers ==
  ASSUME NEW s \in Seq(Digit), NEW r, Reads(r, s)
  PROVE  \A k \in 0..Len(s) : r[k] \in Nat
<1>1. Len(s) \in Nat /\ \A k \in 0..Len(s) - 1 : s[k + 1] \in Digit
  BY LenProperties
<1>2. \A k \in 0..Len(s) - 1 : DigitValue[s[k + 1]] \in Nat
  BY <1>1, DigitsOfValues
<1>3. r[0] \in Nat
  BY DEF Reads
<1>4. ASSUME NEW k \in 0..Len(s) - 1, r[k] \in Nat PROVE r[k + 1] \in Nat
  <2>1. r[k + 1] = 10 * r[k] + DigitValue[s[k + 1]]
    BY DEF Reads
  <2>2. DigitValue[s[k + 1]] \in Nat
    BY <1>2
  <2> QED
    BY <1>4, <2>1, <2>2
<1> QED
  BY <1>1, <1>3, <1>4, StepsKeep

LEMMA NumeralIsNat ==
  ASSUME NEW s \in Seq(Digit)
  PROVE  Numeral(s) \in Nat
<1>1. PICK r : Reads(r, s)
  BY NumeralIsARun
<1>2. Len(s) \in 0..Len(s)
  BY LenProperties
<1> QED
  BY <1>1, <1>2, ReadsNumbers DEF Reads

LEMMA NumeralOfNothing == Numeral(<<>>) = 0
<1>1. <<>> \in Seq(Digit) /\ Len(<<>>) = 0
  BY EmptySeq
<1> QED
  BY <1>1, NumeralIsARun DEF Reads

LEMMA NumeralOfAppend ==
  ASSUME NEW s \in Seq(Digit), NEW d \in Digit
  PROVE  Numeral(Append(s, d)) = 10 * Numeral(s) + DigitValue[d]
<1> DEFINE t == Append(s, d)
           L == Len(s)
<1>1. /\ t \in Seq(Digit) /\ L \in Nat /\ Len(t) = L + 1 /\ t[L + 1] = d
      /\ \A k \in 1..L : t[k] = s[k]
  BY AppendProperties, LenProperties
<1> HIDE DEF t
<1>2. PICK r : Reads(r, s)
  BY NumeralIsARun
<1>3. PICK q : Reads(q, t)
  BY <1>1, NumeralIsARun
<1> DEFINE S == {k \in Nat : k <= L => q[k] = r[k]}
<1>4. S \in SUBSET Nat /\ 0 \in S
  BY <1>2, <1>3 DEF Reads
<1>5. ASSUME NEW k \in S PROVE k + 1 \in S
  <2> SUFFICES ASSUME k + 1 <= L PROVE q[k + 1] = r[k + 1]
    OBVIOUS
  <2>1. k \in 0..L - 1 /\ k \in 0..Len(t) - 1 /\ q[k] = r[k] /\ t[k + 1] = s[k + 1]
    BY <1>1
  <2> QED
    BY <1>2, <1>3, <2>1 DEF Reads
<1> HIDE DEF S
<1>6. S = Nat
  BY <1>4, <1>5, Induction
<1>7. q[L] = r[L]
  BY <1>1, <1>6 DEF S
<1>8. q[L + 1] = 10 * q[L] + DigitValue[t[L + 1]]
  BY <1>1, <1>3 DEF Reads
<1> QED
  BY <1>1, <1>2, <1>3, <1>7, <1>8 DEF Reads, t

-----------------------------------------------------------------------------
(* The digits of a number.                                                 *)

LEMMA DigitsUnfold ==
  ASSUME NEW n \in Nat
  PROVE  /\ Digits(n) \in Seq(Digit)
         /\ n < 10 => Digits(n) = <<DigitOf(n)>>
         /\ n >= 10 => n \div 10 \in Nat /\ Digits(n) = Append(Digits(n \div 10), DigitOf(n % 10))
<1> DEFINE Small == 0..9
           base == [k \in Small |-> <<DigitOf(k)>>]
           prev == [k \in Nat |-> k \div 10]
           G == [k \in Nat |-> [s \in Seq(Digit) |-> Append(s, DigitOf(k % 10))]]
           Eq(f) == f = [k \in Nat |-> IF k < 10 THEN <<DigitOf(k)>> ELSE Append(f[k \div 10], DigitOf(k % 10))]
<1>1. \A k \in Nat : k % 10 \in 0..9 /\ k \div 10 \in Nat /\ (k >= 10 => k \div 10 < k)
  OBVIOUS
<1>2. base \in [Small -> Seq(Digit)]
  BY DigitsOfValues
<1>3. prev \in [Nat -> Nat] /\ \A k \in Nat \ Small : prev[k] < k
  BY <1>1
<1>4. G \in [Nat -> [Seq(Digit) -> Seq(Digit)]]
  BY <1>1, DigitsOfValues, AppendProperties
<1>5. PICK g \in [Nat -> Seq(Digit)] : Recurs(g, Small, base, prev, G)
  <2>1. Small \in SUBSET Nat
    OBVIOUS
  <2> HIDE DEF Small, base, prev, G
  <2> QED
    BY <1>2, <1>3, <1>4, <2>1, RecursionIsDefined
<1>6. Eq(g)
  <2> DEFINE h == [k \in Nat |-> IF k < 10 THEN <<DigitOf(k)>> ELSE Append(g[k \div 10], DigitOf(k % 10))]
  <2>1. ASSUME NEW k \in Nat PROVE g[k] = h[k]
    <3>1. g[k] = IF k \in Small THEN base[k] ELSE G[k][g[prev[k]]]
      BY <1>5 DEF Recurs
    <3>2. CASE k < 10
      <4>1. k \in Small /\ h[k] = <<DigitOf(k)>>
        BY <3>2
      <4>2. base[k] = <<DigitOf(k)>>
        BY <4>1
      <4> QED
        BY <3>1, <4>1, <4>2
    <3>3. CASE k >= 10
      <4>0. k \notin Small /\ prev[k] = k \div 10 /\ prev[k] \in Nat
        BY <1>3, <3>3
      <4>1. g[prev[k]] \in Seq(Digit)
        BY <1>5, <4>0
      <4>2. G[k][g[prev[k]]] = Append(g[prev[k]], DigitOf(k % 10))
        BY <4>1
      <4>3. h[k] = Append(g[k \div 10], DigitOf(k % 10))
        BY <3>3
      <4> QED
        BY <3>1, <4>0, <4>2, <4>3
    <3> QED
      BY <3>2, <3>3
  <2> HIDE DEF h
  <2>2. g = [k \in Nat |-> g[k]]
    BY <1>5
  <2>3. h = [k \in Nat |-> h[k]]
    BY DEF h
  <2>4. g = h
    BY <2>1, <2>2, <2>3
  <2> QED
    BY <2>4 DEF h
<1>7. Eq(DigitsFrom)
  <2>1. DigitsFrom = CHOOSE f : Eq(f)
    BY DEF DigitsFrom
  <2> HIDE DEF Eq
  <2> QED
    BY <1>6, <2>1
<1>9. /\ \A k \in Nat : k < 10 => DigitsFrom[k] = <<DigitOf(k)>>
      /\ \A k \in Nat : k >= 10 => DigitsFrom[k] = Append(DigitsFrom[k \div 10], DigitOf(k % 10))
      /\ DOMAIN DigitsFrom = Nat
  <2> DEFINE h == [k \in Nat |-> IF k < 10 THEN <<DigitOf(k)>> ELSE Append(DigitsFrom[k \div 10], DigitOf(k % 10))]
  <2>1. DigitsFrom = h
    BY <1>7
  <2>2. \A k \in Nat : k < 10 => h[k] = <<DigitOf(k)>>
    OBVIOUS
  <2>3. ASSUME NEW k \in Nat, k >= 10 PROVE h[k] = Append(DigitsFrom[k \div 10], DigitOf(k % 10))
    <3>1. ~(k < 10)
      BY <2>3
    <3> QED
      BY <3>1, Zenon
  <2>4. DOMAIN h = Nat
    OBVIOUS
  <2> HIDE DEF h
  <2> QED
    BY <2>1, <2>2, <2>3, <2>4
<1>8. DigitsFrom \in [Nat -> Seq(Digit)]
  <2> DEFINE D == {k \in Nat : DigitsFrom[k] \notin Seq(Digit)}
  <2>1. ASSUME D # {} PROVE FALSE
    <3>1. PICK k \in D : \A j \in D : k <= j
      <4>1. D \in SUBSET Nat
        OBVIOUS
      <4> HIDE DEF D
      <4> QED
        BY <2>1, <4>1, LeastNat
    <3>2. k \in Nat /\ DigitsFrom[k] \notin Seq(Digit)
      OBVIOUS
    <3>3. CASE k < 10
      <4>1. DigitsFrom[k] = <<DigitOf(k)>> /\ k \in 0..9
        BY <1>9, <3>2, <3>3
      <4>2. DigitOf(k) \in Digit
        BY <4>1, DigitsOfValues
      <4>3. <<DigitOf(k)>> \in Seq(Digit)
        BY <4>2
      <4> QED
        BY <3>2, <4>1, <4>3
    <3>4. CASE k >= 10
      <4>1. k \div 10 \in Nat /\ k \div 10 < k /\ k % 10 \in 0..9
        BY <1>1, <3>2, <3>4
      <4>2. DigitsFrom[k \div 10] \in Seq(Digit)
        BY <3>1, <4>1
      <4>3. DigitsFrom[k] = Append(DigitsFrom[k \div 10], DigitOf(k % 10))
        BY <1>9, <3>2, <3>4
      <4> QED
        <5>1. DigitOf(k % 10) \in Digit
          BY <4>1, DigitsOfValues
        <5>2. Append(DigitsFrom[k \div 10], DigitOf(k % 10)) \in Seq(Digit)
          BY <4>2, <5>1, AppendProperties
        <5> QED
          BY <3>2, <4>3, <5>2
    <3> QED
      BY <3>2, <3>3, <3>4
  <2>2. DigitsFrom = [k \in Nat |-> DigitsFrom[k]]
    BY <1>7
  <2> QED
    BY <2>1, <2>2
<1>10. DigitsFrom[n] \in Seq(Digit)
  BY <1>8
<1> HIDE DEF Eq
<1> QED
  BY <1>1, <1>9, <1>10 DEF Digits

\* A number is what its digits say.
LEMMA NumeralOfDigits ==
  ASSUME NEW n \in Nat
  PROVE  /\ Numeral(Digits(n)) = n /\ Digits(n) # <<>>
         /\ Digits(n) \in Seq(Digit)
<1> DEFINE D == {k \in Nat : Numeral(Digits(k)) # k}
<1>1. ASSUME D # {} PROVE FALSE
  <2>1. PICK k \in D : \A j \in D : k <= j
    <3>1. D \in SUBSET Nat
      OBVIOUS
    <3> HIDE DEF D
    <3> QED
      BY <1>1, <3>1, LeastNat
  <2>2. k \in Nat /\ Numeral(Digits(k)) # k
    OBVIOUS
  <2>3. CASE k < 10
    <3>1. <<DigitOf(k)>> = Append(<<>>, DigitOf(k)) /\ <<>> \in Seq(Digit)
      OBVIOUS
    <3>2. DigitOf(k) \in Digit /\ DigitValue[DigitOf(k)] = k
      BY <2>2, <2>3, DigitsOfValues
    <3>3. Digits(k) = Append(<<>>, DigitOf(k))
      BY <2>2, <2>3, <3>1, DigitsUnfold
    <3>4. Numeral(Digits(k)) = 10 * 0 + k
      BY <3>1, <3>2, <3>3, NumeralOfAppend, NumeralOfNothing
    <3> QED
      BY <2>2, <3>4
  <2>4. CASE k >= 10
    <3>1. k \div 10 \in Nat /\ k \div 10 < k /\ k % 10 \in 0..9 /\ 10 * (k \div 10) + (k % 10) = k
      BY <2>2, <2>4
    <3>2. Numeral(Digits(k \div 10)) = k \div 10 /\ Digits(k \div 10) \in Seq(Digit)
      BY <2>1, <3>1, DigitsUnfold
    <3>3. DigitOf(k % 10) \in Digit /\ DigitValue[DigitOf(k % 10)] = k % 10
      BY <3>1, DigitsOfValues
    <3>4. Digits(k) = Append(Digits(k \div 10), DigitOf(k % 10))
      BY <2>2, <2>4, DigitsUnfold
    <3>5. Numeral(Digits(k)) = 10 * (k \div 10) + (k % 10)
      BY <3>2, <3>3, <3>4, NumeralOfAppend
    <3> QED
      BY <2>2, <3>1, <3>5
  <2> QED
    BY <2>2, <2>3, <2>4
<1>2. Digits(n) # <<>>
  <2>1. CASE n < 10
    BY <2>1, DigitsUnfold
  <2>2. CASE n >= 10
    <3>1. n \div 10 \in Nat /\ n % 10 \in 0..9
      BY <2>2
    <3> QED
      BY <2>2, <3>1, DigitsUnfold, DigitsOfValues, AppendProperties
  <2> QED
    BY <2>1, <2>2
<1> QED
  BY <1>1, <1>2, DigitsUnfold

-----------------------------------------------------------------------------
(* Zeros at either end.                                                    *)

LEMMA ZerosAre ==
  ASSUME NEW n \in Nat
  PROVE  /\ Zeros(n) \in Seq(Digit) /\ Len(Zeros(n)) = n
         /\ \A i \in 1..n : Zeros(n)[i] = "0"
<1>1. "0" \in Digit
  BY DEF Digit
<1>2. Zeros(n) \in [1..n -> Digit]
  BY <1>1 DEF Zeros
<1>3. Zeros(n) \in Seq(Digit)
  BY <1>2, SeqDef
<1>4. Len(Zeros(n)) = n
  BY <1>2, <1>3, LenProperties
<1> QED
  BY <1>3, <1>4 DEF Zeros

LEMMA NumeralAfterZeros ==
  ASSUME NEW k \in Nat
  PROVE  \A s \in Seq(Digit) : Numeral(Zeros(k) \o s) = Numeral(s)
<1> DEFINE Z == {n \in Nat : Numeral(Zeros(n)) = 0}
           S == {n \in Nat : \A s \in Seq(Digit) : Len(s) = n => Numeral(Zeros(k) \o s) = Numeral(s)}
<1>1. "0" \in Digit /\ DigitValue["0"] = 0
  BY DigitsOfValues DEF Digit
<1>2. 0 \in Z
  <2>1. Zeros(0) \in Seq(Digit) /\ Len(Zeros(0)) = 0
    BY ZerosAre
  <2>2. Zeros(0) = <<>>
    BY <2>1, EmptySeq
  <2> QED
    BY <2>2, NumeralOfNothing
<1>3. ASSUME NEW n \in Z PROVE n + 1 \in Z
  <2>1. n \in Nat /\ n + 1 \in Nat /\ Numeral(Zeros(n)) = 0
    OBVIOUS
  <2>2. /\ Zeros(n) \in Seq(Digit) /\ Len(Zeros(n)) = n
        /\ \A i \in 1..n : Zeros(n)[i] = "0"
    BY <2>1, ZerosAre
  <2>3. /\ Zeros(n + 1) \in Seq(Digit) /\ Len(Zeros(n + 1)) = n + 1
        /\ \A i \in 1..n + 1 : Zeros(n + 1)[i] = "0"
    BY <2>1, ZerosAre
  <2> DEFINE t == Append(Zeros(n), "0")
  <2>4. /\ t \in Seq(Digit) /\ Len(t) = n + 1 /\ t[n + 1] = "0"
        /\ \A i \in 1..n : t[i] = "0"
    BY <1>1, <2>2, AppendProperties
  <2>5. Numeral(t) = 10 * 0 + 0
    BY <1>1, <2>1, <2>2, NumeralOfAppend
  <2> HIDE DEF t
  <2>6. \A i \in 1..n + 1 : Zeros(n + 1)[i] = t[i]
    <3>1. \A i \in 1..n + 1 : i \in 1..n \/ i = n + 1
      BY <2>1
    <3> QED
      BY <2>3, <2>4, <3>1
  <2>7. Zeros(n + 1) = t
    BY <2>3, <2>4, <2>6, SeqEqual
  <2> QED
    BY <2>1, <2>5, <2>7
<1> HIDE DEF Z
<1>4. Z = Nat
  <2>1. Z \in SUBSET Nat
    BY DEF Z
  <2> QED
    BY <1>2, <1>3, <2>1, Induction
<1>5. Zeros(k) \in Seq(Digit) /\ Numeral(Zeros(k)) = 0
  BY <1>4, ZerosAre DEF Z
<1>6. 0 \in S
  <2> SUFFICES ASSUME NEW s \in Seq(Digit), Len(s) = 0 PROVE Numeral(Zeros(k) \o s) = Numeral(s)
    OBVIOUS
  <2>1. s = <<>>
    BY EmptySeq
  <2>2. Zeros(k) \o s = Zeros(k)
    BY <1>5, <2>1, ConcatEmptySeq
  <2> QED
    BY <1>5, <2>1, <2>2, NumeralOfNothing
<1>7. ASSUME NEW n \in S PROVE n + 1 \in S
  <2> SUFFICES ASSUME NEW s \in Seq(Digit), Len(s) = n + 1 PROVE Numeral(Zeros(k) \o s) = Numeral(s)
    OBVIOUS
  <2>1. s # <<>>
    BY EmptySeq
  <2>2. PICK r \in Seq(Digit), d \in Digit : s = Append(r, d)
    BY <2>1, SequenceEmptyOrAppend
  <2>3. Len(r) = n
    BY <2>2, AppendProperties, LenProperties
  <2>4. Numeral(Zeros(k) \o r) = Numeral(r) /\ Zeros(k) \o r \in Seq(Digit)
    BY <1>5, <2>3, ConcatProperties
  <2>5. Zeros(k) \o s = Append(Zeros(k) \o r, d)
    <3>1. s = r \o <<d>> /\ <<d>> \in Seq(Digit) /\ Append(Zeros(k) \o r, d) = (Zeros(k) \o r) \o <<d>>
      BY <2>2, <2>4, AppendIsConcat
    <3> QED
      BY <1>5, <3>1, ConcatAssociative
  <2> QED
    BY <2>2, <2>4, <2>5, NumeralOfAppend
<1> HIDE DEF S
<1>8. S = Nat
  <2>1. S \in SUBSET Nat
    BY DEF S
  <2> QED
    BY <1>6, <1>7, <2>1, Induction
<1> QED
  <2> SUFFICES ASSUME NEW s \in Seq(Digit) PROVE Numeral(Zeros(k) \o s) = Numeral(s)
    OBVIOUS
  <2>1. Len(s) \in S
    BY <1>8, LenProperties
  <2> QED
    BY <2>1 DEF S

\* A numeral that is padded says the same.
LEMMA PaddedStart ==
  ASSUME NEW s \in Seq(Digit), NEW n \in Nat
  PROVE  /\ PadStart(s, n) \in Seq(Digit) /\ Len(PadStart(s, n)) \in Nat /\ Len(PadStart(s, n)) >= n
         /\ Numeral(PadStart(s, n)) = Numeral(s)
<1>1. Len(s) \in Nat
  BY LenProperties
<1>2. CASE Len(s) < n
  <2>1. n - Len(s) \in Nat /\ PadStart(s, n) = Zeros(n - Len(s)) \o s
    BY <1>1, <1>2 DEF PadStart
  <2>2. Zeros(n - Len(s)) \in Seq(Digit) /\ Len(Zeros(n - Len(s))) = n - Len(s)
    BY <2>1, ZerosAre
  <2>3. PadStart(s, n) \in Seq(Digit) /\ Len(PadStart(s, n)) = (n - Len(s)) + Len(s)
    BY <2>1, <2>2, ConcatProperties
  <2> QED
    BY <1>1, <2>1, <2>3, NumeralAfterZeros
<1>3. CASE ~(Len(s) < n)
  BY <1>1, <1>3 DEF PadStart
<1> QED
  BY <1>2, <1>3

\* What is left without the zeros at the end, up to the last other digit.
LEMMA DroppedZeros ==
  ASSUME NEW s \in Seq(Digit)
  PROVE  \E m \in 0..Len(s) :
           /\ DropZeros(s) = SubSeq(s, 1, m)
           /\ DropZeros(s) \in Seq(Digit) /\ Len(DropZeros(s)) = m
           /\ \A i \in 1..m : DropZeros(s)[i] = s[i]
           /\ \A i \in m + 1..Len(s) : s[i] = "0"
           /\ m > 0 => s[m] # "0"
<1> DEFINE L == Len(s)
           I == {i \in 1..L : \E j \in i..L : s[j] # "0"}
           M == {k \in Nat : k <= L /\ \A i \in k + 1..L : s[i] = "0"}
<1>1. L \in Nat /\ DOMAIN s = 1..L /\ \A i \in 1..L : s[i] \in Digit
  BY LenProperties
<1>2. M \in SUBSET Nat /\ L \in M
  BY <1>1
<1>3. PICK m \in M : \A k \in M : m <= k
  <2> HIDE DEF M
  <2> QED
    BY <1>2, LeastNat
<1>4. m \in Nat /\ m <= L /\ \A i \in m + 1..L : s[i] = "0"
  OBVIOUS
<1>5. ASSUME m > 0 PROVE s[m] # "0"
  <2> SUFFICES ASSUME s[m] = "0" PROVE FALSE
    OBVIOUS
  <2>1. \A i \in (m - 1) + 1..L : i = m \/ i \in m + 1..L
    BY <1>1, <1>4, <1>5
  <2>2. \A i \in (m - 1) + 1..L : s[i] = "0"
    BY <1>4, <2>1
  <2>3. m - 1 \in M
    BY <1>4, <1>5, <2>2
  <2> HIDE DEF M
  <2>4. m <= m - 1
    BY <1>3, <2>3
  <2> QED
    BY <1>4, <2>4
<1>6. I = 1..m
  <2>1. ASSUME NEW i \in 1..m PROVE i \in I
    <3>1. m > 0 /\ m \in i..L
      BY <1>1, <1>4
    <3> QED
      BY <1>1, <1>4, <1>5, <3>1
  <2>2. ASSUME NEW i \in I PROVE i \in 1..m
    <3>1. PICK j \in i..L : s[j] # "0"
      OBVIOUS
    <3>2. i \in 1..L /\ j \notin m + 1..L
      BY <1>4, <3>1
    <3> QED
      BY <1>1, <1>4, <3>1, <3>2
  <2> HIDE DEF I
  <2> QED
    <3>1. 1..m \subseteq I
      BY <2>1
    <3>2. I \subseteq 1..m
      BY <2>2
    <3> QED
      BY <3>1, <3>2
<1>7. Cardinality(1..m) = m
  BY <1>4, FS_Interval
<1>8. DropZeros(s) = SubSeq(s, 1, m)
  BY <1>1, <1>6, <1>7 DEF DropZeros
<1>9. \A i \in 1..m : s[i] \in Digit
  BY <1>1, <1>4
<1> DEFINE t == SubSeq(s, 1, m)
<1>10. t \in Seq(Digit) /\ Len(t) = m /\ \A i \in 1..m : t[i] = s[i]
  <2>1. /\ t \in Seq(Digit) /\ Len(t) = IF 1 <= m THEN m - 1 + 1 ELSE 0
        /\ \A i \in 1..m - 1 + 1 : t[i] = s[1 + i - 1]
    BY <1>4, <1>9, SubSeqProperties
  <2> HIDE DEF t
  <2> QED
    BY <1>4, <2>1
<1> HIDE DEF t
<1>11. m \in 0..L
  BY <1>1, <1>4
<1> QED
  BY <1>4, <1>5, <1>8, <1>10, <1>11 DEF t

\* The zeros come back at the end, and those that were dropped stay away.
LEMMA PaddedEnd ==
  ASSUME NEW s \in Seq(Digit)
  PROVE  /\ DropZeros(s) \in Seq(Digit) /\ Len(DropZeros(s)) \in 0..Len(s)
         /\ PadEnd(DropZeros(s), Len(s)) = s
         /\ DropZeros(DropZeros(s)) = DropZeros(s)
<1> DEFINE L == Len(s)
           t == DropZeros(s)
<1>1. L \in Nat
  BY LenProperties
<1>2. PICK m \in 0..L : /\ t = SubSeq(s, 1, m) /\ t \in Seq(Digit) /\ Len(t) = m
                        /\ \A i \in 1..m : t[i] = s[i]
                        /\ \A i \in m + 1..L : s[i] = "0"
                        /\ m > 0 => s[m] # "0"
  BY DroppedZeros
<1> HIDE DEF t
<1>3. PadEnd(t, L) = s
  <2>1. CASE m < L
    <3> DEFINE z == Zeros(L - m)
               u == t \o z
    <3>0. L - m \in Nat
      BY <1>1, <2>1
    <3>1. z \in Seq(Digit) /\ Len(z) = L - m /\ \A i \in 1..L - m : z[i] = "0"
      BY <3>0, ZerosAre
    <3> HIDE DEF z
    <3>7. /\ u \in Seq(Digit) /\ Len(u) = Len(t) + Len(z)
          /\ \A i \in 1..Len(t) + Len(z) : u[i] = IF i <= Len(t) THEN t[i] ELSE z[i - Len(t)]
      BY <1>2, <3>1, ConcatProperties
    <3>2. /\ u \in Seq(Digit) /\ Len(u) = m + (L - m)
          /\ \A i \in 1..m + (L - m) : u[i] = IF i <= m THEN t[i] ELSE z[i - m]
      BY <1>2, <3>1, <3>7
    <3>3. PadEnd(t, L) = u
      BY <1>2, <2>1 DEF PadEnd, z
    <3> HIDE DEF u
    <3>4. ASSUME NEW i \in 1..L PROVE u[i] = s[i]
      <4>1. CASE i <= m
        BY <1>1, <1>2, <3>2, <4>1
      <4>2. CASE ~(i <= m)
        BY <1>1, <1>2, <3>1, <3>2, <4>2
      <4> QED
        BY <4>1, <4>2
    <3>5. Len(u) = L
      BY <1>1, <3>2
    <3>6. u = s
      <4> HIDE DEF L
      <4> QED
        BY <3>2, <3>4, <3>5, SeqEqual DEF L
    <3> QED
      BY <3>3, <3>6
  <2>2. CASE ~(m < L)
    <3>1. m = L /\ PadEnd(t, L) = t
      BY <1>1, <1>2, <2>2 DEF PadEnd
    <3> QED
      BY <1>2, <3>1, SeqEqual
  <2> QED
    BY <2>1, <2>2
<1>4. DropZeros(t) = t
  <2>1. PICK k \in 0..m : /\ DropZeros(t) = SubSeq(t, 1, k)
                          /\ \A i \in k + 1..m : t[i] = "0"
    <3>1. \E k \in 0..Len(t) : DropZeros(t) = SubSeq(t, 1, k) /\ \A i \in k + 1..Len(t) : t[i] = "0"
      BY <1>2, DroppedZeros
    <3> QED
      BY <1>2, <3>1
  <2>2. k = m
    <3> SUFFICES ASSUME k < m PROVE FALSE
      BY <1>1
    <3>1. m > 0 /\ m \in k + 1..m /\ m \in 1..m
      BY <1>1
    <3> QED
      BY <1>2, <2>1, <3>1
  <2> QED
    BY <1>2, <2>1, <2>2, SubSeqFull
<1> QED
  BY <1>1, <1>2, <1>3, <1>4 DEF t

-----------------------------------------------------------------------------
(* A text with a point.                                                    *)

Pointed(whole, frac) == whole \o (IF frac = <<>> THEN <<>> ELSE <<".">> \o frac)

\* Its two parts are found again.
LEMMA PartsOfPointed ==
  ASSUME NEW whole \in Seq(Digit), NEW frac \in Seq(Digit)
  PROVE  /\ WholePart(Pointed(whole, frac)) = whole
         /\ Fraction(Pointed(whole, frac)) = frac
         /\ HasPoint(Pointed(whole, frac)) <=> frac # <<>>
<1> DEFINE C == Digit \cup {"."}
           t == Pointed(whole, frac)
           W == Len(whole)
           F == Len(frac)
<1>1. /\ W \in Nat /\ F \in Nat /\ whole \in Seq(C) /\ frac \in Seq(C)
      /\ \A i \in 1..W : whole[i] \in Digit
      /\ \A i \in 1..F : frac[i] \in Digit
      /\ DOMAIN whole = 1..W
  BY LenProperties, SeqMonotonic
<1>2. "." \notin Digit /\ "." \in C
  BY DEF Digit
<1>3. CASE frac = <<>>
  <2>1. t = whole
    BY <1>3, ConcatEmptySeq DEF Pointed
  <2>2. ~HasPoint(t)
    BY <1>1, <1>2, <2>1 DEF HasPoint, ToSet
  <2>3. WholePart(t) = whole
    BY <2>1, <2>2 DEF WholePart
  <2>4. Fraction(t) = SubSeq(whole, W + 2, W)
    BY <2>1, <2>3 DEF Fraction
  <2>5. SubSeq(whole, W + 2, W) = <<>>
    <3>1. W + 2 \in Int /\ W \in Int /\ W < W + 2
      BY <1>1
    <3> QED
      BY <3>1, SubSeqEmpty
  <2> QED
    BY <1>3, <2>2, <2>3, <2>4, <2>5
<1>4. CASE frac # <<>>
  <2> DEFINE p == <<".">> \o frac
  <2>1. <<".">> \in Seq(C) /\ Len(<<".">>) = 1 /\ <<".">>[1] = "."
    BY <1>2
  <2>2. /\ p \in Seq(C) /\ Len(p) = 1 + F
        /\ \A i \in 1..1 + F : p[i] = IF i <= 1 THEN <<".">>[i] ELSE frac[i - 1]
    BY <1>1, <2>1, ConcatProperties
  <2>3. t = whole \o p
    BY <1>4 DEF Pointed
  <2> HIDE DEF p, t, C
  <2>0. /\ t \in Seq(C) /\ Len(t) = Len(whole) + Len(p)
        /\ \A i \in 1..Len(whole) + Len(p) : t[i] = IF i <= Len(whole) THEN whole[i] ELSE p[i - Len(whole)]
    BY <1>1, <2>2, <2>3, ConcatProperties
  <2>4. /\ t \in Seq(C) /\ Len(t) = W + (1 + F)
        /\ \A i \in 1..W + (1 + F) : t[i] = IF i <= W THEN whole[i] ELSE p[i - W]
    BY <2>0, <2>2
  <2>5. /\ \A i \in 1..W : t[i] = whole[i] /\ t[i] # "."
        /\ t[W + 1] = "."
        /\ \A i \in 1..F : t[W + 1 + i] = frac[i]
    <3>1. \A i \in 1..W : t[i] = whole[i] /\ t[i] # "."
      BY <1>1, <1>2, <2>4
    <3>2. t[W + 1] = p[1] /\ p[1] = "."
      BY <1>1, <2>1, <2>2, <2>4
    <3>3. ASSUME NEW i \in 1..F PROVE t[W + 1 + i] = frac[i]
      <4>1. t[W + 1 + i] = p[1 + i]
        BY <1>1, <2>4
      <4>2. p[1 + i] = frac[i]
        BY <1>1, <2>2
      <4> QED
        BY <4>1, <4>2
    <3> QED
      BY <3>1, <3>2, <3>3
  <2>6. DOMAIN t = 1..Len(t) /\ W + 1 \in DOMAIN t
    <3>1. DOMAIN t = 1..Len(t)
      BY <2>4, LenProperties
    <3> QED
      BY <1>1, <2>4, <3>1
  <2>7. HasPoint(t)
    BY <2>5, <2>6 DEF HasPoint, ToSet
  <2> DEFINE First(i) == t[i] = "." /\ \A j \in 1..i - 1 : t[j] # "."
  <2>8. First(W + 1)
    BY <1>1, <2>5
  <2>9. ASSUME NEW i \in DOMAIN t, First(i) PROVE i = W + 1
    <3>1. i \in Nat /\ i >= 1 /\ i <= W + (1 + F)
      BY <1>1, <2>4, <2>6
    <3>2. ~(i <= W)
      BY <2>5, <2>9, <3>1
    <3>3. ~(i > W + 1)
      <4> SUFFICES ASSUME i > W + 1 PROVE FALSE
        OBVIOUS
      <4>1. W + 1 \in 1..i - 1
        BY <1>1, <3>1
      <4> QED
        BY <2>5, <2>9, <4>1
    <3> QED
      BY <1>1, <3>1, <3>2, <3>3
  <2>10. WholePart(t) = SubSeq(t, 1, (CHOOSE i \in DOMAIN t : First(i)) - 1)
    BY <2>7 DEF WholePart
  <2>11. (CHOOSE i \in DOMAIN t : First(i)) = W + 1
    <3> HIDE DEF First
    <3> QED
      BY <2>6, <2>8, <2>9
  <2>12. WholePart(t) = SubSeq(t, 1, W)
    <3>1. (W + 1) - 1 = W
      BY <1>1
    <3> QED
      BY <2>10, <2>11, <3>1
  <2>13. SubSeq(t, 1, W) = whole
    <3> DEFINE u == SubSeq(t, 1, W)
    <3>1. \A i \in 1..W : t[i] \in Digit
      BY <1>1, <2>5
    <3>2. /\ u \in Seq(Digit) /\ Len(u) = IF 1 <= W THEN W - 1 + 1 ELSE 0
          /\ \A i \in 1..W - 1 + 1 : u[i] = t[1 + i - 1]
      BY <1>1, <3>1, SubSeqProperties
    <3> HIDE DEF u
    <3>3. Len(u) = W /\ \A i \in 1..W : u[i] = whole[i]
      <4>1. W - 1 + 1 = W /\ \A i \in 1..W : 1 + i - 1 = i
        BY <1>1
      <4>2. Len(u) = W
        BY <1>1, <3>2
      <4> QED
        BY <2>5, <3>2, <4>1, <4>2
    <3>4. u = whole
      BY <3>2, <3>3, SeqEqual
    <3> QED
      BY <3>4 DEF u
  <2>14. Fraction(t) = SubSeq(t, W + 2, W + (1 + F))
    BY <2>4, <2>12, <2>13 DEF Fraction
  <2>15. SubSeq(t, W + 2, W + (1 + F)) = frac
    <3> DEFINE u == SubSeq(t, W + 2, W + (1 + F))
    <3>1. \A i \in W + 2..W + (1 + F) : t[i] \in Digit
      <4> SUFFICES ASSUME NEW i \in W + 2..W + (1 + F) PROVE t[i] \in Digit
        OBVIOUS
      <4>1. i - (W + 1) \in 1..F /\ W + 1 + (i - (W + 1)) = i
        BY <1>1
      <4> QED
        BY <1>1, <2>5, <4>1
    <3>2. W + 2 \in Int /\ W + (1 + F) \in Int
      BY <1>1
    <3>3. /\ u \in Seq(Digit)
          /\ Len(u) = IF W + 2 <= W + (1 + F) THEN (W + (1 + F)) - (W + 2) + 1 ELSE 0
          /\ \A i \in 1..(W + (1 + F)) - (W + 2) + 1 : u[i] = t[W + 2 + i - 1]
      BY <3>1, <3>2, SubSeqProperties
    <3> HIDE DEF u
    <3>4. Len(u) = F
      BY <1>1, <3>3
    <3>5. ASSUME NEW i \in 1..F PROVE u[i] = frac[i]
      <4>1. i \in 1..(W + (1 + F)) - (W + 2) + 1 /\ W + 2 + i - 1 = W + 1 + i
        BY <1>1
      <4> QED
        BY <2>5, <3>3, <4>1
    <3>6. u = frac
      BY <3>3, <3>4, <3>5, SeqEqual
    <3> QED
      BY <3>6 DEF u
  <2> QED
    BY <1>4, <2>7, <2>12, <2>13, <2>14, <2>15 DEF t
<1> QED
  BY <1>3, <1>4

\* A long enough list of digits, cut before its last ones.
LEMMA CutDigits ==
  ASSUME NEW s \in Seq(Digit), NEW n \in Nat, Len(s) > n
  PROVE  LET whole == SubSeq(s, 1, Len(s) - n)
             frac  == SubSeq(s, Len(s) - n + 1, Len(s))
         IN /\ whole \in Seq(Digit) /\ whole # <<>>
            /\ frac \in Seq(Digit) /\ Len(frac) = n
            /\ whole \o frac = s
<1> DEFINE L == Len(s)
           whole == SubSeq(s, 1, L - n)
           frac  == SubSeq(s, L - n + 1, L)
<1>1. L \in Nat /\ \A i \in 1..L : s[i] \in Digit
  BY LenProperties
<1>2. L - n \in Int /\ L \in Int /\ L - n + 1 \in Int /\ L - n >= 1 /\ L - n \in 0..L /\ 1 \in 1..L + 1
  BY <1>1
<1>3. whole \in Seq(Digit) /\ Len(whole) = IF 1 <= L - n THEN L - n - 1 + 1 ELSE 0
  BY <1>1, <1>2, SubSeqProperties
<1>4. frac \in Seq(Digit) /\ Len(frac) = IF L - n + 1 <= L THEN L - (L - n + 1) + 1 ELSE 0
  BY <1>1, <1>2, SubSeqProperties
<1>5. whole \o frac = SubSeq(s, 1, L)
  <2>1. 1 \in 1..Len(s) + 1 /\ L - n \in 1 - 1..Len(s) /\ L \in L - n..Len(s)
    BY <1>1
  <2> QED
    BY <2>1, ConcatAdjacentSubSeq
<1>6. whole \o frac = s
  BY <1>5, SubSeqFull
<1>7. Len(whole) # 0 /\ Len(frac) = n
  BY <1>1, <1>2, <1>3, <1>4
<1> QED
  BY <1>3, <1>4, <1>6, <1>7, EmptySeq

LEMMA DigitsAreDigits ==
  ASSUME NEW s \in Seq(Digit), s # <<>>
  PROVE  IsDigits(s)
BY LenProperties DEF IsDigits, ToSet

-----------------------------------------------------------------------------
(* What is formatted parses to itself.                                     *)

\* An OCT amount that was formatted parses to itself, whatever its size.
THEOREM FormattedOctParses ==
  \A raw \in Nat : ParseAmountRaw(FormatAmount(Digits(raw))) = raw
<1> SUFFICES ASSUME NEW raw \in Nat PROVE ParseAmountRaw(FormatAmount(Digits(raw))) = raw
  OBVIOUS
<1> DEFINE s == Digits(raw)
           D == OctDecimals
           p == PadStart(s, D + 1)
           whole == SubSeq(p, 1, Len(p) - D)
           last == SubSeq(p, Len(p) - D + 1, Len(p))
           frac == DropZeros(last)
<1>1. s \in Seq(Digit) /\ s # <<>> /\ Numeral(s) = raw
  BY NumeralOfDigits
<1>2. D \in Nat /\ D # 0 /\ D + 1 \in Nat
  BY AmountsAssumption
<1> HIDE DEF s, D
<1>3. Len(s) \in Nat \ {0} /\ DOMAIN s = 1..Len(s) /\ \A i \in 1..Len(s) : s[i] \in Digit
  BY <1>1, LenProperties, EmptySeq
<1>4. s[1] # "-" /\ ~HasPoint(s) /\ IsDigits(s)
  <2>1. "-" \notin Digit /\ "." \notin Digit
    BY DEF Digit
  <2>2. 1 \in 1..Len(s)
    BY <1>3
  <2>3. IsDigits(s)
    BY <1>1, DigitsAreDigits
  <2> QED
    BY <1>3, <2>1, <2>2, <2>3 DEF HasPoint, ToSet
<1>5. /\ p \in Seq(Digit) /\ Len(p) \in Nat /\ Len(p) > D
      /\ Numeral(p) = Numeral(s)
  <2>1. p \in Seq(Digit) /\ Len(p) \in Nat /\ Len(p) >= D + 1 /\ Numeral(p) = Numeral(s)
    BY <1>1, <1>2, PaddedStart
  <2> HIDE DEF p
  <2> QED
    BY <1>2, <2>1
<1> HIDE DEF p
<1>6. /\ whole \in Seq(Digit) /\ whole # <<>> /\ last \in Seq(Digit) /\ Len(last) = D
      /\ whole \o last = p
  BY <1>2, <1>5, CutDigits
<1> HIDE DEF whole, last
<1>7. FormatAmount(s) = Pointed(whole, frac)
  <2>1. FormatAmount(s) = <<>> \o whole \o (IF frac = <<>> THEN <<>> ELSE <<".">> \o frac)
    <3>1. PadStart(Digits(Numeral(s)), OctDecimals + 1) = p
      BY <1>1 DEF p, D, s
    <3> QED
      BY <1>1, <1>4, <3>1 DEF FormatAmount, whole, last, D
  <2>2. <<>> \o whole = whole
    BY <1>6, ConcatEmptySeq
  <2> QED
    BY <2>1, <2>2 DEF Pointed
<1>8. frac \in Seq(Digit) /\ Len(frac) \in 0..D /\ PadEnd(frac, D) = last
  BY <1>6, PaddedEnd
<1> HIDE DEF frac
<1> DEFINE t == Pointed(whole, frac)
<1>9. WholePart(t) = whole /\ Fraction(t) = frac /\ (HasPoint(t) => frac # <<>>)
  BY <1>6, <1>8, PartsOfPointed
<1> HIDE DEF t
<1>10. IsDigits(WholePart(t)) /\ (HasPoint(t) => IsDigits(Fraction(t)))
  BY <1>6, <1>8, <1>9, DigitsAreDigits
<1>11. SubSeq(PadEnd(Fraction(t), D), 1, D) = last
  <2>1. SubSeq(last, 1, Len(last)) = last
    BY <1>6, SubSeqFull
  <2> QED
    BY <1>6, <1>8, <1>9, <2>1
<1>12. ParseAmountRaw(t) = Numeral(whole \o last)
  BY <1>9, <1>10, <1>11 DEF ParseAmountRaw, D
<1> QED
  BY <1>1, <1>5, <1>6, <1>7, <1>12 DEF t, s

\* All of a token balance can be sent: its exact form, which MAX fills in, parses to it and
\* passes the form's check.
THEOREM MaxTokenAmountIsAll ==
  \A raw \in 0..MAX_U128, decimals \in Nat :
    LET exact == FormatTokenAmount(raw, decimals).exact IN
    /\ ParseAmountToRaw(exact, decimals) = raw
    /\ raw > 0 => CanSubmitAmount(exact, decimals, raw)
<1> SUFFICES ASSUME NEW raw \in 0..MAX_U128, NEW decimals \in Nat
             PROVE  ParseAmountToRaw(FormatTokenAmount(raw, decimals).exact, decimals) = raw
  <2>1. \A raw \in 0..MAX_U128 : raw \in Int
    BY AmountsAssumption
  <2> QED
    BY <2>1 DEF CanSubmitAmount
<1>0. MAX_U128 \in Nat /\ raw \in Nat /\ raw <= MAX_U128
  BY AmountsAssumption
<1> DEFINE s == Digits(raw)
<1>1. s \in Seq(Digit) /\ s # <<>> /\ Numeral(s) = raw
  BY <1>0, NumeralOfDigits
<1> HIDE DEF s
\* In both cases: digits, a whole part of them, and the rest without its last zeros.
<1>2. ASSUME NEW whole \in Seq(Digit), whole # <<>>, NEW last \in Seq(Digit), Len(last) = decimals,
             Numeral(whole \o last) = raw,
             FormatTokenAmount(raw, decimals).exact = Pointed(whole, DropZeros(last))
      PROVE  ParseAmountToRaw(FormatTokenAmount(raw, decimals).exact, decimals) = raw
  <2> DEFINE frac == DropZeros(last)
             t == Pointed(whole, frac)
  <2>1. /\ frac \in Seq(Digit) /\ Len(frac) \in 0..decimals /\ PadEnd(frac, decimals) = last
        /\ DropZeros(frac) = frac
    BY <1>2, PaddedEnd
  <2>2. FormatTokenAmount(raw, decimals).exact = t
    BY <1>2
  <2> HIDE DEF frac
  <2>3. WholePart(t) = whole /\ Fraction(t) = frac
    BY <2>1, PartsOfPointed
  <2> HIDE DEF t
  <2>4. whole \o frac \in Seq(Digit) /\ whole \o frac # <<>>
    BY <1>2, <2>1, ConcatProperties, ConcatEqualIffEmpty
  <2>5. ToSet(whole \o frac) \ Digit = {}
    BY <2>4, DigitsAreDigits DEF IsDigits
  <2>6. decimals # NoDecimals
    BY DEF NoDecimals
  <2>7. ~(Len(frac) > decimals)
    BY <2>1
  <2>8. Numeral(whole \o PadEnd(frac, decimals)) = raw
    BY <1>2, <2>1
  <2> QED
    BY <1>0, <2>1, <2>2, <2>3, <2>4, <2>5, <2>6, <2>7, <2>8 DEF ParseAmountToRaw
<1>3. CASE decimals = 0
  <2>1. FormatTokenAmount(raw, decimals).exact = s
    BY <1>3 DEF FormatTokenAmount, s
  <2>2. <<>> \in Seq(Digit) /\ Len(<<>>) = 0
    BY EmptySeq
  <2>3. DropZeros(<<>>) = <<>>
    <3>1. DropZeros(<<>>) \in Seq(Digit) /\ Len(DropZeros(<<>>)) \in 0..0
      BY <2>2, PaddedEnd
    <3>2. Len(DropZeros(<<>>)) = 0
      BY <3>1
    <3> QED
      BY <3>1, <3>2, EmptySeq
  <2>4. s \o <<>> = s /\ Pointed(s, <<>>) = s
    BY <1>1, ConcatEmptySeq DEF Pointed
  <2> QED
    BY <1>1, <1>2, <1>3, <2>1, <2>2, <2>3, <2>4
<1>4. CASE decimals # 0
  <2> DEFINE p == PadStart(s, decimals + 1)
             whole == SubSeq(p, 1, Len(p) - decimals)
             last == SubSeq(p, Len(p) - decimals + 1, Len(p))
  <2>1. /\ p \in Seq(Digit) /\ Len(p) \in Nat /\ Len(p) >= decimals + 1
        /\ Numeral(p) = Numeral(s)
    BY <1>1, PaddedStart
  <2> HIDE DEF p
  <2>2. Len(p) > decimals
    BY <2>1
  <2>3. /\ whole \in Seq(Digit) /\ whole # <<>> /\ last \in Seq(Digit) /\ Len(last) = decimals
        /\ whole \o last = p
    BY <2>1, <2>2, CutDigits
  <2>4. FormatTokenAmount(raw, decimals).exact
          = IF DropZeros(last) = <<>> THEN whole ELSE whole \o <<".">> \o DropZeros(last)
    <3>1. ~(decimals <= 0)
      BY <1>4
    <3> QED
      BY <3>1 DEF FormatTokenAmount, p, s
  <2> HIDE DEF whole, last
  <2>5. DropZeros(last) \in Seq(Digit)
    BY <2>3, PaddedEnd
  <2>6. FormatTokenAmount(raw, decimals).exact = Pointed(whole, DropZeros(last))
    <3> DEFINE C == Digit \cup {"."}
    <3>1. whole \in Seq(C) /\ DropZeros(last) \in Seq(C) /\ <<".">> \in Seq(C)
      BY <2>3, <2>5, SeqMonotonic
    <3>2. (whole \o <<".">>) \o DropZeros(last) = whole \o (<<".">> \o DropZeros(last))
      <4> HIDE DEF C
      <4> QED
        BY <3>1, ConcatAssociative
    <3>3. whole \o <<>> = whole
      BY <2>3, ConcatEmptySeq
    <3> QED
      BY <2>4, <3>2, <3>3 DEF Pointed
  <2> QED
    BY <1>1, <1>2, <2>1, <2>3, <2>6
<1> QED
  BY <1>3, <1>4

-----------------------------------------------------------------------------
(* Signing.                                                                *)

\* What the session may have signed: requests that it lets through, with their prompts.
AllowedRequests    == {req \in SignRequests : CanBeSigned(req)}
Signatures == UNION {{Signature(req, PromptOf(req, n)) : n \in 1..2} : req \in AllowedRequests}

SignInv ==
  /\ asked \in SignRequests \cup {NoRequest} /\ chainNonce \in 1..2
  /\ signatures \in Seq(Signatures) /\ Len(signatures) <= MaxSigned
  /\ asked = NoRequest => detail = NoPrompt
  /\ asked # NoRequest =>
       /\ asked \in AllowedRequests /\ Len(signatures) < MaxSigned
       /\ \E n \in 1..2 : detail = PromptOf(asked, n)

LEMMA RequestsHaveKinds == \A req \in SignRequests : req.kind # "none" /\ req # NoRequest
BY SigningAssumption DEF NoRequest

LEMMA SignTypesHold == SignInv => SignTypeOK
<1> SUFFICES ASSUME SignInv PROVE SignTypeOK
  OBVIOUS
<1>1. ASSUME asked # NoRequest PROVE detail # NoPrompt
  <2>1. PICK n \in 1..2 : detail = PromptOf(asked, n)
    BY <1>1 DEF SignInv
  <2>2. detail.kind = asked.kind
    BY <2>1 DEF PromptOf
  <2> QED
    BY <1>1, <2>2, RequestsHaveKinds DEF SignInv, NoPrompt
<1> QED
  BY <1>1 DEF SignInv, SignTypeOK

LEMMA SignInvInit == SignInit => SignInv
<1> SUFFICES ASSUME SignInit PROVE SignInv
  OBVIOUS
<1>1. <<>> \in Seq(Signatures) /\ Len(<<>>) = 0
  BY EmptySeq
<1> QED
  BY <1>1, SigningAssumption DEF SignInit, SignInv

LEMMA SignInvStep == SignInv /\ [SignNext]_sign_vars => SignInv'
<1> SUFFICES ASSUME SignInv, [SignNext]_sign_vars PROVE SignInv'
  OBVIOUS
<1> USE DEF SignInv
<1>1. ASSUME NEW req \in SignRequests, Ask(req) PROVE SignInv'
  <2>1. req # NoRequest /\ req \in AllowedRequests /\ asked' = req
    BY <1>1, RequestsHaveKinds DEF Ask, AllowedRequests
  <2> QED
    BY <1>1, <2>1 DEF Ask
<1>2. CASE RejectRequest
  BY <1>2 DEF RejectRequest
<1>3. CASE NonceMoves
  BY <1>3 DEF NonceMoves
<1>4. CASE Approve
  <2>1. PICK n \in 1..2 : detail = PromptOf(asked, n)
    BY <1>4 DEF Approve
  <2>2. Signature(asked, detail) \in Signatures
    BY <1>4, <2>1 DEF Approve, Signatures
  <2>3. signatures' = signatures \/ (signatures' \in Seq(Signatures) /\ Len(signatures') = Len(signatures) + 1)
    <3>1. signatures' = signatures \/ signatures' = Append(signatures, Signature(asked, detail))
      BY <1>4 DEF Approve
    <3> QED
      BY <1>4, <2>2, <3>1, AppendProperties DEF Approve
  <2>4. Len(signatures) \in Nat /\ Len(signatures) < MaxSigned
    BY <1>4, LenProperties DEF Approve
  <2> QED
    BY <1>4, <2>3, <2>4, SigningAssumption DEF Approve
<1>5. CASE UNCHANGED sign_vars
  BY <1>5 DEF sign_vars
<1> QED
  BY <1>1, <1>2, <1>3, <1>4, <1>5 DEF SignNext

LEMMA SignInvAlways == SignSpec => []SignInv
BY SignInvInit, SignInvStep, PTL DEF SignSpec

\* The requests, prompts and signatures are of their types, and there is a prompt exactly
\* while a request is being served.
THEOREM SignTypeCorrect == SignSpec => []SignTypeOK
BY SignInvAlways, SignTypesHold, PTL

LEMMA SignaturesAre ==
  ASSUME SignInv, NEW i \in DOMAIN signatures
  PROVE  \E req \in AllowedRequests, n \in 1..2 : signatures[i] = Signature(req, PromptOf(req, n))
<1>1. signatures[i] \in Signatures
  BY ElementOfSeq, LenProperties DEF SignInv
<1> QED
  BY <1>1 DEF Signatures

\* The fields of the object for the node.
LEMMA WireFields ==
  ASSUME NEW req, IsTx(req), NEW prompt
  PROVE  LET tx   == TxOfRequest(req, prompt)
             wire == ToNodeWireTx(tx, "sig")
         IN /\ wire.nonce = prompt.nonce
            /\ req.kind = "signTransfer" =>
                 /\ wire.to_ = prompt.preview.to /\ wire.amount = prompt.preview.amountRaw
                 /\ wire.ou = prompt.preview.ou
<1> DEFINE tx == TxOfRequest(req, prompt)
           wire == ToNodeWireTx(tx, "sig")
<1>1. /\ {"to", "nonce", "amount", "ou"} \subseteq DOMAIN tx
      /\ tx.nonce = prompt.nonce
      /\ req.kind = "signTransfer" =>
           /\ tx.to = prompt.preview.to /\ tx.amount = prompt.preview.amountRaw
           /\ tx.ou = prompt.preview.ou
  BY DEF TxOfRequest, NativeTransferTx, ContractCallTx
<1> HIDE DEF tx
<1>2. wire.to_ = tx.to /\ wire.nonce = tx.nonce /\ wire.amount = tx.amount /\ wire.ou = tx.ou
  BY <1>1 DEF ToNodeWireTx, WireOnly
<1> QED
  BY <1>1, <1>2 DEF tx

\* A transaction that was signed has the nonce that its prompt showed, and a transfer the
\* amount, recipient and fee, whatever became of the account meanwhile.
THEOREM SignedAgreesWithPrompt == SignSpec => []SignedAsShown
<1>1. SignInv => SignedAsShown
  <2> SUFFICES ASSUME SignInv, NEW s \in ToSet(signatures)
               PROVE  LET rows == PromptRows(s.req, s.detail) IN
                      /\ IsTx(s.req) => <<"Nonce", s.tx.nonce>> \in rows
                      /\ s.req.kind = "signTransfer" =>
                           {<<"To", s.tx.to_>>, <<"Amount", OctAmount(s.tx.amount)>>, <<"Fee", OctAmount(s.tx.ou)>>}
                             \subseteq rows
    BY DEF SignedAsShown
  <2>1. PICK i \in DOMAIN signatures : s = signatures[i]
    BY DEF ToSet
  <2>2. PICK req \in AllowedRequests, n \in 1..2 : s = Signature(req, PromptOf(req, n))
    BY <2>1, SignaturesAre
  <2> DEFINE prompt == PromptOf(req, n)
             rows == PromptRows(req, prompt)
  <2>3. s.req = req /\ s.detail = prompt /\ (IsTx(req) => s.tx = ToNodeWireTx(TxOfRequest(req, prompt), "sig"))
    BY <2>2 DEF Signature
  <2> HIDE DEF prompt
  <2>4. IsTx(req) => <<"Nonce", prompt.nonce>> \in rows
    BY DEF IsTx, PromptRows
  <2>5. req.kind = "signTransfer" =>
          {<<"To", prompt.preview.to>>, <<"Amount", OctAmount(prompt.preview.amountRaw)>>,
           <<"Fee", OctAmount(prompt.preview.ou)>>} \subseteq rows
    BY DEF PromptRows
  <2>6. req.kind = "signTransfer" => IsTx(req)
    BY DEF IsTx
  <2>7. PromptRows(s.req, s.detail) = rows
    BY <2>3
  <2> HIDE DEF rows
  <2>8. IsTx(req) => s.tx.nonce = prompt.nonce
    BY <2>3, WireFields
  <2>9. req.kind = "signTransfer" =>
          /\ s.tx.to_ = prompt.preview.to /\ s.tx.amount = prompt.preview.amountRaw
          /\ s.tx.ou = prompt.preview.ou
    BY <2>3, <2>6, WireFields
  <2> QED
    BY <2>3, <2>4, <2>5, <2>7, <2>8, <2>9
<1> QED
  BY <1>1, SignInvAlways, PTL

-----------------------------------------------------------------------------
(* Where a text stands in another.                                         *)

\* Every character that is signed.
Chars == STRING \cup Digit \cup
  {"quote", "backslash", "newline", "control", "n", "u00XX", ",", ":", "[", "]", "{", "}", "null", "true", "false", ".0",
   "octra-signed-message:v1", "octra-typed-data:v1|", "octra-contract-approval:v1|",
   "{program:", ",method:", ",args:",
   "from", "to_", "amount", "nonce", "ou", "timestamp", "op_type", "encrypted_data", "message",
   "domain", "primaryType", "name", "version", "chainId",
   "program", "method", "spender", "args", "limit", "expiry", "owner",
   "standard", "program_call"}
Texts == Seq(Chars)
MessageWords == Texts \ {<<>>}

\* s stands in x after its first p characters.
At(x, p, s) == p + Len(s) <= Len(x) /\ \A i \in 1..Len(s) : x[p + i] = s[i]

LEMMA AtConcat ==
  ASSUME NEW x \in Texts, NEW p \in Nat, NEW s \in Texts, NEW t \in Texts, At(x, p, s \o t)
  PROVE  At(x, p, s) /\ p + Len(s) \in Nat /\ At(x, p + Len(s), t)
<1> DEFINE u == s \o t
           S == Len(s)
           T == Len(t)
<1>1. S \in Nat /\ T \in Nat /\ Len(x) \in Nat
  BY LenProperties DEF Texts
<1>2. /\ Len(u) = S + T
      /\ \A i \in 1..S + T : u[i] = IF i <= S THEN s[i] ELSE t[i - S]
  BY ConcatProperties DEF Texts
<1> HIDE DEF u
<1>3. p + (S + T) <= Len(x) /\ \A i \in 1..S + T : x[p + i] = u[i]
  BY <1>2 DEF At, u
<1>4. ASSUME NEW i \in 1..S PROVE x[p + i] = s[i]
  <2>1. i \in 1..S + T /\ i <= S
    BY <1>1
  <2> QED
    BY <1>2, <1>3, <2>1
<1>5. ASSUME NEW i \in 1..T PROVE x[(p + S) + i] = t[i]
  <2>1. S + i \in 1..S + T /\ ~(S + i <= S) /\ (S + i) - S = i /\ p + (S + i) = (p + S) + i
    BY <1>1
  <2> QED
    BY <1>2, <1>3, <2>1
<1>6. p + S <= Len(x) /\ (p + S) + T <= Len(x) /\ p + S \in Nat
  BY <1>1, <1>3
<1> QED
  BY <1>4, <1>5, <1>6 DEF At

LEMMA OneChar ==
  ASSUME NEW c \in Chars
  PROVE  <<c>> \in Texts /\ Len(<<c>>) = 1 /\ <<c>>[1] = c /\ <<c>> # <<>>
BY DEF Texts

LEMMA AtSelf ==
  ASSUME NEW x \in Texts
  PROVE  At(x, 0, x)
BY LenProperties DEF At, Texts

LEMMA AtSame ==
  ASSUME NEW x, NEW p \in Nat, NEW s \in Texts, NEW t \in Texts, At(x, p, s), At(x, p, t), Len(s) = Len(t)
  PROVE  s = t
<1>1. \A i \in 1..Len(s) : s[i] = t[i]
  BY DEF At
<1> QED
  BY <1>1, SeqEqual DEF Texts

\* The first character of what stands at p.
LEMMA AtFirst ==
  ASSUME NEW x, NEW p \in Nat, NEW s \in Texts, s # <<>>, At(x, p, s)
  PROVE  x[p + 1] = s[1] /\ p + 1 <= Len(x)
<1>1. Len(s) \in Nat \ {0}
  BY EmptySeq DEF Texts
<1>2. 1 \in 1..Len(s)
  BY <1>1
<1> QED
  BY <1>1, <1>2 DEF At

-----------------------------------------------------------------------------
(* The text of a string.                                                   *)

EscapeChar(c) == CASE c \in {"quote", "backslash"} -> <<"backslash", c>>
                   [] c = "newline"                -> <<"backslash", "n">>
                   [] c = "control"                -> <<"backslash", "u00XX">>
                   [] OTHER                        -> <<c>>

LEMMA EscapeCharIs ==
  ASSUME NEW c \in Chars
  PROVE  /\ EscapeChar(c) \in Texts /\ EscapeChar(c) # <<>>
         /\ EscapeChar(c)[1] # "quote"
<1>1. "backslash" \in Chars /\ "n" \in Chars /\ "u00XX" \in Chars
  BY DEF Chars
<1>2. CASE c \in {"quote", "backslash"}
  <2>1. EscapeChar(c) = <<"backslash", c>>
    BY <1>2 DEF EscapeChar
  <2> QED
    BY <1>1, <2>1 DEF Texts
<1>3. CASE c = "newline"
  <2>1. EscapeChar(c) = <<"backslash", "n">>
    BY <1>3 DEF EscapeChar
  <2> QED
    BY <1>1, <2>1 DEF Texts
<1>4. CASE c = "control"
  <2>1. EscapeChar(c) = <<"backslash", "u00XX">>
    BY <1>4 DEF EscapeChar
  <2> QED
    BY <1>1, <2>1 DEF Texts
<1>5. CASE c \notin {"quote", "backslash", "newline", "control"}
  <2>1. EscapeChar(c) = <<c>>
    BY <1>5 DEF EscapeChar
  <2> QED
    BY <1>5, <2>1 DEF Texts
<1> QED
  BY <1>2, <1>3, <1>4, <1>5

\* A character is told by how it is written.
LEMMA EscapedCharTells ==
  ASSUME NEW x, NEW p \in Nat, NEW c \in Chars, NEW d \in Chars,
         At(x, p, EscapeChar(c)), At(x, p, EscapeChar(d))
  PROVE  c = d
<1> DEFINE Code(a) == CASE a \in {"quote", "backslash"} -> a
                        [] a = "newline" -> "n"
                        [] a = "control" -> "u00XX"
                        [] OTHER         -> "none"
           Special == {"quote", "backslash", "newline", "control"}
<1>1. ASSUME NEW a \in Chars, At(x, p, EscapeChar(a))
      PROVE  /\ a \in Special => x[p + 1] = "backslash" /\ x[p + 2] = Code(a)
             /\ a \notin Special => x[p + 1] = a
  <2>1. CASE a \in Special
    <3>1. EscapeChar(a) = <<"backslash", Code(a)>>
      BY <2>1 DEF EscapeChar
    <3> HIDE DEF Code
    <3>2. /\ Len(<<"backslash", Code(a)>>) = 2 /\ <<"backslash", Code(a)>>[1] = "backslash"
          /\ <<"backslash", Code(a)>>[2] = Code(a)
      OBVIOUS
    <3>3. 1 \in 1..2 /\ 2 \in 1..2
      OBVIOUS
    <3>4. \A i \in 1..2 : x[p + i] = <<"backslash", Code(a)>>[i]
      BY <1>1, <3>1, <3>2 DEF At
    <3> QED
      BY <2>1, <3>2, <3>3, <3>4
  <2>2. CASE a \notin Special
    <3>1. EscapeChar(a) = <<a>>
      BY <2>2 DEF EscapeChar
    <3>2. Len(<<a>>) = 1 /\ <<a>>[1] = a /\ 1 \in 1..1
      OBVIOUS
    <3> QED
      BY <1>1, <2>2, <3>1, <3>2 DEF At
  <2> QED
    BY <2>1, <2>2
<1>2. \A a, b \in Special : Code(a) = Code(b) => a = b
  OBVIOUS
<1>3. "backslash" \in Special
  OBVIOUS
<1> HIDE DEF Special, Code
<1> QED
  BY <1>1, <1>2, <1>3

\* The text so far, and after the last character.
Spells(r, s) ==
  /\ r[0] = <<>>
  /\ \A k \in 0..Len(s) - 1 : r[k + 1] = r[k] \o EscapeChar(s[k + 1])
  /\ \A k \in 0..Len(s) : r[k] \in Texts
  /\ EscapeString(s) = <<"quote">> \o r[Len(s)] \o <<"quote">>

LEMMA EscapeIsARun ==
  ASSUME NEW s \in Texts
  PROVE  \E r : Spells(r, s)
<1> DEFINE L == Len(s)
           G == [i \in 1..L |-> [out \in Texts |-> out \o EscapeChar(s[i])]]
           Eq(f) == f = [t \in SUBSET (1..L) |->
                          IF t = {} THEN <<>> ELSE f[t \ {Max(t)}] \o EscapeChar(s[Max(t)])]
           f == CHOOSE f : Eq(f)
<1>1. L \in Nat /\ DOMAIN s = 1..L /\ \A i \in 1..L : s[i] \in Chars
  BY LenProperties DEF Texts
<1>2. \A i \in 1..L : EscapeChar(s[i]) \in Texts
  BY <1>1, EscapeCharIs
<1>3. G \in [1..L -> [Texts -> Texts]]
  BY <1>2, ConcatProperties DEF Texts
<1> HIDE DEF G
<1>4. <<>> \in Texts
  BY EmptySeq DEF Texts
<1>5. PICK g \in [SUBSET (1..L) -> Texts] : Unfolds(g, <<>>, L, G)
  <2> HIDE DEF L
  <2> QED
    BY <1>1, <1>3, <1>4, FoldIsDefined
<1>6. Eq(g)
  <2> DEFINE h == [t \in SUBSET (1..L) |->
                     IF t = {} THEN <<>> ELSE g[t \ {Max(t)}] \o EscapeChar(s[Max(t)])]
  <2>1. ASSUME NEW t \in SUBSET (1..L) PROVE g[t] = h[t]
    <3>1. CASE t = {}
      BY <1>5, <3>1 DEF Unfolds
    <3>2. CASE t # {}
      <4>1. Max(t) \in 1..L /\ t \ {Max(t)} \in SUBSET (1..L) /\ g[t] = G[Max(t)][g[t \ {Max(t)}]]
        BY <1>5, <3>2 DEF Unfolds
      <4>2. g[t \ {Max(t)}] \in Texts
        BY <1>5, <4>1
      <4>3. G[Max(t)][g[t \ {Max(t)}]] = g[t \ {Max(t)}] \o EscapeChar(s[Max(t)])
        BY <4>1, <4>2 DEF G
      <4> QED
        BY <3>2, <4>1, <4>3
    <3> QED
      BY <3>1, <3>2
  <2> HIDE DEF h
  <2>2. g = [t \in SUBSET (1..L) |-> g[t]]
    BY <1>5
  <2>3. h = [t \in SUBSET (1..L) |-> h[t]]
    BY DEF h
  <2>4. g = h
    BY <2>1, <2>2, <2>3
  <2> QED
    BY <2>4 DEF h
<1>7. Eq(f)
  BY <1>6
<1>8. EscapeString(s) = <<"quote">> \o f[1..L] \o <<"quote">>
  BY <1>1 DEF EscapeString, EscapeChar, FoldLeft, MapThenFoldSet
<1> HIDE DEF f, G
<1> DEFINE r == [k \in 0..L |-> f[1..k]]
<1>9. r[0] = <<>>
  <2>1. 1..0 = {} /\ {} \in SUBSET (1..L)
    BY <1>1
  <2> QED
    BY <1>1, <1>7, <2>1
<1>10. ASSUME NEW k \in 0..L - 1 PROVE r[k + 1] = r[k] \o EscapeChar(s[k + 1])
  <2>1. k \in Nat /\ k \in 0..L /\ k + 1 \in 0..L /\ k + 1 \in 1..k + 1
    BY <1>1
  <2>2. 1..k + 1 \in SUBSET (1..L) /\ 1..k + 1 # {}
    <3>1. \A i \in 1..k + 1 : i \in 1..L
      BY <1>1, <2>1
    <3> QED
      BY <2>1, <3>1
  <2>3. f[1..k + 1] = f[(1..k + 1) \ {Max(1..k + 1)}] \o EscapeChar(s[Max(1..k + 1)])
    BY <1>7, <2>2
  <2>4. Max(1..k + 1) = k + 1 /\ (1..k + 1) \ {k + 1} = 1..k
    BY <2>1, MaxOfInterval
  <2> QED
    BY <2>1, <2>3, <2>4
<1>11. r[L] = f[1..L]
  BY <1>1
<1> HIDE DEF r
<1>12. ASSUME NEW k \in 0..L - 1, r[k] \in Texts PROVE r[k + 1] \in Texts
  <2>1. EscapeChar(s[k + 1]) \in Texts
    BY <1>1, <1>2
  <2>2. r[k] \o EscapeChar(s[k + 1]) \in Texts
    BY <1>12, <2>1, ConcatProperties DEF Texts
  <2> QED
    BY <1>10, <2>2
<1>13. \A k \in 0..L : r[k] \in Texts
  <2> HIDE DEF L
  <2> QED
    BY <1>1, <1>4, <1>9, <1>12, StepsKeep
<1>14. Spells(r, s)
  BY <1>8, <1>9, <1>10, <1>11, <1>13 DEF Spells
<1> QED
  BY <1>14

\* What is spelled at q begins with every part of the run.
LEMMA SpelledParts ==
  ASSUME NEW s \in Texts, NEW r, Spells(r, s), NEW x \in Texts, NEW q \in Nat, At(x, q, r[Len(s)])
  PROVE  /\ \A k \in 0..Len(s) : r[k] \in Texts /\ Len(r[k]) \in Nat /\ At(x, q, r[k])
         /\ \A k \in 0..Len(s) - 1 : At(x, q + Len(r[k]), EscapeChar(s[k + 1]))
<1> DEFINE L == Len(s)
           S == {j \in Nat : j <= L => At(x, q, r[L - j])}
<1>1. L \in Nat /\ \A i \in 1..L : s[i] \in Chars
  BY LenProperties DEF Texts
<1>2. \A k \in 0..L : r[k] \in Texts /\ Len(r[k]) \in Nat
  BY LenProperties DEF Spells, Texts
<1>3. ASSUME NEW k \in 0..L - 1, At(x, q, r[k + 1])
      PROVE  At(x, q, r[k]) /\ At(x, q + Len(r[k]), EscapeChar(s[k + 1]))
  <2>1. r[k + 1] = r[k] \o EscapeChar(s[k + 1])
    BY DEF Spells
  <2>2. k \in 0..L /\ k + 1 \in 1..L
    BY <1>1
  <2>3. r[k] \in Texts /\ EscapeChar(s[k + 1]) \in Texts
    BY <1>1, <1>2, <2>2, EscapeCharIs
  <2>4. At(x, q, r[k] \o EscapeChar(s[k + 1]))
    BY <1>3, <2>1
  <2> QED
    BY <2>3, <2>4, AtConcat
<1>4. 0 \in S
  <2>1. L - 0 = L
    BY <1>1
  <2> QED
    BY <2>1
<1>5. ASSUME NEW j \in S PROVE j + 1 \in S
  <2> SUFFICES ASSUME j + 1 <= L PROVE At(x, q, r[L - (j + 1)])
    OBVIOUS
  <2>1. L - (j + 1) \in 0..L - 1 /\ (L - (j + 1)) + 1 = L - j /\ j <= L
    BY <1>1
  <2>2. At(x, q, r[L - j])
    BY <2>1
  <2> QED
    BY <1>3, <2>1, <2>2
<1> HIDE DEF S
<1>6. S = Nat
  <2>1. S \in SUBSET Nat
    BY DEF S
  <2> QED
    BY <1>4, <1>5, <2>1, Induction
<1>7. ASSUME NEW k \in 0..L PROVE At(x, q, r[k])
  <2>1. L - k \in Nat /\ L - k <= L /\ L - (L - k) = k
    BY <1>1
  <2> QED
    BY <1>6, <2>1 DEF S
<1>8. ASSUME NEW k \in 0..L - 1 PROVE At(x, q + Len(r[k]), EscapeChar(s[k + 1]))
  <2>1. k + 1 \in 0..L
    BY <1>1
  <2> QED
    BY <1>3, <1>7, <2>1
<1> QED
  BY <1>2, <1>7, <1>8

\* What stands between two characters.
Enclosed(a, body, b) == <<a>> \o body \o <<b>>

LEMMA EnclosedIs ==
  ASSUME NEW a \in Chars, NEW b \in Chars, NEW body \in Texts
  PROVE  /\ Enclosed(a, body, b) \in Texts /\ Enclosed(a, body, b) # <<>> /\ Enclosed(a, body, b)[1] = a
         /\ Len(body) \in Nat /\ Len(Enclosed(a, body, b)) = Len(body) + 2
         /\ \A x \in Texts, p \in Nat : At(x, p, Enclosed(a, body, b)) =>
              x[p + 1] = a /\ At(x, p + 1, body) /\ x[(p + 1) + Len(body) + 1] = b
<1> DEFINE front == <<a>> \o body
           both == front \o <<b>>
<1>1. Len(body) \in Nat
  BY LenProperties DEF Texts
<1>2. /\ <<a>> \in Texts /\ Len(<<a>>) = 1 /\ <<a>>[1] = a
      /\ <<b>> \in Texts /\ Len(<<b>>) = 1 /\ <<b>>[1] = b /\ <<b>> # <<>> /\ <<a>> # <<>>
  BY OneChar
<1>3. front \in Texts /\ Len(front) = 1 + Len(body) /\ front[1] = a
  <2>1. 1 \in 1..Len(<<a>>) + Len(body) /\ 1 <= Len(<<a>>)
    BY <1>1, <1>2
  <2>2. /\ front \in Texts /\ Len(front) = Len(<<a>>) + Len(body)
        /\ front[1] = <<a>>[1]
    BY <1>2, <2>1, ConcatProperties DEF Texts
  <2> QED
    BY <1>2, <2>2
<1> HIDE DEF front
<1>4. both \in Texts /\ Len(both) = Len(body) + 2 /\ both[1] = a
  <2>1. 1 \in 1..Len(front) + Len(<<b>>) /\ 1 <= Len(front)
    BY <1>1, <1>2, <1>3
  <2>2. /\ both \in Texts /\ Len(both) = Len(front) + Len(<<b>>)
        /\ both[1] = front[1]
    BY <1>2, <1>3, <2>1, ConcatProperties DEF Texts
  <2> QED
    BY <1>1, <1>2, <1>3, <2>2
<1>5. both # <<>>
  BY <1>1, <1>4, EmptySeq
<1>6. ASSUME NEW x \in Texts, NEW p \in Nat, At(x, p, both)
      PROVE  x[p + 1] = a /\ At(x, p + 1, body) /\ x[(p + 1) + Len(body) + 1] = b
  <2>1. At(x, p, front) /\ p + Len(front) \in Nat /\ At(x, p + Len(front), <<b>>)
    BY <1>2, <1>3, <1>6, AtConcat
  <2>2. At(x, p, <<a>>) /\ At(x, p + Len(<<a>>), body)
    BY <1>2, <2>1, AtConcat DEF front
  <2>3. x[p + 1] = a
    BY <1>2, <2>2, AtFirst
  <2>4. x[p + Len(front) + 1] = b
    BY <1>2, <2>1, AtFirst
  <2>5. p + Len(front) + 1 = (p + 1) + Len(body) + 1
    BY <1>1, <1>3
  <2> QED
    BY <1>2, <2>2, <2>3, <2>4, <2>5
<1>7. Enclosed(a, body, b) = both
  BY DEF Enclosed, front
<1> HIDE DEF both
<1> QED
  BY <1>1, <1>4, <1>5, <1>6, <1>7

\* The text of a string is that of its characters between quotes.
LEMMA EscapedParts ==
  ASSUME NEW s \in Texts, NEW r, Spells(r, s)
  PROVE  /\ r[Len(s)] \in Texts /\ Len(r[Len(s)]) \in Nat
         /\ EscapeString(s) \in MessageWords /\ EscapeString(s)[1] = "quote"
         /\ \A x \in Texts, p \in Nat : At(x, p, EscapeString(s)) =>
              At(x, p + 1, r[Len(s)]) /\ x[(p + 1) + Len(r[Len(s)]) + 1] = "quote"
<1>1. Len(s) \in 0..Len(s)
  BY LenProperties DEF Texts
<1>2. r[Len(s)] \in Texts
  BY <1>1 DEF Spells
<1>3. "quote" \in Chars
  BY DEF Chars
<1>4. EscapeString(s) = Enclosed("quote", r[Len(s)], "quote")
  BY DEF Spells, Enclosed
<1> DEFINE body == r[Len(s)]
           text == EscapeString(s)
<1> HIDE DEF body, text
<1>5. body \in Texts /\ text = Enclosed("quote", body, "quote")
  BY <1>2, <1>4 DEF body, text
<1>6. /\ Len(body) \in Nat /\ text \in Texts /\ text # <<>> /\ text[1] = "quote"
      /\ \A x \in Texts, p \in Nat : At(x, p, text) =>
           At(x, p + 1, body) /\ x[(p + 1) + Len(body) + 1] = "quote"
  BY <1>3, <1>5, EnclosedIs
<1> QED
  BY <1>5, <1>6 DEF MessageWords, body, text

LEMMA EscapeTellsShorter ==
  ASSUME NEW x \in Texts, NEW p \in Nat, NEW s \in Texts, NEW t \in Texts,
         At(x, p, EscapeString(s)), At(x, p, EscapeString(t)), Len(s) <= Len(t)
  PROVE  s = t
<1>1. PICK r : Spells(r, s)
  BY EscapeIsARun
<1>2. PICK z : Spells(z, t)
  BY EscapeIsARun
<1> DEFINE L == Len(s)
           M == Len(t)
           q == p + 1
           S == {k \in Nat : k <= L => r[k] = z[k] /\ \A i \in 1..k : s[i] = t[i]}
<1>3. L \in Nat /\ M \in Nat /\ L <= M /\ q \in Nat
  BY LenProperties DEF Texts
<1>4. /\ \A i \in 1..L : s[i] \in Chars
      /\ \A i \in 1..M : t[i] \in Chars
  BY LenProperties DEF Texts
<1>5. /\ At(x, q, r[L]) /\ Len(r[L]) \in Nat /\ x[q + Len(r[L]) + 1] = "quote"
      /\ At(x, q, z[M])
  BY <1>1, <1>2, EscapedParts
<1>6. \A k \in 0..L - 1 : r[k] \in Texts /\ Len(r[k]) \in Nat /\ At(x, q + Len(r[k]), EscapeChar(s[k + 1]))
  <2>1. \A k \in 0..L - 1 : k \in 0..L
    BY <1>3
  <2> QED
    BY <1>1, <1>3, <1>5, <2>1, SpelledParts
<1>7. \A k \in 0..M - 1 : At(x, q + Len(z[k]), EscapeChar(t[k + 1]))
  BY <1>2, <1>3, <1>5, SpelledParts
<1> HIDE DEF q
<1>8. 0 \in S
  <2>1. 1..0 = {}
    OBVIOUS
  <2> QED
    BY <1>1, <1>2, <2>1 DEF Spells
<1>9. ASSUME NEW k \in S PROVE k + 1 \in S
  <2> SUFFICES ASSUME k + 1 <= L PROVE r[k + 1] = z[k + 1] /\ \A i \in 1..k + 1 : s[i] = t[i]
    OBVIOUS
  <2>1. k \in 0..L - 1 /\ k \in 0..M - 1 /\ k + 1 \in 1..L /\ k + 1 \in 1..M
    BY <1>3
  <2>2. r[k] = z[k] /\ \A i \in 1..k : s[i] = t[i]
    BY <2>1
  <2>3. At(x, q + Len(r[k]), EscapeChar(s[k + 1])) /\ At(x, q + Len(r[k]), EscapeChar(t[k + 1])) /\ Len(r[k]) \in Nat
    BY <1>6, <1>7, <2>1, <2>2
  <2>4. q + Len(r[k]) \in Nat
    BY <1>3, <2>3
  <2>5. s[k + 1] = t[k + 1]
    BY <1>4, <2>1, <2>3, <2>4, EscapedCharTells
  <2>6. r[k + 1] = z[k + 1]
    BY <1>1, <1>2, <2>1, <2>2, <2>5 DEF Spells
  <2>7. \A i \in 1..k + 1 : i \in 1..k \/ i = k + 1
    BY <2>1
  <2> QED
    BY <2>2, <2>5, <2>6, <2>7
<1> HIDE DEF S
<1>10. S = Nat
  <2>1. S \in SUBSET Nat
    BY DEF S
  <2> QED
    BY <1>8, <1>9, <2>1, Induction
<1>11. r[L] = z[L] /\ \A i \in 1..L : s[i] = t[i]
  BY <1>3, <1>10 DEF S
<1>12. ASSUME L < M PROVE FALSE
  <2>1. L \in 0..M - 1 /\ L + 1 \in 1..M
    BY <1>3, <1>12
  <2>2. At(x, q + Len(r[L]), EscapeChar(t[L + 1]))
    BY <1>7, <1>11, <2>1
  <2>3. EscapeChar(t[L + 1]) \in Texts /\ EscapeChar(t[L + 1]) # <<>> /\ EscapeChar(t[L + 1])[1] # "quote"
    BY <1>4, <2>1, EscapeCharIs
  <2>4. q + Len(r[L]) \in Nat
    BY <1>3, <1>5
  <2> QED
    BY <1>5, <2>2, <2>3, <2>4, AtFirst
<1>13. L = M
  BY <1>3, <1>12
<1> QED
  BY <1>11, <1>13, SeqEqual DEF Texts

\* A string is told by its text, wherever that stands and whatever follows it.
LEMMA EscapeTells ==
  ASSUME NEW x \in Texts, NEW p \in Nat, NEW s \in Texts, NEW t \in Texts,
         At(x, p, EscapeString(s)), At(x, p, EscapeString(t))
  PROVE  s = t
<1>1. Len(s) <= Len(t) \/ Len(t) <= Len(s)
  BY LenProperties DEF Texts
<1> QED
  BY <1>1, EscapeTellsShorter

LEMMA EscapeIsText ==
  ASSUME NEW s \in Texts
  PROVE  EscapeString(s) \in MessageWords /\ EscapeString(s)[1] = "quote"
<1>1. PICK r : Spells(r, s)
  BY EscapeIsARun
<1> QED
  BY <1>1, EscapedParts

-----------------------------------------------------------------------------
(* The text of a number.                                                   *)

\* No digit follows the first q characters.
NumberEnds(x, q) == q = Len(x) \/ x[q + 1] \notin Digit

LEMMA DigitsAreText ==
  ASSUME NEW n \in Nat
  PROVE  /\ Digits(n) \in Texts /\ Digits(n) # <<>> /\ Len(Digits(n)) \in Nat \ {0}
         /\ \A i \in 1..Len(Digits(n)) : Digits(n)[i] \in Digit
<1>1. Digits(n) \in Seq(Digit) /\ Digits(n) # <<>>
  BY NumeralOfDigits
<1>2. Digit \subseteq Chars
  BY DEF Chars
<1> DEFINE s == Digits(n)
<1> HIDE DEF s
<1>3. s \in Seq(Digit) => /\ s \in Seq(Chars) /\ (s # <<>> => Len(s) \in Nat \ {0})
                          /\ \A i \in 1..Len(s) : s[i] \in Digit
  BY <1>2, SeqMonotonic, EmptySeq, LenProperties
<1> QED
  BY <1>1, <1>3 DEF s, Texts

LEMMA NumbersTell ==
  ASSUME NEW x \in Texts, NEW p \in Nat, NEW m \in Nat, NEW n \in Nat,
         At(x, p, Digits(m)), NumberEnds(x, p + Len(Digits(m))),
         At(x, p, Digits(n)), NumberEnds(x, p + Len(Digits(n)))
  PROVE  m = n
<1> DEFINE s == Digits(m)
           t == Digits(n)
<1>1. /\ s \in Texts /\ Len(s) \in Nat \ {0} /\ (\A i \in 1..Len(s) : s[i] \in Digit) /\ Numeral(s) = m
      /\ t \in Texts /\ Len(t) \in Nat \ {0} /\ (\A i \in 1..Len(t) : t[i] \in Digit) /\ Numeral(t) = n
  BY DigitsAreText, NumeralOfDigits
<1>2. At(x, p, s) /\ NumberEnds(x, p + Len(s)) /\ At(x, p, t) /\ NumberEnds(x, p + Len(t))
  OBVIOUS
<1> HIDE DEF s, t
<1>3. Len(x) \in Nat
  BY LenProperties DEF Texts
<1>4. ASSUME Len(s) < Len(t) PROVE FALSE
  <2>1. Len(s) + 1 \in 1..Len(t) /\ p + (Len(s) + 1) = (p + Len(s)) + 1
    BY <1>1, <1>4
  <2>2. x[(p + Len(s)) + 1] \in Digit
    BY <1>1, <1>2, <2>1 DEF At
  <2>3. p + Len(s) # Len(x)
    BY <1>1, <1>2, <1>3, <1>4 DEF At
  <2> QED
    BY <1>2, <2>2, <2>3 DEF NumberEnds
<1>5. ASSUME Len(t) < Len(s) PROVE FALSE
  <2>1. Len(t) + 1 \in 1..Len(s) /\ p + (Len(t) + 1) = (p + Len(t)) + 1
    BY <1>1, <1>5
  <2>2. x[(p + Len(t)) + 1] \in Digit
    BY <1>1, <1>2, <2>1 DEF At
  <2>3. p + Len(t) # Len(x)
    BY <1>1, <1>2, <1>3, <1>5 DEF At
  <2> QED
    BY <1>2, <2>2, <2>3 DEF NumberEnds
<1>6. Len(s) = Len(t)
  BY <1>1, <1>4, <1>5
<1>7. s = t
  BY <1>1, <1>2, <1>6, AtSame
<1> QED
  BY <1>1, <1>7

-----------------------------------------------------------------------------
(* The text of a list.                                                     *)

\* The text so far, and after the last part, of parts that are not empty.
Joins(r, parts) ==
  /\ r[0] = <<>> /\ (Len(parts) > 0 => r[1] = parts[1])
  /\ \A k \in 1..Len(parts) - 1 : r[k + 1] = (r[k] \o <<",">>) \o parts[k + 1]
  /\ \A k \in 0..Len(parts) : r[k] \in Texts
  /\ Joined(parts) = r[Len(parts)]

Linked(out, part) == IF out = <<>> THEN part ELSE (out \o <<",">>) \o part

LEMMA LinkedIs ==
  ASSUME NEW out \in Texts, NEW part \in MessageWords
  PROVE  Linked(out, part) \in MessageWords
<1>1. <<",">> \in Texts /\ part \in Texts /\ part # <<>>
  BY OneChar DEF Chars, MessageWords
<1>2. out \o <<",">> \in Texts
  BY <1>1, ConcatProperties DEF Texts
<1>3. (out \o <<",">>) \o part \in Texts /\ (out \o <<",">>) \o part # <<>>
  <2> DEFINE front == out \o <<",">>
  <2>1. front \in Texts
    BY <1>2
  <2> HIDE DEF front
  <2>2. front \o part \in Texts /\ front \o part # <<>>
    <3>1. front \in Seq(Chars) /\ part \in Seq(Chars)
      BY <1>1, <2>1 DEF Texts
    <3>2. front \o part \in Seq(Chars)
      BY <3>1, ConcatProperties
    <3>3. front \o part = <<>> => part = <<>>
      BY <3>1, ConcatEqualIffEmpty
    <3> QED
      BY <1>1, <3>2, <3>3 DEF Texts
  <2> QED
    BY <2>2 DEF front
<1> QED
  BY <1>1, <1>3 DEF Linked, MessageWords

LEMMA JoinIsARun ==
  ASSUME NEW parts \in Seq(MessageWords)
  PROVE  \E r : Joins(r, parts)
<1> DEFINE L == Len(parts)
           G == [i \in 1..L |-> [out \in Texts |-> Linked(out, parts[i])]]
           Eq(f) == f = [t \in SUBSET (1..L) |-> IF t = {} THEN <<>> ELSE Linked(f[t \ {Max(t)}], parts[Max(t)])]
           f == CHOOSE f : Eq(f)
<1>1. L \in Nat /\ DOMAIN parts = 1..L /\ \A i \in 1..L : parts[i] \in MessageWords
  BY LenProperties
<1>2. MessageWords \subseteq Texts
  BY DEF MessageWords
<1>3. G \in [1..L -> [Texts -> Texts]]
  BY <1>1, <1>2, LinkedIs
<1> HIDE DEF G
<1>4. <<>> \in Texts
  BY EmptySeq DEF Texts
<1>5. PICK g \in [SUBSET (1..L) -> Texts] : Unfolds(g, <<>>, L, G)
  <2> HIDE DEF L
  <2> QED
    BY <1>1, <1>3, <1>4, FoldIsDefined
<1>6. Eq(g)
  <2> DEFINE h == [t \in SUBSET (1..L) |-> IF t = {} THEN <<>> ELSE Linked(g[t \ {Max(t)}], parts[Max(t)])]
  <2>1. ASSUME NEW t \in SUBSET (1..L) PROVE g[t] = h[t]
    <3>1. CASE t = {}
      BY <1>5, <3>1 DEF Unfolds
    <3>2. CASE t # {}
      <4>1. Max(t) \in 1..L /\ t \ {Max(t)} \in SUBSET (1..L) /\ g[t] = G[Max(t)][g[t \ {Max(t)}]]
        BY <1>5, <3>2 DEF Unfolds
      <4>2. g[t \ {Max(t)}] \in Texts
        BY <1>5, <4>1
      <4>3. G[Max(t)][g[t \ {Max(t)}]] = Linked(g[t \ {Max(t)}], parts[Max(t)])
        BY <4>1, <4>2 DEF G
      <4> QED
        BY <3>2, <4>1, <4>3
    <3> QED
      BY <3>1, <3>2
  <2> HIDE DEF h
  <2>2. g = [t \in SUBSET (1..L) |-> g[t]]
    BY <1>5
  <2>3. h = [t \in SUBSET (1..L) |-> h[t]]
    BY DEF h
  <2>4. g = h
    BY <2>1, <2>2, <2>3
  <2> QED
    BY <2>4 DEF h
<1>7. Eq(f)
  BY <1>6
<1>8. Joined(parts) = f[1..L]
  BY <1>1 DEF Joined, Linked, FoldLeft, MapThenFoldSet
<1> HIDE DEF f, G
<1> DEFINE r == [k \in 0..L |-> f[1..k]]
<1>9. r[0] = <<>>
  <2>1. 1..0 = {} /\ {} \in SUBSET (1..L)
    BY <1>1
  <2> QED
    BY <1>1, <1>7, <2>1
<1>10. ASSUME NEW k \in 0..L - 1 PROVE r[k + 1] = Linked(r[k], parts[k + 1]) /\ parts[k + 1] \in MessageWords
  <2>1. k \in Nat /\ k \in 0..L /\ k + 1 \in 0..L /\ k + 1 \in 1..k + 1 /\ k + 1 \in 1..L
    BY <1>1
  <2>2. 1..k + 1 \in SUBSET (1..L) /\ 1..k + 1 # {}
    <3>1. \A i \in 1..k + 1 : i \in 1..L
      BY <1>1, <2>1
    <3> QED
      BY <2>1, <3>1
  <2>3. f[1..k + 1] = Linked(f[(1..k + 1) \ {Max(1..k + 1)}], parts[Max(1..k + 1)])
    BY <1>7, <2>2
  <2>4. Max(1..k + 1) = k + 1 /\ (1..k + 1) \ {k + 1} = 1..k
    BY <2>1, MaxOfInterval
  <2> QED
    BY <1>1, <2>1, <2>3, <2>4
<1>11. r[L] = f[1..L]
  BY <1>1
<1> HIDE DEF r
<1>12. ASSUME NEW k \in 0..L - 1, r[k] \in Texts PROVE r[k + 1] \in Texts /\ r[k + 1] # <<>>
  <2>1. Linked(r[k], parts[k + 1]) \in MessageWords
    BY <1>10, <1>12, LinkedIs
  <2> QED
    BY <1>10, <2>1 DEF MessageWords
<1>13. \A k \in 0..L : r[k] \in Texts
  <2> HIDE DEF L
  <2> QED
    BY <1>1, <1>4, <1>9, <1>12, StepsKeep
<1>14. ASSUME L > 0 PROVE r[1] = parts[1]
  <2>1. 0 \in 0..L - 1 /\ 0 + 1 = 1
    BY <1>1, <1>14
  <2> QED
    BY <1>9, <1>10, <2>1 DEF Linked
<1>15. ASSUME NEW k \in 1..L - 1 PROVE r[k + 1] = (r[k] \o <<",">>) \o parts[k + 1]
  <2>1. k \in 0..L - 1 /\ k - 1 \in 0..L - 1 /\ (k - 1) + 1 = k /\ k - 1 \in 0..L
    BY <1>1
  <2>2. r[k] # <<>>
    BY <1>12, <1>13, <2>1
  <2> QED
    BY <1>10, <2>1, <2>2 DEF Linked
<1>16. Joins(r, parts)
  BY <1>8, <1>9, <1>11, <1>13, <1>14, <1>15 DEF Joins
<1> QED
  BY <1>16

\* Where the k + 1-st part begins, if the list begins at q.
Begins(r, q, k) == IF k = 0 THEN q ELSE q + Len(r[k]) + 1

LEMMA JoinedParts ==
  ASSUME NEW parts \in Seq(MessageWords), NEW r, Joins(r, parts),
         NEW x \in Texts, NEW q \in Nat, At(x, q, r[Len(parts)])
  PROVE  /\ \A k \in 0..Len(parts) : Len(r[k]) \in Nat
         /\ \A k \in 0..Len(parts) - 1 :
              /\ At(x, Begins(r, q, k), parts[k + 1])
              /\ Begins(r, q, k) + Len(parts[k + 1]) = q + Len(r[k + 1])
              /\ k # 0 => x[q + Len(r[k]) + 1] = ","
<1> DEFINE L == Len(parts)
           S == {j \in Nat : j <= L => At(x, q, r[L - j])}
           comma == <<",">>
<1>1. L \in Nat /\ \A i \in 1..L : parts[i] \in Texts /\ Len(parts[i]) \in Nat
  BY LenProperties DEF Texts, MessageWords
<1>2. \A k \in 0..L : r[k] \in Texts /\ Len(r[k]) \in Nat
  BY LenProperties DEF Joins, Texts
<1>3. comma \in Texts /\ Len(comma) = 1 /\ comma[1] = "," /\ comma # <<>>
  BY OneChar DEF Chars
<1> HIDE DEF comma
<1>4. ASSUME NEW k \in 1..L - 1, At(x, q, r[k + 1])
      PROVE  /\ At(x, q, r[k]) /\ x[q + Len(r[k]) + 1] = ","
             /\ At(x, q + Len(r[k]) + 1, parts[k + 1])
             /\ Len(r[k + 1]) = Len(r[k]) + 1 + Len(parts[k + 1])
  <2>1. r[k + 1] = (r[k] \o comma) \o parts[k + 1]
    BY DEF Joins, comma
  <2>2. k \in 0..L /\ k + 1 \in 1..L
    BY <1>1
  <2>3. r[k] \in Texts /\ parts[k + 1] \in Texts /\ Len(r[k]) \in Nat /\ Len(parts[k + 1]) \in Nat
    BY <1>1, <1>2, <2>2
  <2> DEFINE front == r[k] \o comma
  <2>4. front \in Texts /\ Len(front) = Len(r[k]) + 1
    <3>1. front \in Texts /\ Len(front) = Len(r[k]) + Len(comma)
      BY <1>3, <2>3, ConcatProperties DEF Texts
    <3> QED
      BY <1>3, <3>1
  <2>5. At(x, q, front \o parts[k + 1]) /\ Len(front \o parts[k + 1]) = Len(front) + Len(parts[k + 1])
    <3>1. At(x, q, front \o parts[k + 1])
      BY <1>4, <2>1
    <3> HIDE DEF front
    <3> QED
      BY <2>3, <2>4, <3>1, ConcatProperties DEF Texts
  <2>6. At(x, q, front) /\ At(x, q + Len(front), parts[k + 1])
    <3> HIDE DEF front
    <3> QED
      BY <2>3, <2>4, <2>5, AtConcat
  <2>7. At(x, q, r[k]) /\ q + Len(r[k]) \in Nat /\ At(x, q + Len(r[k]), comma)
    BY <1>3, <2>3, <2>6, AtConcat
  <2>8. x[q + Len(r[k]) + 1] = ","
    BY <1>3, <2>7, AtFirst
  <2>9. q + Len(front) = q + Len(r[k]) + 1 /\ Len(r[k + 1]) = Len(r[k]) + 1 + Len(parts[k + 1])
    BY <2>1, <2>3, <2>4, <2>5
  <2> QED
    BY <2>6, <2>7, <2>8, <2>9
<1>5. 0 \in S
  <2>1. L - 0 = L
    BY <1>1
  <2> QED
    BY <2>1
<1>6. ASSUME NEW j \in S PROVE j + 1 \in S
  <2> SUFFICES ASSUME j + 1 <= L PROVE At(x, q, r[L - (j + 1)])
    OBVIOUS
  <2>1. L - (j + 1) \in 0..L - 1 /\ (L - (j + 1)) + 1 = L - j /\ j <= L
    BY <1>1
  <2>2. At(x, q, r[L - j])
    BY <2>1
  <2>3. CASE L - (j + 1) = 0
    <3>1. r[0] = <<>> /\ Len(r[0]) = 0
      BY DEF Joins
    <3>2. q <= Len(x)
      <4>1. q + Len(r[L - j]) <= Len(x) /\ Len(r[L - j]) \in Nat
        BY <1>2, <2>1, <2>2 DEF At
      <4>2. Len(x) \in Nat
        BY LenProperties DEF Texts
      <4> QED
        BY <4>1, <4>2
    <3> QED
      BY <2>3, <3>1, <3>2 DEF At
  <2>4. CASE L - (j + 1) # 0
    <3>1. L - (j + 1) \in 1..L - 1
      <4> DEFINE k == L - (j + 1)
      <4>1. k \in 0..L - 1 /\ k # 0
        BY <2>1, <2>4
      <4> HIDE DEF k
      <4>2. k \in 1..L - 1
        BY <1>1, <4>1
      <4> QED
        BY <4>2 DEF k
    <3> QED
      BY <1>4, <2>1, <2>2, <3>1
  <2> QED
    BY <2>3, <2>4
<1> HIDE DEF S
<1>7. S = Nat
  <2>1. S \in SUBSET Nat
    BY DEF S
  <2> QED
    BY <1>5, <1>6, <2>1, Induction
<1>8. ASSUME NEW k \in 0..L PROVE At(x, q, r[k])
  <2>1. L - k \in Nat /\ L - k <= L /\ L - (L - k) = k
    BY <1>1
  <2> QED
    BY <1>7, <2>1 DEF S
<1>9. ASSUME NEW k \in 0..L - 1
      PROVE  /\ At(x, Begins(r, q, k), parts[k + 1])
             /\ Begins(r, q, k) + Len(parts[k + 1]) = q + Len(r[k + 1])
             /\ k # 0 => x[q + Len(r[k]) + 1] = ","
  <2>1. CASE k = 0
    <3>1. k + 1 = 1 /\ L > 0 /\ 1 \in 0..L
      BY <1>1, <2>1
    <3>2. r[k + 1] = parts[k + 1]
      BY <3>1 DEF Joins
    <3>3. Begins(r, q, k) = q
      BY <2>1 DEF Begins
    <3> QED
      BY <1>8, <2>1, <3>1, <3>2, <3>3
  <2>2. CASE k # 0
    <3>1. k \in 1..L - 1 /\ k + 1 \in 0..L /\ k \in 0..L /\ k + 1 \in 1..L
      BY <1>1, <2>2
    <3>2. /\ x[q + Len(r[k]) + 1] = "," /\ At(x, q + Len(r[k]) + 1, parts[k + 1])
          /\ Len(r[k + 1]) = Len(r[k]) + 1 + Len(parts[k + 1])
      BY <1>4, <1>8, <3>1
    <3>3. Len(r[k]) \in Nat /\ Len(parts[k + 1]) \in Nat
      BY <1>1, <1>2, <3>1
    <3>4. Begins(r, q, k) = q + Len(r[k]) + 1
      BY <2>2 DEF Begins
    <3>5. (q + Len(r[k]) + 1) + Len(parts[k + 1]) = q + (Len(r[k]) + 1 + Len(parts[k + 1]))
      <4>1. \A a, b \in Nat : (q + a + 1) + b = q + (a + 1 + b)
        OBVIOUS
      <4> QED
        BY <3>3, <4>1
    <3> QED
      BY <3>2, <3>4, <3>5
  <2> QED
    BY <2>1, <2>2
<1> QED
  BY <1>2, <1>9

-----------------------------------------------------------------------------
(* The text of a value.                                                    *)

Closers    == {",", "]", "}"}
Closing    == {"]", "}"}
ValueEnds(x, q) == q = Len(x) \/ x[q + 1] \in Closers

\* A value is told by its text f[v], wherever that stands, if the value ends there.
Tells(V, f) ==
  \A v, w \in V : \A x \in Texts, p \in Nat :
    At(x, p, f[v]) /\ ValueEnds(x, p + Len(f[v])) /\ At(x, p, f[w]) /\ ValueEnds(x, p + Len(f[w])) => v = w

\* And it does not begin with what ends one.
Starts(V, f) == \A v \in V : f[v] \in MessageWords /\ f[v][1] \notin Closers

PartsOf(f, e) == [i \in DOMAIN e |-> f[e[i]]]

LEMMA PartsAre ==
  ASSUME NEW V, NEW f, Starts(V, f), NEW e \in Seq(V)
  PROVE  /\ PartsOf(f, e) \in Seq(MessageWords) /\ Len(PartsOf(f, e)) = Len(e) /\ Len(e) \in Nat
         /\ \A i \in 1..Len(e) : e[i] \in V /\ PartsOf(f, e)[i] = f[e[i]]
<1> DEFINE s == PartsOf(f, e)
<1>1. Len(e) \in Nat /\ DOMAIN e = 1..Len(e) /\ \A i \in 1..Len(e) : e[i] \in V
  BY LenProperties
<1>2. s \in [1..Len(e) -> MessageWords] /\ \A i \in 1..Len(e) : s[i] = f[e[i]]
  BY <1>1 DEF PartsOf, Starts
<1> HIDE DEF s
<1>3. s \in Seq(MessageWords)
  BY <1>1, <1>2, SeqDef
<1>4. Len(s) = Len(e)
  BY <1>1, <1>2, <1>3, LenProperties
<1> QED
  BY <1>1, <1>2, <1>3, <1>4 DEF s

LEMMA ListTellsShorter ==
  ASSUME NEW V, NEW f, Tells(V, f), Starts(V, f), NEW e \in Seq(V), NEW g \in Seq(V),
         NEW x \in Texts, NEW q \in Nat, NEW c \in Closing,
         At(x, q, Joined(PartsOf(f, e))), x[q + Len(Joined(PartsOf(f, e))) + 1] = c,
         At(x, q, Joined(PartsOf(f, g))), x[q + Len(Joined(PartsOf(f, g))) + 1] = c,
         Len(e) <= Len(g)
  PROVE  e = g
<1> DEFINE L == Len(e)
           M == Len(g)
           ps == PartsOf(f, e)
           qs == PartsOf(f, g)
           S == {k \in Nat : k <= L => \A i \in 1..k : e[i] = g[i]}
<1>1. /\ ps \in Seq(MessageWords) /\ Len(ps) = L /\ L \in Nat
      /\ \A i \in 1..L : e[i] \in V /\ ps[i] = f[e[i]]
  BY PartsAre
<1>2. /\ qs \in Seq(MessageWords) /\ Len(qs) = M /\ M \in Nat
      /\ \A i \in 1..M : g[i] \in V /\ qs[i] = f[g[i]]
  BY PartsAre
<1>3. L <= M /\ c \in Closers /\ c # ","
  BY DEF Closers, Closing, L, M
<1>0. /\ At(x, q, Joined(ps)) /\ x[q + Len(Joined(ps)) + 1] = c
      /\ At(x, q, Joined(qs)) /\ x[q + Len(Joined(qs)) + 1] = c
      /\ Len(e) = L /\ Len(g) = M
  OBVIOUS
<1> HIDE DEF ps, qs, L, M
<1>n. L \in Nat /\ M \in Nat /\ L <= M
  BY <1>1, <1>2, <1>3
<1>4. PICK r : Joins(r, ps)
  BY <1>1, JoinIsARun
<1>5. PICK z : Joins(z, qs)
  BY <1>2, JoinIsARun
<1>6. At(x, q, r[L]) /\ x[q + Len(r[L]) + 1] = c /\ At(x, q, z[M]) /\ x[q + Len(z[M]) + 1] = c
  BY <1>0, <1>1, <1>2, <1>4, <1>5 DEF Joins
<1>7. /\ \A k \in 0..L : Len(r[k]) \in Nat
      /\ \A k \in 0..L - 1 :
           /\ At(x, Begins(r, q, k), ps[k + 1])
           /\ Begins(r, q, k) + Len(ps[k + 1]) = q + Len(r[k + 1])
           /\ k # 0 => x[q + Len(r[k]) + 1] = ","
  <2>1. At(x, q, r[Len(ps)])
    BY <1>1, <1>6
  <2>2. /\ \A k \in 0..Len(ps) : Len(r[k]) \in Nat
        /\ \A k \in 0..Len(ps) - 1 :
             /\ At(x, Begins(r, q, k), ps[k + 1])
             /\ Begins(r, q, k) + Len(ps[k + 1]) = q + Len(r[k + 1])
             /\ k # 0 => x[q + Len(r[k]) + 1] = ","
    BY <1>1, <1>4, <2>1, JoinedParts
  <2> QED
    BY <1>1, <2>2
<1>8. /\ \A k \in 0..M : Len(z[k]) \in Nat
      /\ \A k \in 0..M - 1 :
           /\ At(x, Begins(z, q, k), qs[k + 1])
           /\ Begins(z, q, k) + Len(qs[k + 1]) = q + Len(z[k + 1])
           /\ k # 0 => x[q + Len(z[k]) + 1] = ","
  <2>1. At(x, q, z[Len(qs)])
    BY <1>2, <1>6
  <2>2. /\ \A k \in 0..Len(qs) : Len(z[k]) \in Nat
        /\ \A k \in 0..Len(qs) - 1 :
             /\ At(x, Begins(z, q, k), qs[k + 1])
             /\ Begins(z, q, k) + Len(qs[k + 1]) = q + Len(z[k + 1])
             /\ k # 0 => x[q + Len(z[k]) + 1] = ","
    BY <1>2, <1>5, <2>1, JoinedParts
  <2> QED
    BY <1>2, <2>2
\* A list with the same elements so far has the same text so far.
<1>9. ASSUME NEW k \in 0..L, \A i \in 1..k : e[i] = g[i] PROVE r[k] = z[k]
  <2> DEFINE R == {j \in Nat : j <= k => r[j] = z[j]}
  <2>1. 0 \in R
    BY <1>4, <1>5 DEF Joins
  <2>2. ASSUME NEW j \in R PROVE j + 1 \in R
    <3> SUFFICES ASSUME j + 1 <= k PROVE r[j + 1] = z[j + 1]
      OBVIOUS
    <3>0. j \in Nat /\ k \in Nat /\ k <= L /\ r[j] = z[j]
      BY <1>n
    <3>1. r[j] = z[j] /\ j \in 0..L - 1 /\ j \in 0..M - 1 /\ j + 1 \in 1..k /\ j + 1 \in 1..L /\ j + 1 \in 1..M
      BY <1>n, <3>0
    <3>2. ps[j + 1] = qs[j + 1]
      BY <1>1, <1>2, <1>9, <3>1
    <3>3. CASE j = 0
      <4>1. j + 1 = 1 /\ Len(ps) > 0 /\ Len(qs) > 0
        BY <1>1, <1>2, <3>1, <3>3
      <4> QED
        BY <1>4, <1>5, <3>2, <4>1 DEF Joins
    <3>4. CASE j # 0
      <4>1. j \in 1..Len(ps) - 1 /\ j \in 1..Len(qs) - 1
        BY <1>1, <1>2, <3>1, <3>4
      <4> QED
        BY <1>4, <1>5, <3>1, <3>2, <4>1 DEF Joins
    <3> QED
      BY <3>3, <3>4
  <2> HIDE DEF R
  <2>3. R = Nat
    <3>1. R \in SUBSET Nat
      BY DEF R
    <3> QED
      BY <2>1, <2>2, <3>1, Induction
  <2>4. k \in Nat /\ k <= k
    BY <1>1
  <2> QED
    BY <2>3, <2>4 DEF R
\* After an element there is a comma or the end of the list.
<1>10. ASSUME NEW k \in 0..L - 1 PROVE ValueEnds(x, q + Len(r[k + 1]))
  <2>1. CASE k + 1 = L
    BY <1>3, <1>6, <2>1 DEF ValueEnds
  <2>2. CASE k + 1 # L
    <3>1. k + 1 \in 0..L - 1 /\ k + 1 # 0
      BY <1>1, <2>2
    <3> QED
      BY <1>7, <3>1 DEF ValueEnds, Closers
  <2> QED
    BY <2>1, <2>2
<1>11. ASSUME NEW k \in 0..M - 1 PROVE ValueEnds(x, q + Len(z[k + 1]))
  <2>1. CASE k + 1 = M
    BY <1>3, <1>6, <2>1 DEF ValueEnds
  <2>2. CASE k + 1 # M
    <3>1. k + 1 \in 0..M - 1 /\ k + 1 # 0
      BY <1>2, <2>2
    <3> QED
      BY <1>8, <3>1 DEF ValueEnds, Closers
  <2> QED
    BY <2>1, <2>2
<1>12. 0 \in S
  <2>1. 1..0 = {}
    OBVIOUS
  <2> QED
    BY <2>1
<1>13. ASSUME NEW k \in S PROVE k + 1 \in S
  <2> SUFFICES ASSUME k + 1 <= L PROVE \A i \in 1..k + 1 : e[i] = g[i]
    OBVIOUS
  <2>1. k \in 0..L /\ k \in 0..L - 1 /\ k \in 0..M - 1 /\ k + 1 \in 1..L /\ k + 1 \in 1..M
    BY <1>n
  <2>2. \A i \in 1..k : e[i] = g[i]
    BY <2>1
  <2> DEFINE b == Begins(r, q, k)
  <2>3. r[k] = z[k] /\ Begins(z, q, k) = b
    BY <1>9, <2>1, <2>2 DEF Begins
  <2>4. b \in Nat
    <3>1. Len(r[k]) \in Nat
      BY <1>7, <2>1
    <3> QED
      BY <3>1 DEF Begins
  <2> HIDE DEF b
  <2>5. At(x, b, f[e[k + 1]]) /\ ValueEnds(x, b + Len(f[e[k + 1]])) /\ e[k + 1] \in V
    <3>1. At(x, b, ps[k + 1]) /\ b + Len(ps[k + 1]) = q + Len(r[k + 1])
      BY <1>7, <2>1 DEF b
    <3> QED
      BY <1>1, <1>10, <2>1, <3>1
  <2>6. At(x, b, f[g[k + 1]]) /\ ValueEnds(x, b + Len(f[g[k + 1]])) /\ g[k + 1] \in V
    <3>1. At(x, b, qs[k + 1]) /\ b + Len(qs[k + 1]) = q + Len(z[k + 1])
      BY <1>8, <2>1, <2>3
    <3> QED
      BY <1>2, <1>11, <2>1, <3>1
  <2>7. e[k + 1] = g[k + 1]
    BY <2>4, <2>5, <2>6 DEF Tells
  <2>8. \A i \in 1..k + 1 : i \in 1..k \/ i = k + 1
    BY <2>1
  <2> QED
    BY <2>2, <2>7, <2>8
<1> HIDE DEF S
<1>14. S = Nat
  <2>1. S \in SUBSET Nat
    BY DEF S
  <2> QED
    BY <1>12, <1>13, <2>1, Induction
<1>15. \A i \in 1..L : e[i] = g[i]
  <2>1. L \in S /\ L <= L
    BY <1>n, <1>14
  <2> QED
    BY <2>1 DEF S
<1>16. ASSUME L < M PROVE FALSE
  <2>1. L \in 0..L /\ L \in 0..M - 1 /\ L + 1 \in 1..M
    BY <1>1, <1>2, <1>16
  <2>2. r[L] = z[L]
    BY <1>9, <1>15, <2>1
  <2>3. CASE L = 0
    <3>1. r[L] = <<>> /\ Len(r[L]) = 0 /\ Begins(z, q, L) = q
      BY <1>4, <2>3 DEF Joins, Begins
    <3>2. x[q + 1] = c
      <4>1. q + 0 + 1 = q + 1
        OBVIOUS
      <4> QED
        BY <1>6, <3>1, <4>1
    <3>3. At(x, q, f[g[L + 1]]) /\ g[L + 1] \in V
      BY <1>2, <1>8, <2>1, <3>1
    <3>4. f[g[L + 1]] \in Texts /\ f[g[L + 1]] # <<>> /\ f[g[L + 1]][1] \notin Closers
      BY <3>3 DEF Starts, MessageWords
    <3> QED
      BY <1>3, <3>2, <3>3, <3>4, AtFirst
  <2>4. CASE L # 0
    BY <1>3, <1>6, <1>8, <2>1, <2>2, <2>4
  <2> QED
    BY <2>3, <2>4
<1>17. L = M
  BY <1>n, <1>16
<1> QED
  BY <1>0, <1>15, <1>17, SeqEqual

\* A list is told by its text, up to what closes it.
LEMMA ListTells ==
  ASSUME NEW V, NEW f, Tells(V, f), Starts(V, f), NEW e \in Seq(V), NEW g \in Seq(V),
         NEW x \in Texts, NEW q \in Nat, NEW c \in Closing,
         At(x, q, Joined(PartsOf(f, e))), x[q + Len(Joined(PartsOf(f, e))) + 1] = c,
         At(x, q, Joined(PartsOf(f, g))), x[q + Len(Joined(PartsOf(f, g))) + 1] = c
  PROVE  e = g
<1>1. Len(e) <= Len(g) \/ Len(g) <= Len(e)
  BY LenProperties
<1> QED
  BY <1>1, ListTellsShorter

LEMMA JoinedIsText ==
  ASSUME NEW V, NEW f, Starts(V, f), NEW e \in Seq(V)
  PROVE  Joined(PartsOf(f, e)) \in Texts
<1> DEFINE ps == PartsOf(f, e)
<1>1. ps \in Seq(MessageWords) /\ Len(ps) \in Nat
  BY PartsAre
<1> HIDE DEF ps
<1>2. PICK r : Joins(r, ps)
  BY <1>1, JoinIsARun
<1>3. Len(ps) \in 0..Len(ps)
  BY <1>1
<1> QED
  BY <1>2, <1>3 DEF Joins, ps

-----------------------------------------------------------------------------
(* The text of a value, one layer of arrays and objects at a time.         *)

\* What can be written with arrays and objects of values of V.
Word(w)  == [t |-> w]
Level(V) ==
  [t : Literals] \cup [t : {"string"}, s : Texts] \cup [t : {"number"}, n : Nat]
  \cup [t : {"float"}, n : Nat] \cup [t : {"array"}, e : Seq(V)] \cup [t : {"object"}, kv : Seq(Chars \X V)]

\* An entry of an object: its name and its value.
Name(pair)  == EscapeString(<<pair[1]>>)
Entry(V, f) == [pair \in Chars \X V |-> (Name(pair) \o <<":">>) \o f[pair[2]]]

\* The texts of those values, given those of V.
Written(V, f) ==
  [v \in Level(V) |->
     CASE v.t \in Literals -> <<v.t>>
       [] v.t = "float"  -> FormatFloat(v.n)
       [] v.t = "number" -> FormatNumber(v.n)
       [] v.t = "string" -> EscapeString(v.s)
       [] v.t = "array"  -> Enclosed("[", Joined(PartsOf(f, v.e)), "]")
       [] OTHER          -> Enclosed("{", Joined(PartsOf(Entry(V, f), v.kv)), "}")]

\* What the text of an entry is.
IsEntry(text, pair, value) ==
  /\ pair[1] \in Chars /\ value \in MessageWords
  /\ Name(pair) \in MessageWords /\ <<pair[1]>> \in Texts
  /\ text = (Name(pair) \o <<":">>) \o value
  /\ text \in MessageWords /\ text[1] = "quote"
  /\ Len(text) = Len(Name(pair)) + 1 + Len(value)

\* Where it stands, and where its value does.
EntryStands(x, p, text, pair, value) ==
  LET b == p + Len(Name(pair)) + 1 IN
  /\ At(x, p, Name(pair)) /\ b \in Nat /\ At(x, b, value)
  /\ p + Len(text) = b + Len(value)

LEMMA EntryIs ==
  ASSUME NEW V, NEW f, Starts(V, f), NEW pair \in Chars \X V
  PROVE  IsEntry(Entry(V, f)[pair], pair, f[pair[2]])
<1> DEFINE name == Name(pair)
           colon == <<":">>
           body == f[pair[2]]
           front == name \o colon
           both == front \o body
<1>1. pair[1] \in Chars /\ pair[2] \in V /\ body \in MessageWords
  BY DEF Starts
<1>2. <<pair[1]>> \in Texts
  BY <1>1, OneChar
<1>3. name \in MessageWords /\ name[1] = "quote"
  BY <1>2, EscapeIsText DEF Name
<1>4. colon \in Texts /\ Len(colon) = 1
  BY OneChar DEF Chars
<1>5. Entry(V, f)[pair] = both
  BY DEF Entry
<1> HIDE DEF name, colon, body
<1>6. /\ front \in Texts /\ Len(front) = Len(name) + Len(colon) /\ \A i \in 1..Len(name) : front[i] = name[i]
  BY <1>3, <1>4, ConcatProperties DEF MessageWords, Texts
<1>7. Len(name) \in Nat \ {0} /\ Len(body) \in Nat \ {0}
  BY <1>1, <1>3, EmptySeq, LenProperties DEF MessageWords, Texts
<1>8. Len(front) = Len(name) + 1 /\ 1 \in 1..Len(name) /\ 1 \in 1..Len(front) /\ front[1] = "quote"
  BY <1>3, <1>4, <1>6, <1>7
<1> HIDE DEF front
<1>9. both \in Texts /\ Len(both) = Len(front) + Len(body) /\ \A i \in 1..Len(front) : both[i] = front[i]
  <2>1. front \in Seq(Chars) /\ body \in Seq(Chars)
    BY <1>1, <1>6 DEF MessageWords, Texts
  <2> QED
    BY <2>1, ConcatProperties DEF Texts
<1>10. Len(both) = Len(name) + 1 + Len(body) /\ both[1] = "quote" /\ Len(both) # 0
  BY <1>7, <1>8, <1>9
<1> HIDE DEF both
<1>11. both # <<>>
  BY <1>9, <1>10, EmptySeq DEF Texts
<1>12. both = (name \o <<":">>) \o f[pair[2]]
  BY DEF both, front, colon, body
<1> QED
  BY <1>1, <1>2, <1>3, <1>5, <1>9, <1>10, <1>11, <1>12 DEF name, body, MessageWords, IsEntry

LEMMA EntryParts ==
  ASSUME NEW V, NEW f, Starts(V, f), NEW pair \in Chars \X V,
         NEW x \in Texts, NEW p \in Nat, At(x, p, Entry(V, f)[pair])
  PROVE  EntryStands(x, p, Entry(V, f)[pair], pair, f[pair[2]])
<1> DEFINE name == Name(pair)
           colon == <<":">>
           body == f[pair[2]]
           front == name \o colon
<1>1. /\ name \in Texts /\ body \in Texts /\ Entry(V, f)[pair] = front \o body
      /\ Len(Entry(V, f)[pair]) = Len(name) + 1 + Len(body)
  <2>1. /\ Name(pair) \in MessageWords /\ f[pair[2]] \in MessageWords
        /\ Entry(V, f)[pair] = (Name(pair) \o <<":">>) \o f[pair[2]]
        /\ Len(Entry(V, f)[pair]) = Len(Name(pair)) + 1 + Len(f[pair[2]])
    <3>1. IsEntry(Entry(V, f)[pair], pair, f[pair[2]])
      BY EntryIs
    <3> HIDE DEF name, body, front
    <3> QED
      BY <3>1 DEF IsEntry
  <2> QED
    BY <2>1 DEF MessageWords
<1>2. colon \in Texts /\ Len(colon) = 1
  BY OneChar DEF Chars
<1> HIDE DEF name, colon, body
<1>3. front \in Texts /\ Len(front) = Len(name) + Len(colon)
  BY <1>1, <1>2, ConcatProperties DEF Texts
<1>4. At(x, p, front \o body)
  BY <1>1
<1> HIDE DEF front
<1>5. At(x, p, front) /\ p + Len(front) \in Nat /\ At(x, p + Len(front), body)
  BY <1>1, <1>3, <1>4, AtConcat
<1>6. At(x, p, name)
  BY <1>1, <1>2, <1>5, AtConcat DEF front
<1>7. Len(name) \in Nat /\ Len(body) \in Nat
  BY <1>1, LenProperties DEF Texts
<1>8. p + Len(front) = p + Len(name) + 1 /\ p + (Len(name) + 1 + Len(body)) = (p + Len(name) + 1) + Len(body)
  BY <1>2, <1>3, <1>7
<1>9. At(x, p + Len(name) + 1, body) /\ p + Len(name) + 1 \in Nat
  BY <1>5, <1>8
<1> QED
  BY <1>1, <1>6, <1>8, <1>9 DEF name, body, EntryStands

LEMMA EntryTells ==
  ASSUME NEW V, NEW f, Tells(V, f), Starts(V, f)
  PROVE  Tells(Chars \X V, Entry(V, f)) /\ Starts(Chars \X V, Entry(V, f))
<1>1. Starts(Chars \X V, Entry(V, f))
  BY EntryIs DEF Starts, Closers, IsEntry
<1>2. ASSUME NEW v \in Chars \X V, NEW w \in Chars \X V, NEW x \in Texts, NEW p \in Nat,
             At(x, p, Entry(V, f)[v]), ValueEnds(x, p + Len(Entry(V, f)[v])),
             At(x, p, Entry(V, f)[w]), ValueEnds(x, p + Len(Entry(V, f)[w]))
      PROVE  v = w
  <2> DEFINE a == Name(v)
             b == Name(w)
  <2>1. EntryStands(x, p, Entry(V, f)[v], v, f[v[2]]) /\ IsEntry(Entry(V, f)[v], v, f[v[2]])
    BY <1>2, EntryParts, EntryIs
  <2>2. EntryStands(x, p, Entry(V, f)[w], w, f[w[2]]) /\ IsEntry(Entry(V, f)[w], w, f[w[2]])
    BY <1>2, EntryParts, EntryIs
  <2>3. v[1] = w[1] /\ a = b
    <3>1. At(x, p, a) /\ At(x, p, b) /\ <<v[1]>> \in Texts /\ <<w[1]>> \in Texts
      BY <2>1, <2>2 DEF EntryStands, IsEntry
    <3>2. <<v[1]>> = <<w[1]>>
      BY <3>1, EscapeTells DEF Name
    <3> QED
      BY <3>2 DEF Name
  <2> DEFINE q == p + Len(a) + 1
  <2>4. q \in Nat /\ At(x, q, f[v[2]]) /\ ValueEnds(x, q + Len(f[v[2]]))
    BY <1>2, <2>1 DEF EntryStands
  <2>5. At(x, q, f[w[2]]) /\ ValueEnds(x, q + Len(f[w[2]]))
    BY <1>2, <2>2, <2>3 DEF EntryStands
  <2> HIDE DEF q, a, b
  <2>6. v[2] = w[2]
    BY <2>4, <2>5 DEF Tells
  <2> QED
    BY <2>3, <2>6
<1> QED
  BY <1>1, <1>2 DEF Tells

LEMMA LevelIs ==
  ASSUME NEW V, NEW v \in Level(V)
  PROVE  \/ \E w \in Literals : v = Word(w)
         \/ \E s \in Texts : v = Str(s)
         \/ \E n \in Nat : v = Num(n) \/ v = CanonicalFloat(n)
         \/ \E e \in Seq(V) : v = Arr(e)
         \/ \E kv \in Seq(Chars \X V) : v = Obj(kv)
BY DEF Level, Word, Str, Num, CanonicalFloat, Arr, Obj

LEMMA InLevel ==
  ASSUME NEW V
  PROVE  /\ Null \in Level(V) /\ \A w \in Literals : Word(w) \in Level(V)
         /\ \A s \in Texts : Str(s) \in Level(V)
         /\ \A n \in Nat : Num(n) \in Level(V) /\ CanonicalFloat(n) \in Level(V)
         /\ \A e \in Seq(V) : Arr(e) \in Level(V)
         /\ \A kv \in Seq(Chars \X V) : Obj(kv) \in Level(V)
BY DEF Level, Null, Word, Literals, Str, Num, CanonicalFloat, Arr, Obj

ListText(V, f, e)    == Enclosed("[", Joined(PartsOf(f, e)), "]")
ObjectText(V, f, kv) == Enclosed("{", Joined(PartsOf(Entry(V, f), kv)), "}")

LEMMA WrittenIs ==
  ASSUME NEW V, NEW f
  PROVE  LET g == Written(V, f) IN
         /\ \A w \in Literals : g[Word(w)] = <<w>>
         /\ \A s \in Texts : g[Str(s)] = EscapeString(s)
         /\ \A n \in Nat : g[Num(n)] = Digits(n) /\ g[CanonicalFloat(n)] = FormatFloat(n)
         /\ \A e \in Seq(V) : g[Arr(e)] = ListText(V, f, e)
         /\ \A kv \in Seq(Chars \X V) : g[Obj(kv)] = ObjectText(V, f, kv)
<1> DEFINE g == Written(V, f)
<1>1. ASSUME NEW w \in Literals PROVE g[Word(w)] = <<w>>
  <2>1. Word(w).t = w
    BY DEF Word
  <2> QED
    BY <2>1, InLevel DEF Literals, Written
<1>2. ASSUME NEW s \in Texts PROVE g[Str(s)] = EscapeString(s)
  <2>1. Str(s).t = "string" /\ Str(s).s = s
    BY DEF Str
  <2> QED
    BY <2>1, InLevel DEF Literals, Written
<1>3. ASSUME NEW n \in Nat PROVE g[Num(n)] = Digits(n)
  <2>1. Num(n).t = "number" /\ Num(n).n = n
    BY DEF Num
  <2> QED
    BY <2>1, InLevel DEF Literals, Written, FormatNumber
<1>4. ASSUME NEW n \in Nat PROVE g[CanonicalFloat(n)] = FormatFloat(n)
  <2>1. CanonicalFloat(n).t = "float" /\ CanonicalFloat(n).n = n
    BY DEF CanonicalFloat
  <2> QED
    BY <2>1, InLevel DEF Literals, Written
<1>5. ASSUME NEW e \in Seq(V) PROVE g[Arr(e)] = ListText(V, f, e)
  <2>1. Arr(e).t = "array" /\ Arr(e).e = e
    BY DEF Arr
  <2> QED
    BY <2>1, InLevel DEF Literals, Written, ListText
<1>6. ASSUME NEW kv \in Seq(Chars \X V) PROVE g[Obj(kv)] = ObjectText(V, f, kv)
  <2>1. Obj(kv).t = "object" /\ Obj(kv).kv = kv
    BY DEF Obj
  <2> QED
    BY <2>1, InLevel DEF Literals, Written, ObjectText
<1> QED
  BY <1>1, <1>2, <1>3, <1>4, <1>5, <1>6

\* The first character tells what kind of value it is, but for two numbers.
LEMMA FloatIs ==
  ASSUME NEW n \in Nat
  PROVE  /\ FormatFloat(n) \in Texts /\ FormatFloat(n) # <<>> /\ FormatFloat(n)[1] \in Digit
         /\ \A x \in Texts, p \in Nat : At(x, p, FormatFloat(n)) =>
              At(x, p, Digits(n)) /\ p + Len(Digits(n)) + 1 <= Len(x) /\ x[p + Len(Digits(n)) + 1] = ".0"
<1> DEFINE d == Digits(n)
           u == d \o <<".0">>
<1>1. d \in Texts /\ Len(d) \in Nat \ {0} /\ \A i \in 1..Len(d) : d[i] \in Digit
  BY DigitsAreText
<1>2. FormatFloat(n) = u
  <2>1. d \in Seq(Chars) /\ ".0" \in Chars
    BY <1>1 DEF Texts, Chars
  <2>2. FormatFloat(n) = Append(d, ".0")
    BY DEF FormatFloat
  <2> HIDE DEF d
  <2>3. Append(d, ".0") = d \o <<".0">>
    BY <2>1, AppendIsConcat
  <2> QED
    BY <2>2, <2>3
<1>3. <<".0">> \in Texts /\ Len(<<".0">>) = 1 /\ <<".0">>[1] = ".0" /\ <<".0">> # <<>>
  BY OneChar DEF Chars
<1> HIDE DEF d
<1>4. /\ u \in Texts /\ Len(u) = Len(d) + Len(<<".0">>) /\ \A i \in 1..Len(d) : u[i] = d[i]
  BY <1>1, <1>3, ConcatProperties DEF Texts
<1>5. Len(u) # 0 /\ u[1] \in Digit
  <2>1. 1 \in 1..Len(d)
    BY <1>1
  <2> QED
    BY <1>1, <1>3, <1>4, <2>1
<1>6. u # <<>>
  BY <1>4, <1>5, EmptySeq DEF Texts
<1>7. ASSUME NEW x \in Texts, NEW p \in Nat, At(x, p, u)
      PROVE  At(x, p, d) /\ p + Len(d) + 1 <= Len(x) /\ x[p + Len(d) + 1] = ".0"
  <2>1. At(x, p, d) /\ p + Len(d) \in Nat /\ At(x, p + Len(d), <<".0">>)
    BY <1>1, <1>3, <1>7, AtConcat
  <2>2. x[(p + Len(d)) + 1] = <<".0">>[1] /\ (p + Len(d)) + 1 <= Len(x)
    BY <1>3, <2>1, AtFirst
  <2> QED
    BY <1>3, <2>1, <2>2
<1> QED
  BY <1>2, <1>4, <1>5, <1>6, <1>7 DEF d

Heads == [null |-> {"null"}, true |-> {"true"}, false |-> {"false"}, string |-> {"quote"}, number |-> Digit, float |-> Digit, array |-> {"["}, object |-> {"{"}]

LEMMA WrittenStarts ==
  ASSUME NEW V, NEW f, Starts(V, f), Tells(V, f), NEW v \in Level(V)
  PROVE  Written(V, f)[v] \in MessageWords /\ Written(V, f)[v][1] \in Heads[v.t]
<1> DEFINE g == Written(V, f)
<1> HIDE DEF g
<1>1. CASE \E w \in Literals : v = Word(w)
  <2>1. PICK w \in Literals : v = Word(w)
    BY <1>1
  <2>2. g[v] = <<w>> /\ v.t = w
    BY <2>1, WrittenIs DEF g, Word
  <2>3. w \in Chars
    BY DEF Chars, Literals
  <2>4. Heads[w] = {w}
    <3>1. Heads["null"] = {"null"} /\ Heads["true"] = {"true"} /\ Heads["false"] = {"false"}
      BY DEF Heads
    <3> QED
      BY <3>1 DEF Literals
  <2> QED
    BY <2>2, <2>3, <2>4, OneChar DEF MessageWords, g
<1>2. CASE \E s \in Texts : v = Str(s)
  <2>1. PICK s \in Texts : v = Str(s)
    BY <1>2
  <2>2. g[v] = EscapeString(s) /\ v.t = "string"
    BY <2>1, WrittenIs DEF g, Str
  <2> QED
    BY <2>2, EscapeIsText DEF Heads, g
<1>3. CASE \E n \in Nat : v = Num(n) \/ v = CanonicalFloat(n)
  <2>1. PICK n \in Nat : v = Num(n) \/ v = CanonicalFloat(n)
    BY <1>3
  <2>2. CASE v = Num(n)
    <3>1. g[v] = Digits(n) /\ v.t = "number"
      BY <2>2, WrittenIs DEF g, Num
    <3>2. Digits(n) \in MessageWords /\ Digits(n)[1] \in Digit
      <4>1. Digits(n) \in MessageWords /\ 1 \in 1..Len(Digits(n))
        BY DigitsAreText DEF MessageWords
      <4> QED
        BY <4>1, DigitsAreText
    <3> QED
      BY <3>1, <3>2 DEF Heads, g
  <2>3. CASE v = CanonicalFloat(n)
    <3>1. g[v] = FormatFloat(n) /\ v.t = "float"
      BY <2>3, WrittenIs DEF g, CanonicalFloat
    <3> QED
      BY <3>1, FloatIs DEF Heads, MessageWords, g
  <2> QED
    BY <2>1, <2>2, <2>3
<1>4. CASE \E e \in Seq(V) : v = Arr(e)
  <2>1. PICK e \in Seq(V) : v = Arr(e)
    BY <1>4
  <2>2. g[v] = ListText(V, f, e) /\ v.t = "array"
    BY <2>1, WrittenIs DEF g, Arr
  <2>3. Joined(PartsOf(f, e)) \in Texts /\ "[" \in Chars /\ "]" \in Chars
    BY JoinedIsText DEF Chars
  <2>4. g[v] \in MessageWords /\ g[v][1] = "["
    BY <2>2, <2>3, EnclosedIs DEF ListText, MessageWords
  <2> QED
    BY <2>2, <2>4 DEF Heads, g
<1>5. CASE \E kv \in Seq(Chars \X V) : v = Obj(kv)
  <2>1. PICK kv \in Seq(Chars \X V) : v = Obj(kv)
    BY <1>5
  <2>2. g[v] = ObjectText(V, f, kv) /\ v.t = "object"
    BY <2>1, WrittenIs DEF g, Obj
  <2>3. Starts(Chars \X V, Entry(V, f))
    BY EntryTells
  <2>4. Joined(PartsOf(Entry(V, f), kv)) \in Texts /\ "{" \in Chars /\ "}" \in Chars
    BY <2>3, JoinedIsText DEF Chars
  <2> DEFINE body == Joined(PartsOf(Entry(V, f), kv))
  <2> HIDE DEF body
  <2>5. Enclosed("{", body, "}") \in Texts /\ Enclosed("{", body, "}") # <<>> /\ Enclosed("{", body, "}")[1] = "{"
    <3>1. body \in Texts
      BY <2>4 DEF body
    <3>2. \A a, b \in Chars : Enclosed(a, body, b) \in Texts /\ Enclosed(a, body, b) # <<>> /\ Enclosed(a, body, b)[1] = a
      BY <3>1, EnclosedIs
    <3>3. "{" \in Chars /\ "}" \in Chars
      BY <2>4
    <3> QED
      BY <3>2, <3>3
  <2>6. g[v] = Enclosed("{", body, "}")
    BY <2>2 DEF ObjectText, body
  <2>7. Heads[v.t] = {"{"}
    BY <2>2 DEF Heads
  <2> QED
    BY <2>5, <2>6, <2>7 DEF g, MessageWords
<1> QED
  BY <1>1, <1>2, <1>3, <1>4, <1>5, LevelIs

LEMMA NumbersEnd ==
  ASSUME NEW x \in Texts, NEW p \in Nat, NEW m \in Nat, NEW n \in Nat,
         At(x, p, Digits(m)), ValueEnds(x, p + Len(Digits(m)))
  PROVE  /\ At(x, p, Digits(n)) /\ ValueEnds(x, p + Len(Digits(n))) => m = n
         /\ ~At(x, p, FormatFloat(n))
<1> DEFINE s == Digits(m)
           t == Digits(n)
<1>1. Len(x) \in Nat /\ Len(s) \in Nat /\ Len(t) \in Nat
  BY DigitsAreText, LenProperties DEF Texts
<1>2. \A q : ValueEnds(x, q) => NumberEnds(x, q)
  BY DEF ValueEnds, NumberEnds, Closers, Digit
<1>3. NumberEnds(x, p + Len(s))
  BY <1>2
<1>4. ASSUME At(x, p, t), ValueEnds(x, p + Len(t)) PROVE m = n
  <2>1. NumberEnds(x, p + Len(t))
    BY <1>2, <1>4
  <2> QED
    BY <1>3, <1>4, <2>1, NumbersTell
<1>5. ASSUME At(x, p, FormatFloat(n)) PROVE FALSE
  <2>1. At(x, p, t) /\ p + Len(t) + 1 <= Len(x) /\ x[p + Len(t) + 1] = ".0"
    BY <1>5, FloatIs
  <2> HIDE DEF s, t
  <2>2. NumberEnds(x, p + Len(t))
    BY <2>1 DEF NumberEnds, Digit
  <2>3. m = n
    BY <1>3, <2>1, <2>2, NumbersTell DEF s, t
  <2>4. ValueEnds(x, p + Len(t)) /\ p + Len(t) # Len(x)
    BY <1>1, <2>1, <2>3 DEF s, t
  <2> QED
    BY <2>1, <2>4 DEF ValueEnds, Closers
<1> QED
  BY <1>4, <1>5

Tags == {"null", "true", "false", "string", "number", "float", "array", "object"}

LEMMA TagsTell ==
  ASSUME NEW a \in Tags, NEW b \in Tags, NEW c, c \in Heads[a], c \in Heads[b]
  PROVE  a = b \/ {a, b} \subseteq {"number", "float"}
<1> DEFINE curly == "{"
<1>1. /\ Heads["null"] = {"null"} /\ Heads["true"] = {"true"} /\ Heads["false"] = {"false"}
      /\ Heads["string"] = {"quote"} /\ Heads["array"] = {"["} /\ Heads["object"] = {curly}
      /\ Heads["number"] = Digit /\ Heads["float"] = Digit
  BY DEF Heads
<1>2. curly \notin {"null", "true", "false", "quote", "["} \cup Digit
  BY DEF Digit
<1> HIDE DEF curly
<1>3. ASSUME NEW t \in Tags, c \in Heads[t]
      PROVE  \/ t \in {"null", "true", "false"} /\ c = t
             \/ (t = "string" /\ c = "quote") \/ (t = "array" /\ c = "[") \/ (t = "object" /\ c = curly)
             \/ t \in {"number", "float"} /\ c \in Digit
  BY <1>1, <1>3 DEF Tags
<1>4. Digit \cap {"null", "true", "false", "quote", "["} = {}
  BY DEF Digit
<1> QED
  BY <1>2, <1>3, <1>4

\* A value by its tag.
Shaped(V, v) ==
  /\ v.t \in Tags
  /\ v.t \in Literals => v = Word(v.t)
  /\ v.t = "string" => \E s \in Texts : v = Str(s)
  /\ v.t = "number" => \E n \in Nat : v = Num(n)
  /\ v.t = "float" => \E n \in Nat : v = CanonicalFloat(n)
  /\ v.t = "array" => \E e \in Seq(V) : v = Arr(e)
  /\ v.t = "object" => \E kv \in Seq(Chars \X V) : v = Obj(kv)

LEMMA LevelTags ==
  ASSUME NEW V, NEW v \in Level(V)
  PROVE  Shaped(V, v)
<1> USE DEF Shaped
<1>1. /\ \A w \in Literals : Word(w).t = w
      /\ \A s \in Texts : Str(s).t = "string"
      /\ \A n \in Nat : Num(n).t = "number" /\ CanonicalFloat(n).t = "float"
      /\ \A e \in Seq(V) : Arr(e).t = "array" /\ \A kv \in Seq(Chars \X V) : Obj(kv).t = "object"
  BY DEF Word, Str, Num, CanonicalFloat, Arr, Obj
<1>2. CASE \E w \in Literals : v = Word(w)
  BY <1>1, <1>2 DEF Tags, Literals
<1>3. CASE \E s \in Texts : v = Str(s)
  BY <1>1, <1>3 DEF Tags, Literals
<1>4. CASE \E n \in Nat : v = Num(n)
  BY <1>1, <1>4 DEF Tags, Literals
<1>5. CASE \E n \in Nat : v = CanonicalFloat(n)
  BY <1>1, <1>5 DEF Tags, Literals
<1>6. CASE \E e \in Seq(V) : v = Arr(e)
  BY <1>1, <1>6 DEF Tags, Literals
<1>7. CASE \E kv \in Seq(Chars \X V) : v = Obj(kv)
  <2>1. PICK kv \in Seq(Chars \X V) : v = Obj(kv)
    BY <1>7
  <2>2. v.t = "object"
    BY <2>1 DEF Obj
  <2> QED
    BY <2>1, <2>2 DEF Tags, Literals
<1> QED
  BY <1>2, <1>3, <1>4, <1>5, <1>6, <1>7, LevelIs

\* What is enclosed by brackets is told up to the closing one.
LEMMA EnclosedTells ==
  ASSUME NEW V, NEW f, Tells(V, f), Starts(V, f), NEW e \in Seq(V), NEW g \in Seq(V),
         NEW x \in Texts, NEW p \in Nat, NEW a \in Chars, NEW b \in Closing,
         At(x, p, Enclosed(a, Joined(PartsOf(f, e)), b)), At(x, p, Enclosed(a, Joined(PartsOf(f, g)), b))
  PROVE  e = g
<1> DEFINE s == Joined(PartsOf(f, e))
           t == Joined(PartsOf(f, g))
<1>1. s \in Texts /\ t \in Texts /\ b \in Chars
  BY JoinedIsText DEF Closing, Chars
<1>2. At(x, p + 1, s) /\ x[(p + 1) + Len(s) + 1] = b
  <2> HIDE DEF s, t
  <2>1. At(x, p, Enclosed(a, s, b))
    BY DEF s
  <2> QED
    BY <1>1, <2>1, EnclosedIs
<1>3. At(x, p + 1, t) /\ x[(p + 1) + Len(t) + 1] = b
  <2> HIDE DEF s, t
  <2>1. At(x, p, Enclosed(a, t, b))
    BY DEF t
  <2> QED
    BY <1>1, <2>1, EnclosedIs
<1> DEFINE q == p + 1
<1>4. q \in Nat
  OBVIOUS
<1> HIDE DEF q
<1>5. /\ At(x, q, Joined(PartsOf(f, e))) /\ x[q + Len(Joined(PartsOf(f, e))) + 1] = b
      /\ At(x, q, Joined(PartsOf(f, g))) /\ x[q + Len(Joined(PartsOf(f, g))) + 1] = b
  BY <1>2, <1>3 DEF q
<1> QED
  BY <1>4, <1>5, ListTells

LEMMA WrittenTells ==
  ASSUME NEW V, NEW f, Tells(V, f), Starts(V, f)
  PROVE  Tells(Level(V), Written(V, f)) /\ Starts(Level(V), Written(V, f))
<1> DEFINE g == Written(V, f)
<1> HIDE DEF g
<1>1. \A v \in Level(V) : g[v] \in MessageWords /\ g[v][1] \in Heads[v.t] /\ v.t \in Tags
  BY WrittenStarts, LevelTags DEF g, Shaped
<1>2. Starts(Level(V), g)
  <2>1. \A t \in Tags : \A c \in Heads[t] : c \notin Closers
    <3>1. /\ Heads["null"] = {"null"} /\ Heads["true"] = {"true"} /\ Heads["false"] = {"false"} /\ Heads["string"] = {"quote"} /\ Heads["array"] = {"["}
          /\ Heads["object"] = {"{"} /\ Heads["number"] = Digit /\ Heads["float"] = Digit
      BY DEF Heads
    <3> QED
      BY <3>1 DEF Tags, Closers, Digit
  <2> QED
    BY <1>1, <2>1 DEF Starts
<1>3. ASSUME NEW v \in Level(V), NEW w \in Level(V), NEW x \in Texts, NEW p \in Nat,
             At(x, p, g[v]), ValueEnds(x, p + Len(g[v])), At(x, p, g[w]), ValueEnds(x, p + Len(g[w]))
      PROVE  v = w
  <2>1. x[p + 1] \in Heads[v.t] /\ x[p + 1] \in Heads[w.t]
    <3>1. x[p + 1] = g[v][1] /\ x[p + 1] = g[w][1]
      BY <1>1, <1>3, AtFirst DEF MessageWords
    <3> QED
      BY <1>1, <3>1
  <2>2. v.t \in Tags /\ w.t \in Tags /\ (v.t = w.t \/ {v.t, w.t} \subseteq {"number", "float"})
    BY <1>1, <2>1, TagsTell
  <2>s. Shaped(V, v) /\ Shaped(V, w)
    BY LevelTags
  <2>w. v.t \in Literals \cup {"string", "array", "object"} => w.t = v.t
    BY <2>2 DEF Literals
  <2>3. CASE v.t \in Literals
    BY <2>s, <2>w, <2>3 DEF Shaped
  <2>4. CASE v.t = "string"
    <3>1. PICK s \in Texts : v = Str(s)
      BY <2>s, <2>4 DEF Shaped
    <3>2. PICK t \in Texts : w = Str(t)
      BY <2>s, <2>w, <2>4 DEF Shaped
    <3>3. g[v] = EscapeString(s) /\ g[w] = EscapeString(t)
      BY <3>1, <3>2, WrittenIs DEF g
    <3> QED
      BY <1>3, <3>1, <3>2, <3>3, EscapeTells
  <2>5. CASE v.t = "array"
    <3>1. PICK e \in Seq(V) : v = Arr(e)
      BY <2>s, <2>5 DEF Shaped
    <3>2. PICK h \in Seq(V) : w = Arr(h)
      BY <2>s, <2>w, <2>5 DEF Shaped
    <3>3. g[v] = Enclosed("[", Joined(PartsOf(f, e)), "]") /\ g[w] = Enclosed("[", Joined(PartsOf(f, h)), "]")
      BY <3>1, <3>2, WrittenIs DEF g, ListText
    <3>4. "[" \in Chars /\ "]" \in Closing
      BY DEF Chars, Closing
    <3>5. e = h
      BY <1>3, <3>3, <3>4, EnclosedTells
    <3> QED
      BY <3>1, <3>2, <3>5
  <2>6. CASE v.t = "object"
    <3> DEFINE S == Chars \X V
               entry == Entry(V, f)
    <3>1. PICK e \in Seq(S) : v = Obj(e)
      BY <2>s, <2>6 DEF Shaped
    <3>2. PICK h \in Seq(S) : w = Obj(h)
      BY <2>s, <2>w, <2>6 DEF Shaped
    <3>3. g[v] = Enclosed("{", Joined(PartsOf(entry, e)), "}") /\ g[w] = Enclosed("{", Joined(PartsOf(entry, h)), "}")
      BY <3>1, <3>2, WrittenIs DEF g, ObjectText
    <3>4. "{" \in Chars /\ "}" \in Closing /\ Tells(S, entry) /\ Starts(S, entry)
      BY EntryTells DEF Chars, Closing
    <3> HIDE DEF S, entry
    <3>5. \A a \in Chars, b \in Closing :
            At(x, p, Enclosed(a, Joined(PartsOf(entry, e)), b)) /\ At(x, p, Enclosed(a, Joined(PartsOf(entry, h)), b))
            => e = h
      <4>1. e \in Seq(S) /\ h \in Seq(S)
        BY <3>1, <3>2
      <4> QED
        BY <3>4, <4>1, EnclosedTells
    <3>6. e = h
      BY <1>3, <3>3, <3>4, <3>5
    <3> QED
      BY <3>1, <3>2, <3>6
  <2>7. CASE v.t = "number"
    <3>1. PICK n \in Nat : v = Num(n)
      BY <2>s, <2>7 DEF Shaped
    <3>2. g[v] = Digits(n)
      BY <3>1, WrittenIs DEF g
    <3>3. CASE w.t = "number"
      <4>1. PICK m \in Nat : w = Num(m)
        BY <2>s, <3>3 DEF Shaped
      <4>2. g[w] = Digits(m)
        BY <4>1, WrittenIs DEF g
      <4> QED
        BY <1>3, <3>1, <3>2, <4>1, <4>2, NumbersEnd
    <3>4. CASE w.t = "float"
      <4>1. PICK m \in Nat : w = CanonicalFloat(m)
        BY <2>s, <3>4 DEF Shaped
      <4>2. g[w] = FormatFloat(m)
        BY <4>1, WrittenIs DEF g
      <4> QED
        BY <1>3, <3>1, <3>2, <4>1, <4>2, NumbersEnd
    <3> QED
      BY <2>2, <2>7, <3>3, <3>4
  <2>8. CASE v.t = "float"
    <3>1. PICK n \in Nat : v = CanonicalFloat(n)
      BY <2>s, <2>8 DEF Shaped
    <3>2. g[v] = FormatFloat(n)
      BY <3>1, WrittenIs DEF g
    <3>3. CASE w.t = "number"
      <4>1. PICK m \in Nat : w = Num(m)
        BY <2>s, <3>3 DEF Shaped
      <4>2. g[w] = Digits(m)
        BY <4>1, WrittenIs DEF g
      <4> QED
        BY <1>3, <3>1, <3>2, <4>1, <4>2, NumbersEnd
    <3>4. CASE w.t = "float"
      <4>1. PICK m \in Nat : w = CanonicalFloat(m)
        BY <2>s, <3>4 DEF Shaped
      <4>2. g[w] = FormatFloat(m)
        BY <4>1, WrittenIs DEF g
      <4>3. m = n
        <5>1. At(x, p, Digits(m)) /\ x[p + Len(Digits(m)) + 1] = ".0"
          BY <1>3, <4>2, FloatIs
        <5>2. At(x, p, Digits(n)) /\ x[p + Len(Digits(n)) + 1] = ".0"
          BY <1>3, <3>2, FloatIs
        <5>3. NumberEnds(x, p + Len(Digits(m))) /\ NumberEnds(x, p + Len(Digits(n)))
          BY <5>1, <5>2 DEF NumberEnds, Digit
        <5> QED
          BY <5>1, <5>2, <5>3, NumbersTell
      <4> QED
        BY <3>1, <4>1, <4>3
    <3> QED
      BY <2>2, <2>8, <3>3, <3>4
  <2> QED
    BY <2>2, <2>3, <2>4, <2>5, <2>6, <2>7, <2>8 DEF Tags, Literals
<1> QED
  BY <1>2, <1>3 DEF Tells, g

-----------------------------------------------------------------------------
(* The three layers.                                                       *)

Layer0 == Level({})
Layer1 == Level(Layer0)
Layer2 == Level(Layer1)
Layer3 == Level(Layer2)

Written0 == Written({}, <<>>)
Written1 == Written(Layer0, Written0)
Written2 == Written(Layer1, Written1)
Written3 == Written(Layer2, Written2)

LEMMA LayersTell ==
  Tells(Layer0, Written0) /\ Starts(Layer0, Written0) /\ Tells(Layer1, Written1) /\ Starts(Layer1, Written1)
  /\ Tells(Layer2, Written2) /\ Starts(Layer2, Written2) /\ Tells(Layer3, Written3) /\ Starts(Layer3, Written3)
<1>1. Tells({}, <<>>) /\ Starts({}, <<>>)
  BY DEF Tells, Starts
<1>2. Tells(Layer0, Written0) /\ Starts(Layer0, Written0)
  BY <1>1, WrittenTells DEF Layer0, Written0
<1>3. Tells(Layer1, Written1) /\ Starts(Layer1, Written1)
  BY <1>2, WrittenTells DEF Layer1, Written1
<1>4. Tells(Layer2, Written2) /\ Starts(Layer2, Written2)
  BY <1>3, WrittenTells DEF Layer2, Written2
<1>5. Tells(Layer3, Written3) /\ Starts(Layer3, Written3)
  BY <1>4, WrittenTells DEF Layer3, Written3
<1> QED
  BY <1>2, <1>3, <1>4, <1>5

LEMMA DeepestIs == \A v \in Layer0 : Deepest(v) = Written0[v]
<1> SUFFICES ASSUME NEW v \in Layer0 PROVE Deepest(v) = Written0[v]
  OBVIOUS
<1>1. v \in Level({}) /\ Written0 = Written({}, <<>>)
  BY DEF Layer0, Written0
<1>2. Shaped({}, v)
  BY <1>1, LevelTags
<1>3. CASE v.t = "array"
  <2>1. PICK e \in Seq({}) : v = Arr(e)
    BY <1>2, <1>3 DEF Shaped
  <2>2. Written0[v] = Enclosed("[", Joined(PartsOf(<<>>, e)), "]")
    BY <1>1, <2>1, WrittenIs DEF ListText
  <2>3. [i \in DOMAIN e |-> <<"deeper">>] = PartsOf(<<>>, e)
    <3>1. \A i \in DOMAIN e : e[i] \in {}
      BY <2>1, ElementOfSeq, LenProperties
    <3> QED
      BY <3>1 DEF PartsOf
  <2>4. v.t = "array" /\ v.e = e
    BY <2>1 DEF Arr
  <2>5. Deepest(v) = (<<"[">> \o Joined([i \in DOMAIN e |-> <<"deeper">>])) \o <<"]">>
    BY <2>4 DEF Deepest, SerializeAround, Literals
  <2> QED
    BY <2>2, <2>3, <2>5 DEF Enclosed
<1>4. CASE v.t = "object"
  <2>1. PICK kv \in Seq(Chars \X {}) : v = Obj(kv)
    BY <1>2, <1>4 DEF Shaped
  <2>2. Written0[v] = Enclosed("{", Joined(PartsOf(Entry({}, <<>>), kv)), "}")
    BY <1>1, <2>1, WrittenIs DEF ObjectText
  <2> DEFINE parts == [i \in DOMAIN kv |-> (EscapeString(<<kv[i][1]>>) \o <<":">>) \o <<"deeper">>]
  <2>3. parts = PartsOf(Entry({}, <<>>), kv)
    <3>1. \A i \in DOMAIN kv : kv[i] \in Chars \X {} /\ kv[i][2] \in {}
      BY <2>1, ElementOfSeq, LenProperties
    <3>2. \A i \in DOMAIN kv : Entry({}, <<>>)[kv[i]] = (EscapeString(<<kv[i][1]>>) \o <<":">>) \o <<"deeper">>
      BY <3>1 DEF Entry, Name
    <3> QED
      BY <3>2 DEF PartsOf
  <2>4. v.t = "object" /\ v.kv = kv
    BY <2>1 DEF Obj
  <2>5. Deepest(v) = (<<"{">> \o Joined(parts)) \o <<"}">>
    BY <2>4 DEF Deepest, SerializeAround, Literals
  <2> HIDE DEF parts
  <2> QED
    BY <2>2, <2>3, <2>5 DEF Enclosed
<1>5. CASE v.t \notin {"array", "object"}
  <2>1. Written0[v] = CASE v.t \in Literals -> <<v.t>>
                 [] v.t = "float"  -> FormatFloat(v.n)
                 [] v.t = "number" -> FormatNumber(v.n)
                 [] v.t = "string" -> EscapeString(v.s)
    BY <1>1, <1>2, <1>5 DEF Written, Shaped, Tags, Literals
  <2> QED
    BY <1>2, <1>5, <2>1 DEF Deepest, SerializeAround, Shaped, Tags, Literals
<1> QED
  BY <1>3, <1>4, <1>5

LEMMA SecondLayerIs == \A v \in Layer1 : SecondLayer(v) = Written1[v]
<1> SUFFICES ASSUME NEW v \in Layer1 PROVE SecondLayer(v) = Written1[v]
  OBVIOUS
<1>1. v \in Level(Layer0) /\ Written1 = Written(Layer0, Written0)
  BY DEF Layer1, Written1
<1>2. Shaped(Layer0, v)
  BY <1>1, LevelTags
<1>3. CASE v.t = "array"
  <2>1. PICK e \in Seq(Layer0) : v = Arr(e)
    BY <1>2, <1>3 DEF Shaped
  <2>2. Written1[v] = Enclosed("[", Joined(PartsOf(Written0, e)), "]")
    BY <1>1, <2>1, WrittenIs DEF ListText
  <2>3. [i \in DOMAIN e |-> Deepest(e[i])] = PartsOf(Written0, e)
    <3>1. \A i \in DOMAIN e : e[i] \in Layer0
      BY <2>1, ElementOfSeq, LenProperties
    <3> QED
      BY <3>1, DeepestIs DEF PartsOf
  <2>4. v.t = "array" /\ v.e = e
    BY <2>1 DEF Arr
  <2>5. SecondLayer(v) = (<<"[">> \o Joined([i \in DOMAIN e |-> Deepest(e[i])])) \o <<"]">>
    BY <2>4 DEF SecondLayer, SerializeAround, Literals
  <2> QED
    BY <2>2, <2>3, <2>5 DEF Enclosed
<1>4. CASE v.t = "object"
  <2>1. PICK kv \in Seq(Chars \X Layer0) : v = Obj(kv)
    BY <1>2, <1>4 DEF Shaped
  <2>2. Written1[v] = Enclosed("{", Joined(PartsOf(Entry(Layer0, Written0), kv)), "}")
    BY <1>1, <2>1, WrittenIs DEF ObjectText
  <2> DEFINE parts == [i \in DOMAIN kv |-> (EscapeString(<<kv[i][1]>>) \o <<":">>) \o Deepest(kv[i][2])]
  <2>3. parts = PartsOf(Entry(Layer0, Written0), kv)
    <3>1. \A i \in DOMAIN kv : kv[i] \in Chars \X Layer0 /\ kv[i][2] \in Layer0
      BY <2>1, ElementOfSeq, LenProperties
    <3>2. \A i \in DOMAIN kv : Entry(Layer0, Written0)[kv[i]] = (EscapeString(<<kv[i][1]>>) \o <<":">>) \o Deepest(kv[i][2])
      BY <3>1, DeepestIs DEF Entry, Name
    <3> QED
      BY <3>2 DEF PartsOf
  <2>4. v.t = "object" /\ v.kv = kv
    BY <2>1 DEF Obj
  <2>5. SecondLayer(v) = (<<"{">> \o Joined(parts)) \o <<"}">>
    BY <2>4 DEF SecondLayer, SerializeAround, Literals
  <2> HIDE DEF parts
  <2> QED
    BY <2>2, <2>3, <2>5 DEF Enclosed
<1>5. CASE v.t \notin {"array", "object"}
  <2>1. Written1[v] = CASE v.t \in Literals -> <<v.t>>
                 [] v.t = "float"  -> FormatFloat(v.n)
                 [] v.t = "number" -> FormatNumber(v.n)
                 [] v.t = "string" -> EscapeString(v.s)
    BY <1>1, <1>2, <1>5 DEF Written, Shaped, Tags, Literals
  <2> QED
    BY <1>2, <1>5, <2>1 DEF SecondLayer, SerializeAround, Shaped, Tags, Literals
<1> QED
  BY <1>3, <1>4, <1>5

LEMMA ThirdLayerIs == \A v \in Layer2 : ThirdLayer(v) = Written2[v]
<1> SUFFICES ASSUME NEW v \in Layer2 PROVE ThirdLayer(v) = Written2[v]
  OBVIOUS
<1>1. v \in Level(Layer1) /\ Written2 = Written(Layer1, Written1)
  BY DEF Layer2, Written2
<1>2. Shaped(Layer1, v)
  BY <1>1, LevelTags
<1>3. CASE v.t = "array"
  <2>1. PICK e \in Seq(Layer1) : v = Arr(e)
    BY <1>2, <1>3 DEF Shaped
  <2>2. Written2[v] = Enclosed("[", Joined(PartsOf(Written1, e)), "]")
    BY <1>1, <2>1, WrittenIs DEF ListText
  <2>3. [i \in DOMAIN e |-> SecondLayer(e[i])] = PartsOf(Written1, e)
    <3>1. \A i \in DOMAIN e : e[i] \in Layer1
      BY <2>1, ElementOfSeq, LenProperties
    <3> QED
      BY <3>1, SecondLayerIs DEF PartsOf
  <2>4. v.t = "array" /\ v.e = e
    BY <2>1 DEF Arr
  <2>5. ThirdLayer(v) = (<<"[">> \o Joined([i \in DOMAIN e |-> SecondLayer(e[i])])) \o <<"]">>
    BY <2>4 DEF ThirdLayer, SerializeAround, Literals
  <2> QED
    BY <2>2, <2>3, <2>5 DEF Enclosed
<1>4. CASE v.t = "object"
  <2>1. PICK kv \in Seq(Chars \X Layer1) : v = Obj(kv)
    BY <1>2, <1>4 DEF Shaped
  <2>2. Written2[v] = Enclosed("{", Joined(PartsOf(Entry(Layer1, Written1), kv)), "}")
    BY <1>1, <2>1, WrittenIs DEF ObjectText
  <2> DEFINE parts == [i \in DOMAIN kv |-> (EscapeString(<<kv[i][1]>>) \o <<":">>) \o SecondLayer(kv[i][2])]
  <2>3. parts = PartsOf(Entry(Layer1, Written1), kv)
    <3>1. \A i \in DOMAIN kv : kv[i] \in Chars \X Layer1 /\ kv[i][2] \in Layer1
      BY <2>1, ElementOfSeq, LenProperties
    <3>2. \A i \in DOMAIN kv : Entry(Layer1, Written1)[kv[i]] = (EscapeString(<<kv[i][1]>>) \o <<":">>) \o SecondLayer(kv[i][2])
      BY <3>1, SecondLayerIs DEF Entry, Name
    <3> QED
      BY <3>2 DEF PartsOf
  <2>4. v.t = "object" /\ v.kv = kv
    BY <2>1 DEF Obj
  <2>5. ThirdLayer(v) = (<<"{">> \o Joined(parts)) \o <<"}">>
    BY <2>4 DEF ThirdLayer, SerializeAround, Literals
  <2> HIDE DEF parts
  <2> QED
    BY <2>2, <2>3, <2>5 DEF Enclosed
<1>5. CASE v.t \notin {"array", "object"}
  <2>1. Written2[v] = CASE v.t \in Literals -> <<v.t>>
                 [] v.t = "float"  -> FormatFloat(v.n)
                 [] v.t = "number" -> FormatNumber(v.n)
                 [] v.t = "string" -> EscapeString(v.s)
    BY <1>1, <1>2, <1>5 DEF Written, Shaped, Tags, Literals
  <2> QED
    BY <1>2, <1>5, <2>1 DEF ThirdLayer, SerializeAround, Shaped, Tags, Literals
<1> QED
  BY <1>3, <1>4, <1>5

LEMMA CanonicalSerializeIs == \A v \in Layer3 : CanonicalSerialize(v) = Written3[v]
<1> SUFFICES ASSUME NEW v \in Layer3 PROVE CanonicalSerialize(v) = Written3[v]
  OBVIOUS
<1>1. v \in Level(Layer2) /\ Written3 = Written(Layer2, Written2)
  BY DEF Layer3, Written3
<1>2. Shaped(Layer2, v)
  BY <1>1, LevelTags
<1>3. CASE v.t = "array"
  <2>1. PICK e \in Seq(Layer2) : v = Arr(e)
    BY <1>2, <1>3 DEF Shaped
  <2>2. Written3[v] = Enclosed("[", Joined(PartsOf(Written2, e)), "]")
    BY <1>1, <2>1, WrittenIs DEF ListText
  <2>3. [i \in DOMAIN e |-> ThirdLayer(e[i])] = PartsOf(Written2, e)
    <3>1. \A i \in DOMAIN e : e[i] \in Layer2
      BY <2>1, ElementOfSeq, LenProperties
    <3> QED
      BY <3>1, ThirdLayerIs DEF PartsOf
  <2>4. v.t = "array" /\ v.e = e
    BY <2>1 DEF Arr
  <2>5. CanonicalSerialize(v) = (<<"[">> \o Joined([i \in DOMAIN e |-> ThirdLayer(e[i])])) \o <<"]">>
    BY <2>4 DEF CanonicalSerialize, SerializeAround, Literals
  <2> QED
    BY <2>2, <2>3, <2>5 DEF Enclosed
<1>4. CASE v.t = "object"
  <2>1. PICK kv \in Seq(Chars \X Layer2) : v = Obj(kv)
    BY <1>2, <1>4 DEF Shaped
  <2>2. Written3[v] = Enclosed("{", Joined(PartsOf(Entry(Layer2, Written2), kv)), "}")
    BY <1>1, <2>1, WrittenIs DEF ObjectText
  <2> DEFINE parts == [i \in DOMAIN kv |-> (EscapeString(<<kv[i][1]>>) \o <<":">>) \o ThirdLayer(kv[i][2])]
  <2>3. parts = PartsOf(Entry(Layer2, Written2), kv)
    <3>1. \A i \in DOMAIN kv : kv[i] \in Chars \X Layer2 /\ kv[i][2] \in Layer2
      BY <2>1, ElementOfSeq, LenProperties
    <3>2. \A i \in DOMAIN kv : Entry(Layer2, Written2)[kv[i]] = (EscapeString(<<kv[i][1]>>) \o <<":">>) \o ThirdLayer(kv[i][2])
      BY <3>1, ThirdLayerIs DEF Entry, Name
    <3> QED
      BY <3>2 DEF PartsOf
  <2>4. v.t = "object" /\ v.kv = kv
    BY <2>1 DEF Obj
  <2>5. CanonicalSerialize(v) = (<<"{">> \o Joined(parts)) \o <<"}">>
    BY <2>4 DEF CanonicalSerialize, SerializeAround, Literals
  <2> HIDE DEF parts
  <2> QED
    BY <2>2, <2>3, <2>5 DEF Enclosed
<1>5. CASE v.t \notin {"array", "object"}
  <2>1. Written3[v] = CASE v.t \in Literals -> <<v.t>>
                 [] v.t = "float"  -> FormatFloat(v.n)
                 [] v.t = "number" -> FormatNumber(v.n)
                 [] v.t = "string" -> EscapeString(v.s)
    BY <1>1, <1>2, <1>5 DEF Written, Shaped, Tags, Literals
  <2> QED
    BY <1>2, <1>5, <2>1 DEF CanonicalSerialize, SerializeAround, Shaped, Tags, Literals
<1> QED
  BY <1>3, <1>4, <1>5

\* Canonical JSON is injective: what was written can be read in one way only.
LEMMA CanonicalTells ==
  ASSUME NEW v \in Layer3, NEW w \in Layer3, CanonicalSerialize(v) = CanonicalSerialize(w)
  PROVE  v = w
<1> DEFINE x == Written3[v]
<1>1. x = CanonicalSerialize(v) /\ x = Written3[w] /\ x \in Texts
  BY CanonicalSerializeIs, LayersTell DEF Starts, MessageWords
<1> HIDE DEF x
<1>2. At(x, 0, x) /\ ValueEnds(x, 0 + Len(x)) /\ Len(x) \in Nat
  BY <1>1, AtSelf, LenProperties DEF ValueEnds, Texts
<1>3. x = Written3[v]
  BY DEF x
<1> QED
  BY <1>1, <1>2, <1>3, LayersTell DEF Tells

LEMMA CanonicalIsText ==
  ASSUME NEW v \in Layer3
  PROVE  CanonicalSerialize(v) \in Texts
BY CanonicalSerializeIs, LayersTell DEF Starts, MessageWords

\* What JSON carries.
LEMMA JsonValuesAre ==
  JsonValues \subseteq Layer1 /\ JsonValues \subseteq Layer2
<1>1. \A V : Leaves \subseteq Level(V)
  <2>1. Seq(STRING) \subseteq Texts
    BY SeqMonotonic DEF Texts, Chars
  <2> QED
    BY <2>1 DEF Leaves, Level, Text
<1>2. ASSUME NEW V, Leaves \subseteq V PROVE JsonValues \subseteq Level(V)
  <2>1. Seq(Leaves) \subseteq Seq(V) /\ STRING \X Leaves \subseteq Chars \X V
    BY <1>2, SeqMonotonic DEF Chars
  <2>2. Seq(STRING \X Leaves) \subseteq Seq(Chars \X V)
    BY <2>1, SeqMonotonic
  <2>3. Leaves \subseteq Level(V)
    BY <1>1
  <2> QED
    BY <2>1, <2>2, <2>3 DEF JsonValues, Around, Level
<1> QED
  BY <1>1, <1>2 DEF Layer0, Layer1, Layer2

\* An argument of a call is encoded as a value that JSON carries, with nothing for a map.
LEMMA EncodedIs ==
  ASSUME NEW v \in SiteValues
  PROVE  EncodeArg(v) \in Layer2
<1> DEFINE S == Leaves \cup Strange
<1>1. \A V : Leaves \subseteq Level(V)
  <2>1. Seq(STRING) \subseteq Texts
    BY SeqMonotonic DEF Texts, Chars
  <2> QED
    BY <2>1 DEF Leaves, Level, Text
<1>2. ASSUME NEW V, NEW w \in S PROVE EncodedScalar(w) \in Level(V)
  <2>1. CASE w \in Strange
    <3>1. \A n \in Nat : Num(n) \in Leaves
      BY DEF Num, Leaves
    <3>2. \A x \in Text : Str(x) \in Leaves
      BY DEF Str, Leaves
    <3>3. Null \in Leaves /\ Obj(<<>>) \in Level(V)
      BY DEF Null, Leaves, Literals, Obj, Level
    <3> QED
      BY <1>1, <2>1, <3>1, <3>2, <3>3 DEF Strange, EncodedScalar
  <2>2. CASE w \in Leaves
    <3>1. EncodedScalar(w) = w
      BY <2>2 DEF Leaves, Literals, EncodedScalar
    <3> QED
      BY <1>1, <2>2, <3>1
  <2> QED
    BY <2>1, <2>2
<1>3. CASE v \in S
  <2>1. EncodeArg(v) = EncodedScalar(v)
    BY <1>3 DEF Leaves, Strange, Literals, EncodeArg
  <2> QED
    BY <1>2, <1>3, <2>1 DEF Layer2
<1>4. CASE v \in [t : {"array"}, e : Seq(S)]
  <2> DEFINE out == [i \in DOMAIN v.e |-> EncodedScalar(v.e[i])]
  <2>1. v.t = "array" /\ v.e \in Seq(S)
    BY <1>4
  <2>2. Len(v.e) \in Nat /\ DOMAIN v.e = 1..Len(v.e) /\ \A i \in 1..Len(v.e) : v.e[i] \in S
    BY <2>1, LenProperties
  <2>3. \A i \in 1..Len(v.e) : EncodedScalar(v.e[i]) \in Layer1
    BY <1>2, <2>2 DEF Layer1
  <2>4. out \in Seq(Layer1)
    <3>1. out \in [1..Len(v.e) -> Layer1]
      BY <2>2, <2>3
    <3> QED
      BY <2>2, <3>1, SeqDef
  <2>5. EncodeArg(v) = Arr(out)
    BY <2>1 DEF EncodeArg
  <2> HIDE DEF out
  <2> QED
    BY <2>4, <2>5, InLevel DEF Layer2
<1>5. CASE v \in [t : {"object"}, kv : Seq(STRING \X S)]
  <2> DEFINE out == [i \in DOMAIN v.kv |-> <<v.kv[i][1], EncodedScalar(v.kv[i][2])>>]
  <2>1. v.t = "object" /\ v.kv \in Seq(STRING \X S)
    BY <1>5
  <2>2. Len(v.kv) \in Nat /\ DOMAIN v.kv = 1..Len(v.kv) /\ \A i \in 1..Len(v.kv) : v.kv[i] \in STRING \X S
    BY <2>1, LenProperties
  <2>3. \A i \in 1..Len(v.kv) : v.kv[i][1] \in Chars /\ EncodedScalar(v.kv[i][2]) \in Layer1
    <3>1. \A i \in 1..Len(v.kv) : v.kv[i][1] \in STRING /\ v.kv[i][2] \in S
      BY <2>2
    <3> QED
      BY <1>2, <3>1 DEF Layer1, Chars
  <2>4. out \in Seq(Chars \X Layer1)
    <3>1. out \in [1..Len(v.kv) -> Chars \X Layer1]
      BY <2>2, <2>3
    <3> QED
      BY <2>2, <3>1, SeqDef
  <2>5. EncodeArg(v) = Obj(out)
    BY <2>1 DEF EncodeArg
  <2> HIDE DEF out
  <2> QED
    BY <2>4, <2>5, InLevel DEF Layer2
<1> QED
  BY <1>3, <1>4, <1>5 DEF SiteValues, Around

-----------------------------------------------------------------------------
(* What is signed.                                                         *)

\* Two texts that begin with equally long parts.
LEMMA ConcatEqual ==
  ASSUME NEW S, NEW s \in Seq(S), NEW t \in Seq(S), NEW u \in Seq(S), NEW v \in Seq(S),
         s \o t = u \o v, Len(s) = Len(u)
  PROVE  s = u /\ t = v
<1>1. Len(s) \in Nat /\ Len(t) \in Nat /\ Len(v) \in Nat
  BY LenProperties
<1>2. \A i \in 1..Len(s) : s[i] = u[i]
  <2>1. \A i \in 1..Len(s) : i \in 1..Len(s) + Len(t) /\ i \in 1..Len(u) + Len(v) /\ i <= Len(s)
    BY <1>1
  <2>2. \A i \in 1..Len(s) : (s \o t)[i] = s[i]
    BY <2>1, ConcatProperties
  <2>3. \A i \in 1..Len(s) : (u \o v)[i] = u[i]
    BY <2>1, ConcatProperties
  <2> QED
    BY <2>2, <2>3
<1>3. s = u
  BY <1>2, SeqEqual
<1>4. t = v
  BY <1>3, ConcatSimplifications
<1> QED
  BY <1>3, <1>4

LEMMA OneTells ==
  ASSUME NEW a \in Chars, NEW b \in Chars, NEW s \in Texts, NEW t \in Texts
  PROVE  /\ <<a>> \o s \in Texts /\ (<<a>> \o s)[1] = a
         /\ <<a>> \o s = <<b>> \o t => a = b /\ s = t
<1>1. <<a>> \in Texts /\ <<b>> \in Texts /\ Len(<<a>>) = 1 /\ Len(<<b>>) = 1 /\ <<a>>[1] = a /\ <<b>>[1] = b
  BY OneChar
<1>2. <<a>> \o s \in Texts /\ (<<a>> \o s)[1] = a
  <2>1. Len(s) \in Nat
    BY LenProperties DEF Texts
  <2>2. 1 \in 1..Len(<<a>>) + Len(s) /\ 1 <= Len(<<a>>)
    BY <1>1, <2>1
  <2> QED
    BY <1>1, <2>2, ConcatProperties DEF Texts
<1>3. <<a>> \o s = <<b>> \o t => <<a>> = <<b>> /\ s = t
  BY <1>1, ConcatEqual DEF Texts
<1> QED
  BY <1>1, <1>2, <1>3

\* Ordered entries: their text tells them.
LEMMA OrderedTells ==
  ASSUME NEW kv \in Seq(Chars \X Layer2), NEW lw \in Seq(Chars \X Layer2)
  PROVE  /\ CanonicalSerializeOrdered(kv) \in Texts
         /\ CanonicalSerializeOrdered(kv) = CanonicalSerializeOrdered(lw) => kv = lw
<1>1. Obj(kv) \in Layer3 /\ Obj(lw) \in Layer3
  BY InLevel DEF Layer3
<1>2. Obj(kv) = Obj(lw) => kv = lw
  BY DEF Obj
<1> QED
  BY <1>1, <1>2, CanonicalTells, CanonicalIsText DEF CanonicalSerializeOrdered

TaggedMessage(m) == MsgTag \o Digits(Len(m)) \o <<"newline">> \o m

LEMMA TaggedTells ==
  ASSUME NEW m \in Texts, NEW k \in Texts
  PROVE  /\ TaggedMessage(m)[1] = "octra-signed-message:v1"
         /\ TaggedMessage(m) = TaggedMessage(k) => m = k
<1> DEFINE tag == <<"octra-signed-message:v1", "newline">>
           line == <<"newline">>
           D(s) == Digits(Len(s))
           A(s) == tag \o D(s)
           B(s) == A(s) \o line
<1>1. tag \in Texts /\ Len(tag) = 2 /\ tag[1] = "octra-signed-message:v1" /\ tag # <<>>
  <2>1. "octra-signed-message:v1" \in Chars /\ "newline" \in Chars
    BY DEF Chars
  <2> HIDE DEF line, D, A, B
  <2>2. \A a, b \in Chars : <<a, b>> \in Texts /\ Len(<<a, b>>) = 2 /\ <<a, b>>[1] = a /\ <<a, b>> # <<>>
    BY DEF Texts
  <2> QED
    BY <2>1, <2>2
<1>2. line \in Texts /\ Len(line) = 1 /\ line[1] = "newline" /\ line # <<>>
  BY OneChar DEF Chars
<1>3. \A s \in Texts : Len(s) \in Nat /\ D(s) \in Texts /\ Len(D(s)) \in Nat
  BY LenProperties, DigitsAreText DEF Texts
<1>4. \A s \in Texts : TaggedMessage(s) = B(s) \o s
  BY DEF TaggedMessage, MsgTag
<1> HIDE DEF tag, line, D
<1>5. \A s \in Texts : A(s) \in Texts
  BY <1>1, <1>3, ConcatProperties DEF Texts
<1>6. \A s \in Texts : Len(A(s)) = 2 + Len(D(s))
  <2>1. \A s \in Texts : Len(A(s)) = Len(tag) + Len(D(s))
    BY <1>1, <1>3, ConcatProperties DEF Texts
  <2> QED
    BY <1>1, <2>1
<1>7. \A s \in Texts : B(s) \in Texts /\ Len(B(s)) = 3 + Len(D(s))
  <2>1. \A s \in Texts : B(s) \in Texts /\ Len(B(s)) = Len(A(s)) + Len(line)
    BY <1>2, <1>5, ConcatProperties DEF Texts
  <2> HIDE DEF A, B
  <2>2. ASSUME NEW s \in Texts PROVE Len(B(s)) = 3 + Len(D(s))
    <3>1. Len(B(s)) = (2 + Len(D(s))) + 1 /\ Len(D(s)) \in Nat
      BY <1>2, <1>3, <1>6, <2>1
    <3> QED
      BY <3>1
  <2> QED
    BY <2>1, <2>2
<1>8. \A s \in Texts : B(s) \o s \in Texts
  BY <1>7, ConcatProperties DEF Texts
\* In a text that is the tagged s:
<1>9. ASSUME NEW s \in Texts, NEW x \in Texts, x = B(s) \o s
      PROVE  /\ x[1] = "octra-signed-message:v1"
             /\ At(x, 2, D(s)) /\ NumberEnds(x, 2 + Len(D(s))) /\ At(x, 3 + Len(D(s)), s) /\ 3 + Len(D(s)) \in Nat
             /\ Len(x) = 3 + Len(D(s)) + Len(s)
  <2>1. At(x, 0, B(s) \o s)
    BY <1>9, AtSelf
  <2>2. At(x, 0, B(s)) /\ At(x, 0 + Len(B(s)), s)
    BY <1>7, <2>1, AtConcat
  <2>3. At(x, 0, A(s)) /\ At(x, 0 + Len(A(s)), line)
    BY <1>2, <1>5, <2>2, AtConcat
  <2>4. At(x, 0, tag) /\ At(x, 0 + Len(tag), D(s))
    BY <1>1, <1>3, <2>3, AtConcat
  <2>5. Len(x) = Len(B(s)) + Len(s)
    BY <1>7, <1>9, ConcatProperties DEF Texts
  <2> HIDE DEF A, B
  <2>6. x[0 + 1] = "octra-signed-message:v1"
    BY <1>1, <2>4, AtFirst
  <2>7. 0 + Len(A(s)) = 2 + Len(D(s)) /\ 0 + Len(B(s)) = 3 + Len(D(s)) /\ 2 + Len(D(s)) \in Nat
        /\ 0 + Len(tag) = 2
    BY <1>1, <1>3, <1>6, <1>7
  <2>8. x[(2 + Len(D(s))) + 1] = "newline"
    BY <1>2, <2>3, <2>7, AtFirst
  <2>9. NumberEnds(x, 2 + Len(D(s)))
    BY <2>8 DEF NumberEnds, Digit
  <2>10. At(x, 2, D(s)) /\ At(x, 3 + Len(D(s)), s) /\ Len(x) = 3 + Len(D(s)) + Len(s)
    <3>1. Len(B(s)) = 3 + Len(D(s))
      BY <1>7
    <3> QED
      BY <2>2, <2>4, <2>5, <2>7, <3>1
  <2>11. 3 + Len(D(s)) \in Nat
    BY <1>3
  <2>12. x[1] = "octra-signed-message:v1"
    <3>1. 0 + 1 = 1
      OBVIOUS
    <3> QED
      BY <2>6, <3>1
  <2> QED
    BY <2>9, <2>10, <2>11, <2>12
<1> HIDE DEF A, B
<1>10. TaggedMessage(m)[1] = "octra-signed-message:v1"
  BY <1>4, <1>8, <1>9
<1>11. ASSUME TaggedMessage(m) = TaggedMessage(k) PROVE m = k
  <2> DEFINE x == TaggedMessage(m)
  <2>1. x = B(m) \o m /\ x = B(k) \o k /\ x \in Texts
    BY <1>4, <1>8, <1>11
  <2> HIDE DEF x
  <2>2. /\ At(x, 2, D(m)) /\ NumberEnds(x, 2 + Len(D(m))) /\ At(x, 3 + Len(D(m)), m)
        /\ Len(x) = 3 + Len(D(m)) + Len(m) /\ 3 + Len(D(m)) \in Nat
    BY <1>9, <2>1
  <2>3. /\ At(x, 2, D(k)) /\ NumberEnds(x, 2 + Len(D(k))) /\ At(x, 3 + Len(D(k)), k)
    BY <1>9, <2>1
  <2>4. Len(m) = Len(k)
    BY <1>3, <2>1, <2>2, <2>3, NumbersTell DEF D
  <2>5. D(m) = D(k)
    BY <2>4 DEF D
  <2> QED
    BY <2>2, <2>3, <2>4, <2>5, AtSame
<1> QED
  BY <1>10, <1>11

-----------------------------------------------------------------------------
(* Transactions.                                                           *)

Transactions ==
  [from : Chars, to : Texts, amount : Texts, nonce : Nat, ou : Texts, op_type : Chars,
   encrypted_data : Texts, message : Texts]

\* The entry of a text that is left out if there is none.
IfAny(name, text) == IF text = <<>> THEN <<>> ELSE << <<name, Str(text)>> >>

Rest(s, t) == IfAny("encrypted_data", s) \o IfAny("message", t)

LEMMA Unstr == \A s, t : Str(s) = Str(t) => s = t
BY DEF Str

LEMMA IfAnyTells ==
  ASSUME NEW s \in Texts, NEW t \in Texts, NEW u \in Texts, NEW v \in Texts,
         Rest(s, t) = Rest(u, v)
  PROVE  s = u /\ t = v
<1> DEFINE S == Chars \X Layer2
           E(x) == IfAny("encrypted_data", x)
           M(x) == IfAny("message", x)
<1>1. \A x \in Texts : /\ E(x) \in Seq(S) /\ Len(E(x)) = (IF x = <<>> THEN 0 ELSE 1)
                       /\ x # <<>> => E(x)[1] = <<"encrypted_data", Str(x)>>
  <2>1. \A x \in Texts : <<"encrypted_data", Str(x)>> \in S
    BY InLevel DEF Layer2, Chars
  <2> HIDE DEF S
  <2> QED
    BY <2>1 DEF IfAny
<1>2. \A x \in Texts : /\ M(x) \in Seq(S) /\ Len(M(x)) = (IF x = <<>> THEN 0 ELSE 1)
                       /\ x # <<>> => M(x)[1] = <<"message", Str(x)>>
  <2>1. \A x \in Texts : <<"message", Str(x)>> \in S
    BY InLevel DEF Layer2, Chars
  <2> HIDE DEF S
  <2> QED
    BY <2>1 DEF IfAny
<1>3. E(s) \o M(t) = E(u) \o M(v)
  BY DEF Rest
<1> HIDE DEF S, E, M
\* Of the two only one has the first entry: its name is another one.
<1>4. ASSUME NEW a \in Texts, NEW b \in Texts, NEW d \in Texts, a # <<>>, E(a) \o M(b) = M(d) PROVE FALSE
  <2>1. Len(E(a)) = 1 /\ Len(M(b)) \in Nat /\ Len(M(d)) = Len(E(a)) + Len(M(b))
    BY <1>1, <1>2, <1>4, ConcatProperties, LenProperties
  <2>2. d # <<>>
    BY <1>2, <2>1
  <2>3. 1 \in 1..Len(E(a)) + Len(M(b)) /\ 1 <= Len(E(a))
    BY <2>1
  <2>4. (E(a) \o M(b))[1] = E(a)[1]
    BY <1>1, <1>2, <2>3, ConcatProperties
  <2>5. E(a)[1] = <<"encrypted_data", Str(a)>> /\ M(d)[1] = <<"message", Str(d)>>
    BY <1>1, <1>2, <1>4, <2>2
  <2> QED
    BY <1>4, <2>4, <2>5
<1>5. \A x \in Texts : E(<<>>) \o M(x) = M(x)
  <2>1. E(<<>>) = <<>>
    BY DEF E, IfAny
  <2> QED
    BY <1>2, <2>1, ConcatEmptySeq
<1>6. s = <<>> <=> u = <<>>
  BY <1>3, <1>4, <1>5
<1>7. E(s) = E(u) /\ M(t) = M(v)
  <2>1. Len(E(s)) = Len(E(u))
    BY <1>1, <1>6
  <2> QED
    BY <1>1, <1>2, <1>3, <2>1, ConcatEqual
<1>8. s = u
  <2>1. s # <<>> => <<"encrypted_data", Str(s)>> = <<"encrypted_data", Str(u)>>
    BY <1>1, <1>6, <1>7
  <2>2. s # <<>> => Str(s) = Str(u)
    BY <2>1
  <2> QED
    BY <1>6, <2>2, Unstr
<1>9. t = v
  <2>1. t = <<>> <=> v = <<>>
    <3>1. /\ t = <<>> => Len(M(t)) = 0
          /\ t # <<>> => Len(M(t)) = 1
          /\ v = <<>> => Len(M(v)) = 0
          /\ v # <<>> => Len(M(v)) = 1
      BY <1>2
    <3>2. Len(M(t)) = Len(M(v))
      BY <1>7
    <3> QED
      BY <3>1, <3>2
  <2>2. t # <<>> => <<"message", Str(t)>> = <<"message", Str(v)>>
    BY <1>2, <1>7, <2>1
  <2>3. t # <<>> => Str(t) = Str(v)
    BY <2>2
  <2> QED
    BY <2>1, <2>3, Unstr
<1> QED
  BY <1>8, <1>9

\* The fields that every transaction has, in the node's order.
Fixed(tx) ==
  << <<"from", Str(<<tx.from>>)>>, <<"to_", Str(tx.to)>>, <<"amount", Str(tx.amount)>>,
     <<"nonce", Num(tx.nonce)>>, <<"ou", Str(tx.ou)>>, <<"timestamp", CanonicalFloat(NowTs)>>,
     <<"op_type", Str(<<tx.op_type>>)>> >>

LEMMA FixedTells ==
  ASSUME NEW t \in Transactions, NEW u \in Transactions
  PROVE  /\ Fixed(t) \in Seq(Chars \X Layer2) /\ Len(Fixed(t)) = 7
         /\ Fixed(t) = Fixed(u) =>
              /\ t.from = u.from /\ t.to = u.to /\ t.amount = u.amount /\ t.nonce = u.nonce
              /\ t.ou = u.ou /\ t.op_type = u.op_type
<1> DEFINE S == Chars \X Layer2
<1>1. /\ t.from \in Chars /\ t.to \in Texts /\ t.amount \in Texts /\ t.nonce \in Nat /\ t.ou \in Texts
      /\ t.op_type \in Chars
  BY DEF Transactions
<1>2. <<t.from>> \in Texts /\ <<t.op_type>> \in Texts /\ NowTs \in Nat
  BY <1>1, OneChar DEF NowTs
<1>3. {"from", "to_", "amount", "nonce", "ou", "timestamp", "op_type"} \subseteq Chars
  BY DEF Chars
<1>4. /\ Str(<<t.from>>) \in Layer2 /\ Str(t.to) \in Layer2 /\ Str(t.amount) \in Layer2 /\ Num(t.nonce) \in Layer2
      /\ Str(t.ou) \in Layer2 /\ CanonicalFloat(NowTs) \in Layer2 /\ Str(<<t.op_type>>) \in Layer2
  BY <1>1, <1>2, InLevel DEF Layer2
<1>5. /\ <<"from", Str(<<t.from>>)>> \in S /\ <<"to_", Str(t.to)>> \in S /\ <<"amount", Str(t.amount)>> \in S
      /\ <<"nonce", Num(t.nonce)>> \in S /\ <<"ou", Str(t.ou)>> \in S
      /\ <<"timestamp", CanonicalFloat(NowTs)>> \in S /\ <<"op_type", Str(<<t.op_type>>)>> \in S
  BY <1>3, <1>4
<1> HIDE DEF S
<1>6. Fixed(t) \in Seq(S) /\ Len(Fixed(t)) = 7
  BY <1>5 DEF Fixed
<1>7. ASSUME Fixed(t) = Fixed(u)
      PROVE  /\ t.from = u.from /\ t.to = u.to /\ t.amount = u.amount /\ t.nonce = u.nonce
             /\ t.ou = u.ou /\ t.op_type = u.op_type
  <2>1. /\ <<"from", Str(<<t.from>>)>> = <<"from", Str(<<u.from>>)>>
        /\ <<"to_", Str(t.to)>> = <<"to_", Str(u.to)>>
        /\ <<"amount", Str(t.amount)>> = <<"amount", Str(u.amount)>>
        /\ <<"nonce", Num(t.nonce)>> = <<"nonce", Num(u.nonce)>>
        /\ <<"ou", Str(t.ou)>> = <<"ou", Str(u.ou)>>
        /\ <<"op_type", Str(<<t.op_type>>)>> = <<"op_type", Str(<<u.op_type>>)>>
    BY <1>7 DEF Fixed
  <2>2. /\ Str(<<t.from>>) = Str(<<u.from>>) /\ Str(t.to) = Str(u.to) /\ Str(t.amount) = Str(u.amount)
        /\ Num(t.nonce) = Num(u.nonce) /\ Str(t.ou) = Str(u.ou) /\ Str(<<t.op_type>>) = Str(<<u.op_type>>)
    BY <2>1
  <2>3. <<t.from>> = <<u.from>> /\ <<t.op_type>> = <<u.op_type>> /\ t.to = u.to /\ t.amount = u.amount /\ t.ou = u.ou
    BY <2>2, Unstr
  <2>4. t.nonce = u.nonce
    BY <2>2 DEF Num
  <2> QED
    BY <2>3, <2>4
<1> QED
  BY <1>6, <1>7 DEF S

\* The text of a transaction tells all of its fields.
LEMMA TransactionTells ==
  ASSUME NEW t \in Transactions, NEW u \in Transactions
  PROVE  CanonicalJsonForTx(t) = CanonicalJsonForTx(u) => t = u
<1> DEFINE S == Chars \X Layer2
           F(x) == Fixed(x)
           E(x) == IfAny("encrypted_data", x.encrypted_data)
           M(x) == IfAny("message", x.message)
<1>1. \A x : CanonicalJsonForTx(x) = CanonicalSerializeOrdered((F(x) \o E(x)) \o M(x))
  BY DEF CanonicalJsonForTx, Fixed, IfAny
<1>2. \A x \in Transactions : F(x) \in Seq(S) /\ Len(F(x)) = 7
  BY FixedTells
<1>3. \A x \in Transactions : E(x) \in Seq(S) /\ M(x) \in Seq(S)
  <2>1. \A s \in Texts : <<"encrypted_data", Str(s)>> \in S /\ <<"message", Str(s)>> \in S
    BY InLevel DEF Layer2, Chars
  <2>2. \A x \in Transactions : x.encrypted_data \in Texts /\ x.message \in Texts
    BY DEF Transactions
  <2> HIDE DEF S
  <2>3. \A s \in Texts : IfAny("encrypted_data", s) \in Seq(S) /\ IfAny("message", s) \in Seq(S)
    BY <2>1 DEF IfAny
  <2> QED
    BY <2>2, <2>3
<1> HIDE DEF S, F, E, M
<1>4. \A x \in Transactions : /\ F(x) \o E(x) \in Seq(S) /\ (F(x) \o E(x)) \o M(x) \in Seq(S)
                              /\ E(x) \o M(x) \in Seq(S)
                              /\ (F(x) \o E(x)) \o M(x) = F(x) \o (E(x) \o M(x))
  <2> SUFFICES ASSUME NEW x \in Transactions
               PROVE  /\ F(x) \o E(x) \in Seq(S) /\ (F(x) \o E(x)) \o M(x) \in Seq(S)
                      /\ E(x) \o M(x) \in Seq(S)
                      /\ (F(x) \o E(x)) \o M(x) = F(x) \o (E(x) \o M(x))
    OBVIOUS
  <2>1. F(x) \in Seq(S) /\ E(x) \in Seq(S) /\ M(x) \in Seq(S)
    BY <1>2, <1>3
  <2>2. F(x) \o E(x) \in Seq(S) /\ E(x) \o M(x) \in Seq(S)
    BY <2>1, ConcatProperties
  <2> QED
    BY <2>1, <2>2, ConcatProperties, ConcatAssociative
<1>5. ASSUME CanonicalJsonForTx(t) = CanonicalJsonForTx(u) PROVE t = u
  <2>1. (F(t) \o E(t)) \o M(t) = (F(u) \o E(u)) \o M(u)
    BY <1>1, <1>4, <1>5, OrderedTells DEF S
  <2>2. F(t) \o (E(t) \o M(t)) = F(u) \o (E(u) \o M(u))
    BY <1>4, <2>1
  <2>3. F(t) = F(u) /\ E(t) \o M(t) = E(u) \o M(u)
    <3> DEFINE R(x) == E(x) \o M(x)
    <3>1. \A x \in Transactions : R(x) \in Seq(S)
      BY <1>4
    <3>2. F(t) \o R(t) = F(u) \o R(u)
      BY <2>2
    <3> HIDE DEF R
    <3>3. F(t) \in Seq(S) /\ F(u) \in Seq(S) /\ R(t) \in Seq(S) /\ R(u) \in Seq(S) /\ Len(F(t)) = Len(F(u))
      BY <1>2, <3>1
    <3>4. F(t) = F(u) /\ R(t) = R(u)
      BY <3>2, <3>3, ConcatEqual
    <3> QED
      BY <3>4 DEF R
  <2>4. /\ t.encrypted_data \in Texts /\ t.message \in Texts /\ u.encrypted_data \in Texts /\ u.message \in Texts
    BY DEF Transactions
  <2>5. t.encrypted_data = u.encrypted_data /\ t.message = u.message
    <3>1. Rest(t.encrypted_data, t.message) = Rest(u.encrypted_data, u.message)
      BY <2>3 DEF E, M, Rest
    <3> QED
      BY <2>4, <3>1, IfAnyTells
  <2>6. /\ t.from = u.from /\ t.to = u.to /\ t.amount = u.amount /\ t.nonce = u.nonce
        /\ t.ou = u.ou /\ t.op_type = u.op_type
    BY <2>3, FixedTells DEF F
  <2> QED
    BY <2>5, <2>6 DEF Transactions
<1> QED
  BY <1>5

\* What is before the point of a text, and after it.
LEMMA WholeAndFraction ==
  ASSUME NEW s \in Seq(STRING)
  PROVE  WholePart(s) \in Seq(STRING) /\ Fraction(s) \in Seq(STRING) /\ (~HasPoint(s) => Fraction(s) = <<>>)
<1>1. Len(s) \in Nat /\ DOMAIN s = 1..Len(s)
  BY LenProperties
<1>2. WholePart(s) \in Seq(STRING)
  <2>1. CASE HasPoint(s)
    <3> DEFINE P == {i \in DOMAIN s : s[i] = "."}
    <3>1. P # {} /\ P \in SUBSET Nat
      BY <1>1, <2>1 DEF HasPoint, ToSet
    <3> HIDE DEF P
    <3>2. PICK i \in P : \A j \in P : i <= j
      BY <3>1, LeastNat
    <3>3. i \in DOMAIN s /\ s[i] = "." /\ \A j \in 1..i-1 : s[j] # "."
      BY <1>1, <3>2 DEF P
    <3> DEFINE c == CHOOSE k \in DOMAIN s : s[k] = "." /\ \A j \in 1..k-1 : s[j] # "."
    <3>4. c \in DOMAIN s
      BY <3>3
    <3>5. WholePart(s) = SubSeq(s, 1, c - 1)
      BY <2>1 DEF WholePart
    <3> HIDE DEF c
    <3>6. \A k \in 1..c - 1 : k \in 1..Len(s)
      BY <1>1, <3>4
    <3> QED
      BY <1>1, <3>4, <3>5, <3>6, SubSeqProperties
  <2>2. CASE ~HasPoint(s)
    BY <2>2 DEF WholePart
  <2> QED
    BY <2>1, <2>2
<1>3. Fraction(s) \in Seq(STRING) /\ (~HasPoint(s) => Fraction(s) = <<>>)
  <2> DEFINE m == Len(WholePart(s)) + 2
             n == Len(s)
  <2>1. Fraction(s) = SubSeq(s, m, n) /\ m \in Nat /\ m >= 1 /\ n \in Nat
    BY <1>1, <1>2, LenProperties DEF Fraction
  <2>2. ~HasPoint(s) => n < m
    BY <1>1 DEF WholePart
  <2> HIDE DEF m, n
  <2>3. \A i \in m..n : i \in 1..n
    BY <2>1
  <2>4. \A i \in m..n : s[i] \in STRING
    BY <1>1, <2>3 DEF n
  <2> QED
    BY <2>1, <2>2, <2>4, SubSeqProperties, SubSeqEmpty
<1> QED
  BY <1>2, <1>3

LEMMA SeqOfDigits ==
  ASSUME NEW S, NEW s \in Seq(S), IsDigits(s)
  PROVE  s \in Seq(Digit)
<1>1. Len(s) \in Nat /\ DOMAIN s = 1..Len(s) /\ s \in [1..Len(s) -> S]
  BY LenProperties
<1>2. \A i \in 1..Len(s) : s[i] \in Digit
  BY <1>1 DEF IsDigits, ToSet
<1>3. s \in [1..Len(s) -> Digit]
  BY <1>1, <1>2
<1> QED
  BY <1>1, <1>3, SeqDef

LEMMA ParsedIsNat ==
  ASSUME NEW s \in Seq(STRING), ParseAmountRaw(s) # Invalid
  PROVE  ParseAmountRaw(s) \in Nat
<1> DEFINE whole == WholePart(s)
           frac == Fraction(s)
           padded == PadEnd(frac, OctDecimals)
           cut == SubSeq(padded, 1, OctDecimals)
<1>1. IsDigits(whole) /\ (HasPoint(s) => IsDigits(frac)) /\ ParseAmountRaw(s) = Numeral(whole \o cut)
  BY DEF ParseAmountRaw
<1>2. whole \in Seq(Digit)
  BY <1>1, WholeAndFraction, SeqOfDigits
<1>3. frac \in Seq(Digit)
  BY <1>1, WholeAndFraction, SeqOfDigits
<1>4. OctDecimals \in Nat /\ OctDecimals >= 1
  BY AmountsAssumption
<1> HIDE DEF whole, frac
<1>5. padded \in Seq(Digit) /\ Len(padded) \in Nat /\ Len(padded) >= OctDecimals
  <2>1. Len(frac) \in Nat
    BY <1>3, LenProperties
  <2>2. CASE Len(frac) < OctDecimals
    <3> DEFINE k == OctDecimals - Len(frac)
    <3>1. k \in Nat /\ padded = frac \o Zeros(k)
      BY <1>4, <2>1, <2>2 DEF PadEnd
    <3> HIDE DEF k
    <3>2. Zeros(k) \in Seq(Digit) /\ Len(Zeros(k)) = k
      BY <3>1, ZerosAre
    <3>3. padded \in Seq(Digit) /\ Len(padded) = Len(frac) + Len(Zeros(k))
      BY <1>3, <3>1, <3>2, ConcatProperties
    <3> QED
      BY <1>4, <2>1, <2>2, <3>2, <3>3 DEF k
  <2>3. CASE ~(Len(frac) < OctDecimals)
    BY <1>3, <1>4, <2>1, <2>3 DEF PadEnd
  <2> QED
    BY <2>2, <2>3
<1> HIDE DEF padded
<1>6. cut \in Seq(Digit)
  <2>1. \A i \in 1..OctDecimals : i \in 1..Len(padded)
    BY <1>4, <1>5
  <2>2. \A i \in 1..OctDecimals : padded[i] \in Digit
    BY <1>5, <2>1, LenProperties
  <2> QED
    BY <1>4, <2>2, SubSeqProperties
<1>7. whole \o cut \in Seq(Digit)
  BY <1>2, <1>6, ConcatProperties
<1> QED
  BY <1>1, <1>7, NumeralIsNat

\* The transaction of a request that is let through.
LEMMA TransactionIs ==
  ASSUME NEW req \in AllowedRequests, IsTx(req), NEW n \in 1..2
  PROVE  TxOfRequest(req, PromptOf(req, n)) \in Transactions
<1> DEFINE p == req.params
           prompt == PromptOf(req, n)
<1>1. req \in SignRequests /\ CanBeSigned(req) /\ ParamsTyped(req.kind, p) /\ Signer \in STRING
  BY SigningAssumption DEF AllowedRequests
<1>2. Text \subseteq Texts /\ STRING \subseteq Chars /\ \A k \in Nat : Digits(k) \in Texts
  BY SeqMonotonic, DigitsAreText DEF Text, Texts, Chars
<1>3. \A op, a : a \in Nat => DefaultOu(op, a) \in Texts
  BY <1>2 DEF DefaultOu
<1>4. prompt.nonce = n
  BY DEF PromptOf
<1>5. CASE req.kind = "signTransfer"
  <2>1. /\ p.to \in STRING /\ TextFields(p, {"amount", "amountRaw", "ou", "message"})
        /\ TransferCanBeSigned(p)
    BY <1>1, <1>5 DEF ParamsTyped, CanBeSigned
  <2>2. /\ "amount" \in DOMAIN p => p.amount \in Text
        /\ "amountRaw" \in DOMAIN p => p.amountRaw \in Text
        /\ "ou" \in DOMAIN p => p.ou \in Text
        /\ "message" \in DOMAIN p => p.message \in Text
    BY <2>1 DEF TextFields, Optional
  <2>3. ResolveAmountRaw(p) \in Texts
    <3>1. CASE "amountRaw" \in DOMAIN p
      <4>1. p.amountRaw \in Texts
        BY <1>2, <2>2, <3>1
      <4> HIDE DEF p
      <4>2. ResolveAmountRaw(p) = p.amountRaw
        BY <3>1 DEF ResolveAmountRaw
      <4> QED
        BY <4>1, <4>2
    <3>2. CASE "amountRaw" \notin DOMAIN p /\ "amount" \in DOMAIN p /\ ParseAmountRaw(p.amount) # Invalid
      <4>1. ParseAmountRaw(p.amount) \in Nat
        BY <2>2, <3>2, ParsedIsNat DEF Text
      <4>2. ResolveAmountRaw(p) = Digits(ParseAmountRaw(p.amount))
        BY <3>2 DEF ResolveAmountRaw
      <4> QED
        BY <1>2, <4>1, <4>2
    <3>3. CASE "amountRaw" \notin DOMAIN p /\ ~("amount" \in DOMAIN p /\ ParseAmountRaw(p.amount) # Invalid)
      BY <3>3 DEF ResolveAmountRaw, Texts
    <3> QED
      BY <3>1, <3>2, <3>3
  <2>4. Numeral(ResolveAmountRaw(p)) \in Nat
    <3>1. IsDigits(ResolveAmountRaw(p))
      BY <2>1 DEF TransferCanBeSigned
    <3> QED
      BY <2>3, <3>1, SeqOfDigits, NumeralIsNat DEF Texts
  <2>5. /\ prompt.preview.to = <<p.to>> /\ prompt.preview.amountRaw = ResolveAmountRaw(p)
        /\ prompt.preview.ou = Given(p, "ou", DefaultOu("standard", Numeral(ResolveAmountRaw(p))))
    BY <1>5 DEF PromptOf, PreviewTransfer
  <2>6. prompt.preview.to \in Texts /\ prompt.preview.ou \in Texts /\ prompt.preview.amountRaw \in Texts
    <3>1. <<p.to>> \in Texts
      BY <1>2, <2>1, OneChar
    <3>2. DefaultOu("standard", Numeral(ResolveAmountRaw(p))) \in Texts
      BY <1>3, <2>4
    <3>3. Given(p, "ou", DefaultOu("standard", Numeral(ResolveAmountRaw(p)))) \in Texts
      BY <1>2, <2>2, <3>2 DEF Given
    <3> QED
      BY <2>3, <2>5, <3>1, <3>3
  <2>7. Given(p, "message", <<>>) \in Texts /\ <<>> \in Texts
    BY <1>2, <2>2 DEF Given, Texts
  <2>8. TxOfRequest(req, prompt) = NativeTransferTx(p, prompt.preview, n)
    BY <1>4, <1>5 DEF TxOfRequest
  <2> DEFINE preview == prompt.preview
  <2> HIDE DEF prompt, p, preview
  <2>9. "standard" \in Chars /\ Signer \in Chars
    BY <1>1, <1>2 DEF Chars
  <2>10. preview.to \in Texts /\ preview.ou \in Texts /\ preview.amountRaw \in Texts
    BY <2>6 DEF preview
  <2>11. NativeTransferTx(p, preview, n) \in Transactions
    BY <2>7, <2>9, <2>10 DEF NativeTransferTx, Transactions
  <2> QED
    BY <2>8, <2>11 DEF preview, prompt
<1>6. CASE req.kind = "signContract"
  <2>1. /\ {"program", "method"} \subseteq DOMAIN p
        /\ TextFields(p, {"program", "method", "spender", "limit", "amount", "ou"})
        /\ Optional(p, "args", Seq(SiteValues)) /\ Optional(p, "opType", STRING)
    BY <1>1, <1>6 DEF ParamsTyped
  <2>2. /\ p.program \in Texts /\ p.method \in Texts
        /\ "amount" \in DOMAIN p => p.amount \in Texts
        /\ "ou" \in DOMAIN p => p.ou \in Texts
    BY <1>2, <2>1 DEF TextFields, Optional
  <2> DEFINE op == Given(p, "opType", "program_call")
             args == EncodeCallArgs(Given(p, "args", <<>>))
  <2>3. op \in Chars
    BY <1>2, <2>1 DEF Given, Optional, Chars
  <2>4. args \in Texts
    <3>1. Given(p, "args", <<>>) \in Seq(SiteValues)
      BY <2>1 DEF Given, Optional
    <3> DEFINE given == Given(p, "args", <<>>)
               out == [i \in DOMAIN given |-> EncodeArg(given[i])]
    <3>2. out \in Seq(Layer2)
      <4>1. Len(given) \in Nat /\ DOMAIN given = 1..Len(given) /\ \A i \in 1..Len(given) : given[i] \in SiteValues
        BY <3>1, LenProperties
      <4>2. out \in [1..Len(given) -> Layer2]
        BY <4>1, EncodedIs
      <4> QED
        BY <4>1, <4>2, SeqDef
    <3>3. args = CanonicalSerialize(Arr(out))
      BY DEF EncodeCallArgs
    <3> HIDE DEF out
    <3>4. Arr(out) \in Layer3
      BY <3>2, InLevel DEF Layer3
    <3> QED
      BY <3>3, <3>4, CanonicalIsText
  <2>5. <<"0">> \in Texts /\ <<>> \in Texts
    <3>1. "0" \in Chars
      BY DEF Chars, Digit
    <3> QED
      BY <3>1, OneChar DEF Texts
  <2>6. Given(p, "amount", <<"0">>) \in Texts /\ Given(p, "ou", DefaultOu(op, 0)) \in Texts
    BY <1>3, <2>2, <2>5 DEF Given
  <2> DEFINE whole == <<"{program:">> \o EscapeString(p.program) \o <<",method:">> \o EscapeString(p.method)
                        \o <<",args:">> \o args \o <<"}">>
  <2>7. whole \in Texts
    <3> DEFINE e1 == EscapeString(p.program)
               e2 == EscapeString(p.method)
    <3>1. e1 \in Seq(Chars) /\ e2 \in Seq(Chars) /\ args \in Seq(Chars)
      BY <2>2, <2>4, EscapeIsText DEF MessageWords, Texts
    <3>2. <<"{program:">> \in Seq(Chars) /\ <<",method:">> \in Seq(Chars) /\ <<",args:">> \in Seq(Chars) /\ <<"}">> \in Seq(Chars)
      BY OneChar DEF Texts, Chars
    <3> HIDE DEF e1, e2, args
    <3>3. \A s, t \in Seq(Chars) : s \o t \in Seq(Chars)
      BY ConcatProperties
    <3>4. <<"{program:">> \o e1 \o <<",method:">> \o e2 \o <<",args:">> \o args \o <<"}">> \in Seq(Chars)
      BY <3>1, <3>2, <3>3
    <3> QED
      BY <3>4 DEF Texts, e1, e2
  <2>8. TxOfRequest(req, prompt) = ContractCallTx(p, n)
    BY <1>4, <1>6 DEF TxOfRequest
  <2>9. ContractCallTx(p, n) =
          [from |-> Signer, to |-> p.program, amount |-> Given(p, "amount", <<"0">>), nonce |-> n,
           ou |-> Given(p, "ou", DefaultOu(op, 0)), op_type |-> op,
           encrypted_data |-> IF op = "call" THEN p.method ELSE whole,
           message |-> IF op = "call" THEN args ELSE <<>>]
    BY DEF ContractCallTx
  <2> HIDE DEF whole, args, op
  <2>10. Signer \in Chars
    BY <1>1, <1>2
  <2> QED
    BY <2>2, <2>3, <2>4, <2>5, <2>6, <2>7, <2>8, <2>9, <2>10 DEF Transactions
<1> QED
  BY <1>5, <1>6 DEF IsTx

-----------------------------------------------------------------------------
(* Typed data.                                                             *)

LEMMA LastOne ==
  ASSUME NEW n \in Nat, NEW I \in SUBSET (1..n), I # {}
  PROVE  \E i \in I : \A j \in i + 1..n : j \notin I
<1> DEFINE D == {d \in Nat : n - d \in I}
<1>1. PICK a \in I : TRUE
  OBVIOUS
<1>2. n - a \in D
  <2>1. a \in 1..n
    OBVIOUS
  <2>2. n - a \in Nat /\ n - (n - a) = a
    BY <2>1
  <2> QED
    BY <2>2
<1>3. D \in SUBSET Nat /\ D # {}
  BY <1>2
<1>4. PICK d \in D : \A e \in D : d <= e
  BY <1>3, LeastNat
<1> DEFINE i == n - d
<1>5. i \in I /\ i \in 1..n /\ d \in Nat
  BY <1>4
<1>6. ASSUME NEW j \in i + 1..n, j \in I PROVE FALSE
  <2>1. n - j \in Nat /\ n - (n - j) = j /\ n - j < d
    BY <1>5
  <2>2. n - j \in D
    BY <1>6, <2>1
  <2> QED
    BY <1>4, <1>5, <2>1, <2>2
<1> QED
  BY <1>5, <1>6

LEMMA InToSet ==
  ASSUME NEW S, NEW s \in Seq(S)
  PROVE  /\ \A i \in 1..Len(s) : s[i] \in ToSet(s) /\ s[i] \in S
         /\ \A k \in ToSet(s) : \E i \in 1..Len(s) : s[i] = k
         /\ DOMAIN s = 1..Len(s) /\ Len(s) \in Nat
BY LenProperties DEF ToSet

\* What stands in a filtered sequence.
LEMMA InFiltered ==
  ASSUME NEW S, NEW s \in Seq(S), NEW I \in SUBSET (1..Len(s))
  PROVE  /\ Filtered(s, I) \in Seq(S)
         /\ ToSet(Filtered(s, I)) = {s[i] : i \in I}
<1> DEFINE t == Filtered(s, I)
           c == Cardinality(I)
<1>1. /\ c \in Nat /\ t \in Seq(S) /\ Len(t) = c
      /\ \A k \in 1..c : Nth(I, k) \in I /\ t[k] = s[Nth(I, k)]
      /\ \A i \in I : \E k \in 1..c : Nth(I, k) = i
  BY FilteredIs
<1> HIDE DEF t, c
<1>2. DOMAIN t = 1..c
  BY <1>1, LenProperties
<1>3. \A x \in ToSet(t) : x \in {s[i] : i \in I}
  <2> TAKE x \in ToSet(t)
  <2>1. PICK k \in 1..c : t[k] = x
    BY <1>2 DEF ToSet
  <2> QED
    BY <1>1, <2>1
<1>4. \A i \in I : s[i] \in ToSet(t)
  <2> TAKE i \in I
  <2>1. PICK k \in 1..c : Nth(I, k) = i
    BY <1>1
  <2>2. t[k] = s[i]
    BY <1>1, <2>1
  <2> QED
    BY <1>2, <2>2 DEF ToSet
<1> QED
  BY <1>1, <1>3, <1>4 DEF t

\* An object that has each of those names with its value.
IsObjectOf(o, V, ty, g) ==
  \E out \in Seq(STRING \X V) : o = Obj(out) /\ ToSet(out) = {<<k, g[k]>> : k \in ToSet(ty)}

\* Of entries whose value depends on their name, the object has each name with its value.
LEMMA PlainObjectIs ==
  ASSUME NEW V, NEW ty \in Seq(STRING), NEW g \in [ToSet(ty) -> V], NEW kv,
         kv = [i \in DOMAIN ty |-> <<ty[i], g[ty[i]]>>]
  PROVE  IsObjectOf(PlainObject(kv), V, ty, g)
<1> DEFINE L == Len(ty)
           names == [i \in DOMAIN kv |-> kv[i][1]]
           I1 == {i \in DOMAIN kv : \A j \in 1..i-1 : names[j] # names[i]}
           once == Filtered(names, I1)
           I2 == {i \in DOMAIN IntegerKeys : IntegerKeys[i] \in ToSet(names)}
           first == Filtered(IntegerKeys, I2)
           I3 == {i \in DOMAIN once : once[i] \notin ToSet(IntegerKeys)}
           second == Filtered(once, I3)
           order == first \o second
           last(k) == CHOOSE i \in DOMAIN kv : names[i] = k /\ \A j \in i+1..Len(kv) : names[j] # k
           value(k) == kv[last(k)][2]
           out == [i \in DOMAIN order |-> <<order[i], value(order[i])>>]
<1>1. PlainObject(kv) = Obj(out)
  BY DEF PlainObject
<1>2. L \in Nat /\ DOMAIN ty = 1..L /\ DOMAIN kv = 1..L
      /\ \A i \in 1..L : ty[i] \in STRING /\ ty[i] \in ToSet(ty)
  BY InToSet
<1>3. \A i \in 1..L : kv[i] = <<ty[i], g[ty[i]]>> /\ kv[i][1] = ty[i] /\ kv[i][2] = g[ty[i]]
  BY <1>2
<1>4. names = ty
  <2>1. names = [i \in 1..L |-> ty[i]]
    BY <1>2, <1>3
  <2>2. ty = [i \in 1..L |-> ty[i]]
    BY <1>2
  <2> QED
    BY <2>1, <2>2
<1>5. kv \in Seq(STRING \X V) /\ Len(kv) = L
  <2>1. \A k \in ToSet(ty) : g[k] \in V
    OBVIOUS
  <2>2. kv \in [1..L -> STRING \X V]
    BY <1>2, <1>3, <2>1
  <2>3. kv \in Seq(STRING \X V)
    BY <1>2, <2>2, SeqDef
  <2> QED
    BY <1>2, <2>3, LenProperties
<1> HIDE DEF names, last
\* The value of a name.
<1>6. ASSUME NEW k \in ToSet(ty) PROVE value(k) = g[k]
  <2> DEFINE I == {i \in 1..L : ty[i] = k}
  <2>1. I # {} /\ I \in SUBSET (1..L)
    BY <1>6, InToSet
  <2>2. PICK i \in I : \A j \in i + 1..L : j \notin I
    BY <1>2, <2>1, LastOne
  <2>3. \A j \in i + 1..L : j \in 1..L
    BY <1>2, <2>2
  <2>4. i \in DOMAIN kv /\ names[i] = k /\ \A j \in i+1..Len(kv) : names[j] # k
    BY <1>2, <1>4, <1>5, <2>2, <2>3
  <2>5. last(k) \in DOMAIN kv /\ names[last(k)] = k
    BY <2>4 DEF last
  <2> QED
    BY <1>2, <1>3, <1>4, <2>5
<1> HIDE DEF value
\* The names of the object.
<1>7. once \in Seq(STRING) /\ ToSet(once) = {ty[i] : i \in I1}
  <2>1. I1 \in SUBSET (1..L)
    BY <1>2
  <2> HIDE DEF I1
  <2> QED
    BY <1>4, <2>1, InFiltered
<1>8. first \in Seq(STRING) /\ ToSet(first) = {IntegerKeys[i] : i \in I2}
  <2>1. IntegerKeys \in Seq(STRING)
    BY SigningAssumption
  <2>2. I2 \in SUBSET (1..Len(IntegerKeys))
    BY <2>1, LenProperties
  <2> HIDE DEF I2
  <2> QED
    BY <2>1, <2>2, InFiltered
<1> HIDE DEF once
<1>9. second \in Seq(STRING) /\ ToSet(second) = {once[i] : i \in I3}
  <2>1. I3 \in SUBSET (1..Len(once))
    BY <1>7, LenProperties
  <2> HIDE DEF I3
  <2> QED
    BY <1>7, <2>1, InFiltered
<1> HIDE DEF first, second
<1>10. ToSet(first) \subseteq ToSet(ty) /\ ToSet(second) \subseteq ToSet(ty)
  <2>1. ToSet(first) \subseteq ToSet(ty)
    BY <1>4, <1>8
  <2>2. ToSet(once) \subseteq ToSet(ty)
    BY <1>2, <1>7
  <2>3. \A i \in I3 : once[i] \in ToSet(once)
    BY DEF ToSet
  <2> QED
    BY <1>9, <2>1, <2>2, <2>3
<1>11. ToSet(ty) \subseteq ToSet(first) \cup ToSet(second)
  <2> SUFFICES ASSUME NEW k \in ToSet(ty) PROVE k \in ToSet(first) \cup ToSet(second)
    OBVIOUS
  <2>1. CASE k \in ToSet(IntegerKeys)
    <3>1. PICK i \in DOMAIN IntegerKeys : IntegerKeys[i] = k
      BY <2>1 DEF ToSet
    <3>2. i \in I2
      BY <1>4, <3>1
    <3> QED
      BY <1>8, <3>1, <3>2
  <2>2. CASE k \notin ToSet(IntegerKeys)
    <3> DEFINE I == {i \in 1..L : ty[i] = k}
    <3>1. I # {} /\ I \in SUBSET Nat
      <4>1. PICK i \in 1..L : ty[i] = k
        BY InToSet
      <4> QED
        BY <4>1
    <3>2. PICK i \in I : \A j \in I : i <= j
      BY <3>1, LeastNat
    <3>3. \A j \in 1..i-1 : j \in 1..L /\ j < i
      BY <1>2, <3>2
    <3>4. i \in I1
      BY <1>2, <1>4, <3>2, <3>3
    <3>5. k \in ToSet(once)
      BY <1>7, <3>2, <3>4
    <3>6. PICK m \in DOMAIN once : once[m] = k
      BY <3>5 DEF ToSet
    <3>7. m \in I3
      BY <2>2, <3>6
    <3> QED
      BY <1>9, <3>6, <3>7
  <2> QED
    BY <2>1, <2>2
<1> HIDE DEF I1, I2, I3
<1>12. order \in Seq(STRING) /\ ToSet(order) = ToSet(ty)
  <2>1. order \in Seq(STRING) /\ Len(order) = Len(first) + Len(second)
    BY <1>8, <1>9, ConcatProperties
  <2>2. Len(first) \in Nat /\ Len(second) \in Nat
    BY <1>8, <1>9, LenProperties
  <2>3. ASSUME NEW i \in 1..Len(order) PROVE order[i] \in ToSet(ty)
    <3>1. CASE i <= Len(first)
      <4>1. order[i] = first[i] /\ i \in 1..Len(first)
        BY <1>8, <1>9, <2>1, <2>2, <2>3, <3>1, ConcatProperties
      <4> QED
        BY <1>8, <1>10, <4>1, InToSet
    <3>2. CASE ~(i <= Len(first))
      <4>1. order[i] = second[i - Len(first)]
        BY <1>8, <1>9, <2>1, <2>2, <2>3, <3>2, ConcatProperties
      <4>2. i - Len(first) \in 1..Len(second)
        BY <2>1, <2>2, <2>3, <3>2
      <4> QED
        BY <1>9, <1>10, <4>1, <4>2, InToSet
    <3> QED
      BY <3>1, <3>2
  <2>4. ASSUME NEW k \in ToSet(first) PROVE k \in ToSet(order)
    <3>1. PICK i \in 1..Len(first) : first[i] = k
      BY <1>8, InToSet
    <3>2. i \in 1..Len(first) + Len(second) /\ i <= Len(first) /\ i \in 1..Len(order)
      BY <2>1, <2>2, <3>1
    <3>3. order[i] = k
      BY <1>8, <1>9, <3>1, <3>2, ConcatProperties
    <3> QED
      BY <2>1, <3>2, <3>3, InToSet
  <2>5. ASSUME NEW k \in ToSet(second) PROVE k \in ToSet(order)
    <3>1. PICK i \in 1..Len(second) : second[i] = k
      BY <1>9, InToSet
    <3> DEFINE m == Len(first) + i
    <3>2. m \in 1..Len(first) + Len(second) /\ ~(m <= Len(first)) /\ m \in 1..Len(order) /\ m - Len(first) = i
      BY <2>1, <2>2, <3>1
    <3> HIDE DEF m
    <3>3. order[m] = second[m - Len(first)]
      BY <1>8, <1>9, <3>2, ConcatProperties
    <3>4. order[m] = k
      BY <3>1, <3>2, <3>3
    <3> QED
      BY <2>1, <3>2, <3>4, InToSet
  <2> HIDE DEF order
  <2>6. ToSet(order) \subseteq ToSet(ty)
    BY <2>1, <2>3, InToSet
  <2> QED
    BY <1>11, <2>1, <2>4, <2>5, <2>6
<1> HIDE DEF order
<1>13. DOMAIN order = 1..Len(order) /\ Len(order) \in Nat
       /\ \A i \in 1..Len(order) : order[i] \in ToSet(ty) /\ order[i] \in STRING
  BY <1>12, InToSet
<1>14. \A i \in 1..Len(order) : out[i] = <<order[i], g[order[i]]>> /\ out[i] \in STRING \X V
  BY <1>6, <1>13
<1>15. out \in Seq(STRING \X V) /\ DOMAIN out = 1..Len(order)
  <2>1. out \in [1..Len(order) -> STRING \X V]
    BY <1>13, <1>14
  <2> QED
    BY <1>13, <2>1, SeqDef
<1> HIDE DEF out
<1>16. ToSet(out) = {<<k, g[k]>> : k \in ToSet(ty)}
  <2>1. \A x \in ToSet(out) : x \in {<<k, g[k]>> : k \in ToSet(ty)}
    BY <1>13, <1>14, <1>15 DEF ToSet
  <2>2. ASSUME NEW k \in ToSet(ty) PROVE <<k, g[k]>> \in ToSet(out)
    <3>1. PICK i \in 1..Len(order) : order[i] = k
      BY <1>12, InToSet
    <3> QED
      BY <1>14, <1>15, <3>1 DEF ToSet
  <2> QED
    BY <2>1, <2>2
<1> QED
  BY <1>1, <1>15, <1>16 DEF IsObjectOf

\* What a message of typed data is about.
LEMMA TypedDataTells ==
  ASSUME NEW p, ParamsTyped("signTypedData", p), Carried("signTypedData", p),
         NEW q, ParamsTyped("signTypedData", q), Carried("signTypedData", q)
  PROVE  /\ EncodeTypedData(p) \in Texts
         /\ EncodeTypedData(p) = EncodeTypedData(q) =>
              /\ p.name = q.name /\ p.version = q.version /\ p.primaryType = q.primaryType
              /\ Given(p, "chainId", Null) = Given(q, "chainId", Null)
              /\ {<<k, Given(p.data, k, Null)>> : k \in ToSet(FieldNames(p))}
                   = {<<k, Given(q.data, k, Null)>> : k \in ToSet(FieldNames(q))}
<1> DEFINE R == {r \in {p, q} : ParamsTyped("signTypedData", r) /\ Carried("signTypedData", r)}
           S1 == Chars \X Layer1
           S2 == Chars \X Layer2
           base(r) == << <<"name", Str(r.name)>>, <<"version", Str(r.version)>> >>
           chain(r) == IF "chainId" \in DOMAIN r THEN << <<"chainId", Str(r.chainId)>> >> ELSE <<>>
           domain(r) == base(r) \o chain(r)
           fields(r) == [i \in DOMAIN FieldNames(r) |-> <<FieldNames(r)[i], Given(r.data, FieldNames(r)[i], Null)>>]
           set(r) == {<<k, Given(r.data, k, Null)>> : k \in ToSet(FieldNames(r))}
           kv(r) == << <<"domain", Obj(domain(r))>>, <<"primaryType", Str(r.primaryType)>>,
                       <<"message", PlainObject(fields(r))>> >>
<1>1. R = {p, q}
  OBVIOUS
<1>2. \A r \in R : EncodeTypedData(r) = CanonicalSerializeOrdered(kv(r))
  BY DEF EncodeTypedData
<1>3. \A r \in R : /\ r.name \in Text /\ r.version \in Text /\ r.primaryType \in Text
                   /\ "chainId" \in DOMAIN r => r.chainId \in Text
                   /\ r.type \in Seq([name : STRING, type : STRING])
                   /\ \A k \in DOMAIN r.data : r.data[k] \in JsonValues
  BY DEF ParamsTyped, TextFields, Optional, Carried
<1>4. Text \subseteq Texts /\ STRING \subseteq Chars
  BY SeqMonotonic DEF Text, Texts, Chars
<1>5. \A r \in R : /\ r.name \in Texts /\ r.version \in Texts /\ r.primaryType \in Texts
                   /\ "chainId" \in DOMAIN r => r.chainId \in Texts
  BY <1>3, <1>4
<1> HIDE DEF R
<1>6. \A s \in Texts : /\ <<"name", Str(s)>> \in S1 /\ <<"version", Str(s)>> \in S1 /\ <<"chainId", Str(s)>> \in S1
                       /\ <<"primaryType", Str(s)>> \in S2
  <2>1. {"name", "version", "chainId", "primaryType"} \subseteq Chars
    BY DEF Chars
  <2>2. \A s \in Texts : Str(s) \in Layer1 /\ Str(s) \in Layer2
    BY InLevel DEF Layer1, Layer2
  <2> QED
    BY <2>1, <2>2
<1> HIDE DEF S1, S2
<1>7. ASSUME NEW r \in R PROVE base(r) \in Seq(S1) /\ Len(base(r)) = 2
  <2>1. <<"name", Str(r.name)>> \in S1 /\ <<"version", Str(r.version)>> \in S1
    BY <1>5, <1>6
  <2> QED
    BY <2>1
<1>8. ASSUME NEW r \in R PROVE chain(r) \in Seq(S1)
  <2>1. "chainId" \in DOMAIN r => <<"chainId", Str(r.chainId)>> \in S1
    BY <1>5, <1>6
  <2> QED
    BY <2>1
<1>9. \A r \in R : domain(r) \in Seq(S1)
  <2> HIDE DEF base, chain
  <2> QED
    BY <1>7, <1>8, ConcatProperties
\* The message.
<1>10. ASSUME NEW r \in R
       PROVE  \E out \in Seq(S1) : PlainObject(fields(r)) = Obj(out) /\ ToSet(out) = set(r)
  <2> DEFINE ty == FieldNames(r)
             g == [k \in ToSet(ty) |-> Given(r.data, k, Null)]
  <2>1. ty \in Seq(STRING)
    <3>1. Len(r.type) \in Nat /\ DOMAIN r.type = 1..Len(r.type)
          /\ \A i \in 1..Len(r.type) : r.type[i] \in [name : STRING, type : STRING]
      BY <1>3, LenProperties
    <3>2. ty \in [1..Len(r.type) -> STRING]
      BY <3>1 DEF FieldNames
    <3> QED
      BY <3>1, <3>2, SeqDef
  <2>2. Null \in Layer1 /\ JsonValues \subseteq Layer1
    BY InLevel, JsonValuesAre DEF Layer1
  <2>3. \A k \in ToSet(ty) : Given(r.data, k, Null) \in Layer1
    BY <1>3, <2>2 DEF Given
  <2>4. g \in [ToSet(ty) -> Layer1] /\ \A k \in ToSet(ty) : g[k] = Given(r.data, k, Null)
    BY <2>3
  <2>5. \A i \in DOMAIN ty : ty[i] \in ToSet(ty)
    BY DEF ToSet
  <2>6. fields(r) = [i \in DOMAIN ty |-> <<ty[i], g[ty[i]]>>]
    BY <2>4, <2>5
  <2>7. set(r) = {<<k, g[k]>> : k \in ToSet(ty)}
    BY <2>4
  <2> HIDE DEF g, ty, fields, set
  <2>8. \E out \in Seq(STRING \X Layer1) : PlainObject(fields(r)) = Obj(out) /\ ToSet(out) = {<<k, g[k]>> : k \in ToSet(ty)}
    <3>1. IsObjectOf(PlainObject(fields(r)), Layer1, ty, g)
      BY <2>1, <2>4, <2>6, PlainObjectIs
    <3> QED
      BY <3>1 DEF IsObjectOf
  <2>9. Seq(STRING \X Layer1) \subseteq Seq(S1)
    <3>1. STRING \X Layer1 \subseteq S1
      BY <1>4 DEF S1
    <3> QED
      BY <3>1, SeqMonotonic
  <2> QED
    BY <2>7, <2>8, <2>9
<1> HIDE DEF fields, set, domain
<1>11. \A r \in R : kv(r) \in Seq(S2)
  <2> SUFFICES ASSUME NEW r \in R PROVE kv(r) \in Seq(S2)
    OBVIOUS
  <2>1. Obj(domain(r)) \in Layer2
    BY <1>9, InLevel DEF Layer2, S1
  <2>2. PlainObject(fields(r)) \in Layer2
    BY <1>10, InLevel DEF Layer2, S1
  <2>3. "domain" \in Chars /\ "message" \in Chars
    BY DEF Chars
  <2>4. <<"domain", Obj(domain(r))>> \in S2 /\ <<"message", PlainObject(fields(r))>> \in S2
    BY <2>1, <2>2, <2>3 DEF S2
  <2>5. <<"primaryType", Str(r.primaryType)>> \in S2
    BY <1>5, <1>6
  <2> QED
    BY <2>4, <2>5
<1>12. EncodeTypedData(p) \in Texts
  BY <1>1, <1>2, <1>11, OrderedTells DEF S2
<1>13. ASSUME EncodeTypedData(p) = EncodeTypedData(q)
       PROVE  /\ p.name = q.name /\ p.version = q.version /\ p.primaryType = q.primaryType
              /\ Given(p, "chainId", Null) = Given(q, "chainId", Null) /\ set(p) = set(q)
  <2>1. p \in R /\ q \in R
    BY <1>1
  <2>2. kv(p) = kv(q)
    <3> HIDE DEF kv
    <3> QED
      BY <1>2, <1>11, <1>13, <2>1, OrderedTells DEF S2
  <2>3. /\ <<"domain", Obj(domain(p))>> = <<"domain", Obj(domain(q))>>
        /\ <<"primaryType", Str(p.primaryType)>> = <<"primaryType", Str(q.primaryType)>>
        /\ <<"message", PlainObject(fields(p))>> = <<"message", PlainObject(fields(q))>>
    BY <2>2
  <2>4. Obj(domain(p)) = Obj(domain(q)) /\ Str(p.primaryType) = Str(q.primaryType)
        /\ PlainObject(fields(p)) = PlainObject(fields(q))
    BY <2>3
  <2>5. domain(p) = domain(q) /\ p.primaryType = q.primaryType
    BY <2>4, Unstr DEF Obj
  <2>6. set(p) = set(q)
    <3>1. PICK s \in Seq(S1) : PlainObject(fields(p)) = Obj(s) /\ ToSet(s) = set(p)
      BY <1>10, <2>1
    <3>2. PICK t \in Seq(S1) : PlainObject(fields(q)) = Obj(t) /\ ToSet(t) = set(q)
      BY <1>10, <2>1
    <3>3. s = t
      <4>1. Obj(s) = Obj(t)
        BY <2>4, <3>1, <3>2
      <4> QED
        BY <4>1 DEF Obj
    <3> QED
      BY <3>1, <3>2, <3>3
  <2>7. base(p) = base(q) /\ chain(p) = chain(q)
    <3>1. base(p) \o chain(p) = base(q) \o chain(q)
      BY <2>5 DEF domain
    <3> HIDE DEF base, chain
    <3> QED
      BY <1>7, <1>8, <2>1, <3>1, ConcatEqual
  <2>8. p.name = q.name /\ p.version = q.version
    <3>1. <<"name", Str(p.name)>> = <<"name", Str(q.name)>> /\ <<"version", Str(p.version)>> = <<"version", Str(q.version)>>
      BY <2>7
    <3>2. Str(p.name) = Str(q.name) /\ Str(p.version) = Str(q.version)
      BY <3>1
    <3> QED
      BY <3>2, Unstr
  <2>9. Given(p, "chainId", Null) = Given(q, "chainId", Null)
    <3>1. CASE "chainId" \in DOMAIN p
      <4>1. chain(p) = << <<"chainId", Str(p.chainId)>> >> /\ Len(chain(p)) = 1
        BY <3>1
      <4>2. "chainId" \in DOMAIN q
        <5>1. "chainId" \notin DOMAIN q => Len(chain(q)) = 0
          OBVIOUS
        <5> HIDE DEF chain
        <5> QED
          BY <2>7, <4>1, <5>1
      <4>3. <<"chainId", Str(p.chainId)>> = <<"chainId", Str(q.chainId)>>
        BY <2>7, <4>1, <4>2
      <4>4. Str(p.chainId) = Str(q.chainId)
        BY <4>3
      <4> QED
        BY <3>1, <4>2, <4>4, Unstr DEF Given
    <3>2. CASE "chainId" \notin DOMAIN p
      <4>1. Len(chain(p)) = 0
        BY <3>2
      <4>2. "chainId" \in DOMAIN q => Len(chain(q)) = 1
        OBVIOUS
      <4>3. "chainId" \notin DOMAIN q
        <5> HIDE DEF chain
        <5> QED
          BY <2>7, <4>1, <4>2
      <4> QED
        BY <3>2, <4>3 DEF Given
    <3> QED
      BY <3>1, <3>2
  <2> QED
    BY <2>5, <2>6, <2>8, <2>9
<1> QED
  BY <1>12, <1>13 DEF set

-----------------------------------------------------------------------------
(* Approvals.                                                              *)

\* What is signed of an approval.
Approval(p) ==
  CanonicalSerializeOrdered(
    << <<"program", Str(p.program)>>, <<"method", Str(p.method)>>, <<"spender", Str(Given(p, "spender", <<>>))>>,
       <<"args", Arr(Given(p, "args", <<>>))>>, <<"limit", Str(Given(p, "limit", <<>>))>>,
       <<"expiry", Num(Given(p, "expiry", 0))>>, <<"owner", Str(<<Signer>>)>> >>)

LEMMA ApprovalTells ==
  ASSUME NEW p, ParamsTyped("approveContract", p), Carried("approveContract", p),
         NEW q, ParamsTyped("approveContract", q), Carried("approveContract", q)
  PROVE  /\ Approval(p) \in Texts
         /\ Approval(p) = Approval(q) =>
              /\ p.program = q.program /\ p.method = q.method
              /\ Given(p, "spender", <<>>) = Given(q, "spender", <<>>)
              /\ Given(p, "args", <<>>) = Given(q, "args", <<>>)
              /\ Given(p, "limit", <<>>) = Given(q, "limit", <<>>)
              /\ Given(p, "expiry", 0) = Given(q, "expiry", 0)
<1> DEFINE R == {r \in {p, q} : ParamsTyped("approveContract", r) /\ Carried("approveContract", r)}
           S == Chars \X Layer2
           kv(r) == << <<"program", Str(r.program)>>, <<"method", Str(r.method)>>, <<"spender", Str(Given(r, "spender", <<>>))>>,
                       <<"args", Arr(Given(r, "args", <<>>))>>, <<"limit", Str(Given(r, "limit", <<>>))>>,
                       <<"expiry", Num(Given(r, "expiry", 0))>>, <<"owner", Str(<<Signer>>)>> >>
<1>1. p \in R /\ q \in R
  OBVIOUS
<1>2. \A r \in R : /\ {"program", "method"} \subseteq DOMAIN r
                   /\ TextFields(r, {"program", "method", "spender", "limit", "amount", "ou"})
                   /\ Optional(r, "args", Seq(JsonValues)) /\ Optional(r, "expiry", Nat)
  BY DEF ParamsTyped, Carried
<1> HIDE DEF R
<1>3. Text \subseteq Texts /\ STRING \subseteq Chars /\ <<>> \in Texts
  <2>1. <<>> \in Texts
    BY DEF Texts
  <2>2. STRING \subseteq Chars
    BY DEF Chars
  <2> QED
    BY <2>1, <2>2, SeqMonotonic DEF Text, Texts
<1>4. \A r \in R : /\ r.program \in Texts /\ r.method \in Texts
                   /\ Given(r, "spender", <<>>) \in Texts /\ Given(r, "limit", <<>>) \in Texts
  BY <1>2, <1>3 DEF TextFields, Optional, Given
<1>5. \A r \in R : Given(r, "args", <<>>) \in Seq(Layer1) /\ Given(r, "expiry", 0) \in Nat
  <2>1. Seq(JsonValues) \subseteq Seq(Layer1) /\ <<>> \in Seq(Layer1)
    BY JsonValuesAre, SeqMonotonic
  <2> QED
    BY <1>2, <2>1 DEF Optional, Given
<1>6. <<Signer>> \in Texts
  BY <1>3, OneChar, SigningAssumption
<1>7. \A r \in R : kv(r) \in Seq(S)
  <2> SUFFICES ASSUME NEW r \in R PROVE kv(r) \in Seq(S)
    OBVIOUS
  <2>1. {"program", "method", "spender", "args", "limit", "expiry", "owner"} \subseteq Chars
    BY DEF Chars
  <2>2. /\ Str(r.program) \in Layer2 /\ Str(r.method) \in Layer2 /\ Str(Given(r, "spender", <<>>)) \in Layer2
        /\ Str(Given(r, "limit", <<>>)) \in Layer2 /\ Str(<<Signer>>) \in Layer2
        /\ Arr(Given(r, "args", <<>>)) \in Layer2 /\ Num(Given(r, "expiry", 0)) \in Layer2
    BY <1>4, <1>5, <1>6, InLevel DEF Layer2
  <2>3. /\ <<"program", Str(r.program)>> \in S /\ <<"method", Str(r.method)>> \in S
        /\ <<"spender", Str(Given(r, "spender", <<>>))>> \in S /\ <<"args", Arr(Given(r, "args", <<>>))>> \in S
        /\ <<"limit", Str(Given(r, "limit", <<>>))>> \in S /\ <<"expiry", Num(Given(r, "expiry", 0))>> \in S
        /\ <<"owner", Str(<<Signer>>)>> \in S
    BY <2>1, <2>2
  <2> HIDE DEF S
  <2> QED
    BY <2>3
<1>8. \A r \in R : Approval(r) = CanonicalSerializeOrdered(kv(r))
  BY DEF Approval
<1>9. Approval(p) \in Texts
  BY <1>1, <1>7, <1>8, OrderedTells
<1>10. ASSUME Approval(p) = Approval(q)
       PROVE  /\ p.program = q.program /\ p.method = q.method
              /\ Given(p, "spender", <<>>) = Given(q, "spender", <<>>)
              /\ Given(p, "args", <<>>) = Given(q, "args", <<>>)
              /\ Given(p, "limit", <<>>) = Given(q, "limit", <<>>)
              /\ Given(p, "expiry", 0) = Given(q, "expiry", 0)
  <2>1. kv(p) = kv(q)
    <3> HIDE DEF kv
    <3> QED
      BY <1>1, <1>7, <1>8, <1>10, OrderedTells
  <2>2. /\ <<"program", Str(p.program)>> = <<"program", Str(q.program)>>
        /\ <<"method", Str(p.method)>> = <<"method", Str(q.method)>>
        /\ <<"spender", Str(Given(p, "spender", <<>>))>> = <<"spender", Str(Given(q, "spender", <<>>))>>
        /\ <<"args", Arr(Given(p, "args", <<>>))>> = <<"args", Arr(Given(q, "args", <<>>))>>
        /\ <<"limit", Str(Given(p, "limit", <<>>))>> = <<"limit", Str(Given(q, "limit", <<>>))>>
        /\ <<"expiry", Num(Given(p, "expiry", 0))>> = <<"expiry", Num(Given(q, "expiry", 0))>>
    BY <2>1
  <2>3. /\ Str(p.program) = Str(q.program) /\ Str(p.method) = Str(q.method)
        /\ Str(Given(p, "spender", <<>>)) = Str(Given(q, "spender", <<>>))
        /\ Arr(Given(p, "args", <<>>)) = Arr(Given(q, "args", <<>>))
        /\ Str(Given(p, "limit", <<>>)) = Str(Given(q, "limit", <<>>))
        /\ Num(Given(p, "expiry", 0)) = Num(Given(q, "expiry", 0))
    BY <2>2
  <2>4. /\ \A a, b : Arr(a) = Arr(b) => a = b
        /\ \A a, b : Num(a) = Num(b) => a = b
    BY DEF Arr, Num
  <2> QED
    BY <2>3, <2>4, Unstr
<1> QED
  BY <1>9, <1>10

-----------------------------------------------------------------------------
(* One signature never stands for two things.                              *)

\* The text that is hashed of what is no transaction.
HashedText(req) ==
  CASE req.kind = "signMessage"   -> IF Given(req.params, "scheme", "domain") = "raw" THEN req.params.message
                                     ELSE TaggedMessage(req.params.message)
    [] req.kind = "signTypedData" -> <<"octra-typed-data:v1|">> \o EncodeTypedData(req.params)
    [] OTHER                      -> <<"octra-contract-approval:v1|">> \o Approval(req.params)

Raw(req) == req.kind = "signMessage" /\ Given(req.params, "scheme", "domain") = "raw"

LEMMA SameAfterTag ==
  ASSUME NEW a \in Chars, NEW v \in Texts, NEW w \in Texts, <<a>> \o v = <<a>> \o w
  PROVE  v = w
<1> DEFINE tag == <<a>>
<1>1. tag \in Seq(Chars) /\ tag \o v = tag \o w
  BY OneChar DEF Texts
<1> HIDE DEF tag
<1> QED
  BY <1>1, ConcatSimplifications DEF Texts

LEMMA KindsAre ==
  ASSUME NEW req \in AllowedRequests
  PROVE  /\ req.kind \in {"signMessage", "signTypedData", "approveContract", "signContract", "signTransfer"}
         /\ ParamsTyped(req.kind, req.params)
         /\ ~IsTx(req) => req.kind \in {"signMessage", "signTypedData", "approveContract"}
BY SigningAssumption DEF AllowedRequests, IsTx

LEMMA BytesAre ==
  ASSUME NEW req \in AllowedRequests, NEW prompt
  PROVE  SignedBytes(req, prompt) =
           IF IsTx(req) THEN Canonical(CanonicalJsonForTx(TxOfRequest(req, prompt))) ELSE Hashed(HashedText(req))
<1> DEFINE p == req.params
<1>1. CASE req.kind = "signMessage"
  <2>1. SignedBytes(req, prompt) = SignPlainMessage(p) /\ ~IsTx(req)
    BY <1>1 DEF SignedBytes, IsTx
  <2>2. SignPlainMessage(p) = Hashed(IF Given(p, "scheme", "domain") = "raw" THEN p.message ELSE TaggedMessage(p.message))
    BY DEF SignPlainMessage, TaggedMessage
  <2>3. HashedText(req) = IF Given(p, "scheme", "domain") = "raw" THEN p.message ELSE TaggedMessage(p.message)
    BY <1>1 DEF HashedText
  <2> QED
    BY <2>1, <2>2, <2>3
<1>2. CASE req.kind = "signTypedData"
  <2>1. SignedBytes(req, prompt) = SignTypedDataOctra(p) /\ ~IsTx(req)
    BY <1>2 DEF SignedBytes, IsTx
  <2>2. HashedText(req) = <<"octra-typed-data:v1|">> \o EncodeTypedData(p)
    BY <1>2 DEF HashedText
  <2> QED
    BY <2>1, <2>2 DEF SignTypedDataOctra, TypedTag
<1>3. CASE req.kind = "approveContract"
  <2>1. SignedBytes(req, prompt) = SignContractApproval(p) /\ ~IsTx(req)
    BY <1>3 DEF SignedBytes, IsTx
  <2>2. HashedText(req) = <<"octra-contract-approval:v1|">> \o Approval(p)
    BY <1>3 DEF HashedText
  <2> QED
    BY <2>1, <2>2 DEF SignContractApproval, ApproveTag, Approval
<1>4. CASE IsTx(req)
  BY <1>4 DEF SignedBytes, IsTx
<1> QED
  BY <1>1, <1>2, <1>3, <1>4, KindsAre

\* Texts with their tag: its first character is the kind.
KindTags == [signMessage |-> "octra-signed-message:v1", signTypedData |-> "octra-typed-data:v1|",
             approveContract |-> "octra-contract-approval:v1|"]

LEMMA HashedTextIs ==
  ASSUME NEW req \in AllowedRequests, ~IsTx(req), ~Raw(req), Carried(req.kind, req.params)
  PROVE  HashedText(req)[1] = KindTags[req.kind]
<1> DEFINE p == req.params
<1>1. CASE req.kind = "signMessage"
  <2>1. p.message \in Texts
    <3>1. p.message \in Text
      BY <1>1, KindsAre DEF ParamsTyped, TextFields, Optional
    <3>2. Text \subseteq Texts
      BY SeqMonotonic DEF Text, Texts, Chars
    <3> QED
      BY <3>1, <3>2
  <2>2. HashedText(req) = TaggedMessage(p.message)
    BY <1>1 DEF HashedText, Raw
  <2>3. TaggedMessage(p.message)[1] = "octra-signed-message:v1"
    BY <2>1, TaggedTells
  <2> QED
    BY <1>1, <2>2, <2>3 DEF KindTags
<1>2. CASE req.kind = "signTypedData"
  <2>1. EncodeTypedData(p) \in Texts /\ HashedText(req) = <<"octra-typed-data:v1|">> \o EncodeTypedData(p)
    BY <1>2, KindsAre, TypedDataTells DEF HashedText
  <2>2. "octra-typed-data:v1|" \in Chars
    BY DEF Chars
  <2>3. HashedText(req)[1] = "octra-typed-data:v1|"
    BY <2>1, <2>2, OneTells
  <2> QED
    BY <1>2, <2>3 DEF KindTags
<1>3. CASE req.kind = "approveContract"
  <2>1. Approval(p) \in Texts /\ HashedText(req) = <<"octra-contract-approval:v1|">> \o Approval(p)
    BY <1>3, KindsAre, ApprovalTells DEF HashedText
  <2>2. "octra-contract-approval:v1|" \in Chars
    BY DEF Chars
  <2>3. HashedText(req)[1] = "octra-contract-approval:v1|"
    BY <2>1, <2>2, OneTells
  <2> QED
    BY <1>3, <2>3 DEF KindTags
<1> QED
  BY <1>1, <1>2, <1>3, KindsAre

\* Of two approved requests with the same signed bytes, whose typed data and approvals hold what
\* JSON carries, both ask for the same, but for a message that its site wants signed without the
\* tag; that is no transaction.
THEOREM SignaturesTellApart == SignSpec => []SignedBytesTellApart
<1>1. SignInv => SignedBytesTellApart
  <2> SUFFICES ASSUME SignInv, NEW i \in DOMAIN signatures, NEW j \in DOMAIN signatures,
                      signatures[i].bytes = signatures[j].bytes,
                      Carried(signatures[i].req.kind, signatures[i].req.params),
                      Carried(signatures[j].req.kind, signatures[j].req.params)
               PROVE  \/ Meaning(signatures[i]) = Meaning(signatures[j])
                      \/ /\ Untagged(signatures[i]) \/ Untagged(signatures[j])
                         /\ ~IsTx(signatures[i].req) /\ ~IsTx(signatures[j].req)
    BY DEF SignedBytesTellApart, StandsForOne
  <2>1. PICK r \in AllowedRequests, n \in 1..2 : signatures[i] = Signature(r, PromptOf(r, n))
    BY SignaturesAre
  <2>2. PICK u \in AllowedRequests, m \in 1..2 : signatures[j] = Signature(u, PromptOf(u, m))
    BY SignaturesAre
  <2> DEFINE s == Signature(r, PromptOf(r, n))
             t == Signature(u, PromptOf(u, m))
             x == TxOfRequest(r, PromptOf(r, n))
             y == TxOfRequest(u, PromptOf(u, m))
  <2>3. /\ s.req = r /\ s.bytes = SignedBytes(r, PromptOf(r, n)) /\ (IsTx(r) => s.tx = ToNodeWireTx(x, "sig"))
        /\ t.req = u /\ t.bytes = SignedBytes(u, PromptOf(u, m)) /\ (IsTx(u) => t.tx = ToNodeWireTx(y, "sig"))
    BY DEF Signature
  <2>4. /\ s.bytes = IF IsTx(r) THEN Canonical(CanonicalJsonForTx(x)) ELSE Hashed(HashedText(r))
        /\ t.bytes = IF IsTx(u) THEN Canonical(CanonicalJsonForTx(y)) ELSE Hashed(HashedText(u))
    BY <2>3, BytesAre
  <2>5. s.bytes = t.bytes /\ signatures[i] = s /\ signatures[j] = t
    BY <2>1, <2>2
  <2>c. Carried(r.kind, r.params) /\ Carried(u.kind, u.params)
    BY <2>3, <2>5
  <2>6. IsTx(r) => x \in Transactions
    BY TransactionIs
  <2>7. IsTx(u) => y \in Transactions
    BY TransactionIs
  <2> HIDE DEF s, t, x, y
  <2>8. IsTx(r) <=> IsTx(u)
    BY <2>4, <2>5 DEF Canonical, Hashed
  <2>9. CASE IsTx(r)
    <3>1. CanonicalJsonForTx(x) = CanonicalJsonForTx(y)
      BY <2>4, <2>5, <2>8, <2>9 DEF Canonical
    <3>2. x = y
      BY <2>6, <2>7, <2>8, <2>9, <3>1, TransactionTells
    <3>3. s.tx = t.tx
      BY <2>3, <2>8, <2>9, <3>2
    <3>4. Meaning(s) = [tx |-> [f \in DOMAIN s.tx \ WireOnly |-> s.tx[f]]]
      BY <2>3, <2>9 DEF Meaning, IsTx
    <3>5. Meaning(t) = [tx |-> [f \in DOMAIN t.tx \ WireOnly |-> t.tx[f]]]
      BY <2>3, <2>8, <2>9 DEF Meaning, IsTx
    <3> QED
      BY <2>5, <3>3, <3>4, <3>5
  <2>10. CASE ~IsTx(r) /\ (Raw(r) \/ Raw(u))
    BY <2>3, <2>5, <2>8, <2>10 DEF Raw, Untagged
  <2>11. CASE ~IsTx(r) /\ ~Raw(r) /\ ~Raw(u)
    <3> DEFINE p == r.params
               q == u.params
    <3>1. HashedText(r) = HashedText(u)
      BY <2>4, <2>5, <2>8, <2>11 DEF Hashed
    <3>2. /\ r.kind \in {"signMessage", "signTypedData", "approveContract"} /\ ParamsTyped(r.kind, p)
          /\ u.kind \in {"signMessage", "signTypedData", "approveContract"} /\ ParamsTyped(u.kind, q)
          /\ Carried(r.kind, p) /\ Carried(u.kind, q)
      BY <2>c, <2>8, <2>11, KindsAre
    <3>3. r.kind = u.kind
      <4>1. KindTags[r.kind] = KindTags[u.kind]
        BY <2>c, <2>8, <2>11, <3>1, HashedTextIs
      <4> QED
        BY <3>2, <4>1 DEF KindTags
    <3>4. CASE r.kind = "signMessage"
      <4>1. p.message \in Text /\ q.message \in Text
        BY <3>2, <3>3, <3>4 DEF ParamsTyped, TextFields, Optional
      <4>2. p.message \in Texts /\ q.message \in Texts
        <5>1. Text \subseteq Texts
          BY SeqMonotonic DEF Text, Texts, Chars
        <5> QED
          BY <4>1, <5>1
      <4>3. TaggedMessage(p.message) = TaggedMessage(q.message)
        BY <2>11, <3>1, <3>3, <3>4 DEF HashedText, Raw
      <4>4. p.message = q.message
        BY <4>2, <4>3, TaggedTells
      <4>5. Given(p, "scheme", "domain") # "raw" /\ Given(q, "scheme", "domain") # "raw"
        BY <2>11, <3>3, <3>4 DEF Raw
      <4>6. Meaning(s) = [untagged |-> FALSE, message |-> p.message]
        BY <2>3, <2>11, <3>4, <4>5 DEF Meaning
      <4>7. Meaning(t) = [untagged |-> FALSE, message |-> q.message]
        BY <2>3, <2>8, <2>11, <3>3, <3>4, <4>5 DEF Meaning
      <4> QED
        BY <2>5, <4>4, <4>6, <4>7
    <3>5. CASE r.kind = "signTypedData"
      <4> DEFINE set(z) == {<<k, Given(z.data, k, Null)>> : k \in ToSet(FieldNames(z))}
      <4>1. EncodeTypedData(p) \in Texts /\ EncodeTypedData(q) \in Texts
        BY <3>2, <3>3, <3>5, TypedDataTells
      <4>2. <<"octra-typed-data:v1|">> \o EncodeTypedData(p) = <<"octra-typed-data:v1|">> \o EncodeTypedData(q)
        BY <3>1, <3>3, <3>5 DEF HashedText
      <4>3. "octra-typed-data:v1|" \in Chars
        BY DEF Chars
      <4>4. EncodeTypedData(p) = EncodeTypedData(q)
        BY <4>1, <4>2, <4>3, SameAfterTag
      <4>5. /\ p.name = q.name /\ p.version = q.version /\ p.primaryType = q.primaryType
            /\ Given(p, "chainId", Null) = Given(q, "chainId", Null) /\ set(p) = set(q)
        BY <3>2, <3>3, <3>5, <4>4, TypedDataTells
      <4>6. Meaning(s) = [app |-> <<p.name, p.version, Given(p, "chainId", Null)>>, primaryType |-> p.primaryType,
                          data |-> set(p)]
        BY <2>3, <2>11, <3>5 DEF Meaning
      <4>7. Meaning(t) = [app |-> <<q.name, q.version, Given(q, "chainId", Null)>>, primaryType |-> q.primaryType,
                          data |-> set(q)]
        BY <2>3, <2>8, <2>11, <3>3, <3>5 DEF Meaning
      <4> HIDE DEF set
      <4> QED
        BY <2>5, <4>5, <4>6, <4>7
    <3>6. CASE r.kind = "approveContract"
      <4>1. Approval(p) \in Texts /\ Approval(q) \in Texts
        BY <3>2, <3>3, <3>6, ApprovalTells
      <4>2. <<"octra-contract-approval:v1|">> \o Approval(p) = <<"octra-contract-approval:v1|">> \o Approval(q)
        BY <3>1, <3>3, <3>6 DEF HashedText
      <4>3. "octra-contract-approval:v1|" \in Chars
        BY DEF Chars
      <4>4. Approval(p) = Approval(q)
        BY <4>1, <4>2, <4>3, SameAfterTag
      <4>5. /\ p.program = q.program /\ p.method = q.method
            /\ Given(p, "spender", <<>>) = Given(q, "spender", <<>>)
            /\ Given(p, "args", <<>>) = Given(q, "args", <<>>)
            /\ Given(p, "limit", <<>>) = Given(q, "limit", <<>>)
            /\ Given(p, "expiry", 0) = Given(q, "expiry", 0)
        BY <3>2, <3>3, <3>6, <4>4, ApprovalTells
      <4>6. Meaning(s) = [program |-> p.program, method |-> p.method, args |-> Given(p, "args", <<>>),
                          grant |-> <<Given(p, "spender", <<>>), Given(p, "limit", <<>>), Given(p, "expiry", 0)>>]
        BY <2>3, <2>11, <3>6 DEF Meaning
      <4>7. Meaning(t) = [program |-> q.program, method |-> q.method, args |-> Given(q, "args", <<>>),
                          grant |-> <<Given(q, "spender", <<>>), Given(q, "limit", <<>>), Given(q, "expiry", 0)>>]
        BY <2>3, <2>8, <2>11, <3>3, <3>6 DEF Meaning
      <4> QED
        BY <2>5, <4>5, <4>6, <4>7
    <3> QED
      BY <3>2, <3>4, <3>5, <3>6
  <2> QED
    BY <2>9, <2>10, <2>11
<1> QED
  BY <1>1, SignInvAlways, PTL

-----------------------------------------------------------------------------
(***************************************************************************)
(* Addresses, in any two bases and for hashes of any length.  The digits   *)
(* of a number are shown to have it as their value, and the value of a     *)
(* string that does not begin with 0 to have that string as its digits, by *)
(* induction on the number and on the string.                              *)
(***************************************************************************)

\* Division in any base.
LEMMA Divided ==
  ASSUME NEW b \in Nat, b > 1, NEW n \in Nat
  PROVE  /\ n \div b \in Nat /\ n % b \in 0..b - 1
         /\ n > 0 => n \div b < n
<1>1. n \div b \in Nat /\ n % b \in 0..b - 1 /\ b * (n \div b) <= n
  OBVIOUS
<1>2. ASSUME n > 0, n \div b >= n PROVE FALSE
  <2> DEFINE q == n \div b
  <2>1. q \in Nat /\ b * q <= n /\ q >= n
    BY <1>1, <1>2
  <2> HIDE DEF q
  <2>2. b * q >= 2 * q
    BY <2>1
  <2> QED
    BY <1>2, <2>1, <2>2
<1> QED
  BY <1>1, <1>2

\* The quotient and the rest, put together again, and back.
LEMMA Rejoined ==
  ASSUME NEW b \in Nat, b > 1, NEW n \in Nat
  PROVE  n = b * (n \div b) + (n % b)
OBVIOUS

LEMMA DividedBack ==
  ASSUME NEW b \in Nat, b > 1, NEW q \in Nat, NEW d \in 0..b - 1
  PROVE  b * q + d \in Nat /\ (b * q + d) \div b = q /\ (b * q + d) % b = d
<1>1. (b * q + d) \div b = q
  BY SMTT(60)
<1>2. (b * q + d) % b = d
  BY SMTT(60)
<1> QED
  BY <1>1, <1>2

LEMMA InBaseUnfolds ==
  ASSUME NEW b \in Nat, b > 1, NEW n \in Nat
  PROVE  /\ InBase(b, n) \in Seq(0..b - 1) /\ InBase(b, 0) = <<>>
         /\ n > 0 => InBase(b, n) = Append(InBase(b, n \div b), n % b)
<1> DEFINE D == 0..b - 1
           Small == {0}
           base == [k \in Small |-> <<>>]
           prev == [k \in Nat |-> k \div b]
           G == [k \in Nat |-> [s \in Seq(D) |-> Append(s, k % b)]]
           Eq(f) == f = [k \in Nat |-> IF k = 0 THEN <<>> ELSE Append(f[k \div b], k % b)]
           f == CHOOSE f : Eq(f)
<1>1. \A k \in Nat : k % b \in D /\ k \div b \in Nat /\ (k > 0 => k \div b < k)
  BY Divided
<1>2. base \in [Small -> Seq(D)]
  BY EmptySeq
<1>3. prev \in [Nat -> Nat] /\ \A k \in Nat \ Small : prev[k] < k
  BY <1>1
<1> HIDE DEF D
<1>4. G \in [Nat -> [Seq(D) -> Seq(D)]]
  BY <1>1, AppendProperties
<1>5. PICK g \in [Nat -> Seq(D)] : Recurs(g, Small, base, prev, G)
  <2>1. Small \in SUBSET Nat
    OBVIOUS
  <2> HIDE DEF Small, base, prev, G
  <2> QED
    BY <1>2, <1>3, <1>4, <2>1, RecursionIsDefined
<1>6. Eq(g)
  <2> DEFINE h == [k \in Nat |-> IF k = 0 THEN <<>> ELSE Append(g[k \div b], k % b)]
  <2>1. ASSUME NEW k \in Nat PROVE g[k] = h[k]
    <3>1. g[k] = IF k \in Small THEN base[k] ELSE G[k][g[prev[k]]]
      BY <1>5 DEF Recurs
    <3>2. CASE k = 0
      BY <3>1, <3>2
    <3>3. CASE k # 0
      <4>1. k \notin Small /\ prev[k] = k \div b /\ prev[k] \in Nat
        BY <1>3, <3>3
      <4>2. g[prev[k]] \in Seq(D)
        BY <1>5, <4>1
      <4>3. G[k][g[prev[k]]] = Append(g[prev[k]], k % b)
        BY <4>2
      <4> QED
        BY <3>1, <3>3, <4>1, <4>3
    <3> QED
      BY <3>2, <3>3
  <2> HIDE DEF h
  <2>2. g = [k \in Nat |-> g[k]] /\ h = [k \in Nat |-> h[k]]
    BY <1>5 DEF h
  <2>3. g = h
    BY <2>1, <2>2
  <2> QED
    BY <2>3 DEF h
<1>7. Eq(f)
  <2> HIDE DEF Eq
  <2> QED
    BY <1>6
<1>8. InBase(b, n) = f[n] /\ InBase(b, 0) = f[0] /\ InBase(b, n \div b) = f[n \div b]
  BY DEF InBase
<1> HIDE DEF f
<1>9. ASSUME NEW k \in Nat
      PROVE  f[k] = IF k = 0 THEN <<>> ELSE Append(f[k \div b], k % b)
  BY <1>7
<1> DEFINE rest == [k \in Nat |-> k % b]
<1>10. rest \in [Nat -> D] /\ prev \in [Nat -> Nat] /\ \A k \in Nat : k > 0 => prev[k] < k
  BY <1>1
<1>11. f[0] = <<>> /\ \A k \in Nat : k > 0 => f[k] = Append(f[prev[k]], rest[k])
  <2>1. ASSUME NEW k \in Nat, k > 0 PROVE f[k] = Append(f[prev[k]], rest[k])
    <3>1. k # 0 /\ prev[k] = k \div b /\ rest[k] = k % b
      BY <2>1
    <3> QED
      BY <1>9, <3>1, Zenon
  <2>2. 0 \in Nat
    OBVIOUS
  <2>3. f[0] = <<>>
    BY <1>9, <2>2, Zenon
  <2> QED
    BY <2>1, <2>3
<1> HIDE DEF prev, rest
<1>12. \A k \in Nat : f[k] \in Seq(D)
  <2> DEFINE T == {k \in Nat : \A m \in 0..k : f[m] \in Seq(D)}
  <2>1. 0 \in T
    <3>1. f[0] \in Seq(D) /\ \A m \in 0..0 : m = 0
      BY <1>11, EmptySeq
    <3> QED
      BY <3>1
  <2>2. ASSUME NEW k \in T PROVE k + 1 \in T
    <3>1. k \in Nat /\ \A m \in 0..k : f[m] \in Seq(D)
      OBVIOUS
    <3>2. k + 1 \in Nat /\ k + 1 > 0 /\ \A p \in Nat : p < k + 1 => p \in 0..k
      BY <3>1
    <3>5. prev[k + 1] \in 0..k /\ rest[k + 1] \in D
      BY <1>10, <3>2
    <3>6. f[k + 1] = Append(f[prev[k + 1]], rest[k + 1])
      BY <1>11, <3>2, Zenon
    <3>3. f[k + 1] \in Seq(D)
      BY <3>1, <3>5, <3>6, AppendProperties
    <3>4. k + 1 \in Nat /\ \A m \in 0..k + 1 : m \in 0..k \/ m = k + 1
      BY <3>1
    <3> QED
      BY <3>1, <3>3, <3>4
  <2>3. T \in SUBSET Nat
    OBVIOUS
  <2> HIDE DEF T
  <2>4. T = Nat
    BY <2>1, <2>2, <2>3, Induction
  <2>5. ASSUME NEW k \in Nat PROVE f[k] \in Seq(D)
    <3>1. k \in T /\ k \in 0..k
      BY <2>4
    <3> QED
      BY <3>1 DEF T
  <2> QED
    BY <2>5
<1>13. n > 0 => InBase(b, n) = Append(InBase(b, n \div b), n % b)
  <2> SUFFICES ASSUME n > 0 PROVE f[n] = Append(f[n \div b], n % b)
    BY <1>8
  <2>1. n # 0
    OBVIOUS
  <2> QED
    BY <1>9, <2>1, Zenon
<1>14. InBase(b, n) \in Seq(0..b - 1) /\ InBase(b, 0) = <<>>
  BY <1>8, <1>11, <1>12 DEF D
<1> QED
  BY <1>13, <1>14

\* The number so far, and after the last character.
BaseReads(b, r, s) ==
  /\ r[0] = 0
  /\ \A k \in 0..Len(s) - 1 : r[k + 1] = b * r[k] + s[k + 1]
  /\ ValueIn(b, s) = r[Len(s)]

LEMMA ValueIsARun ==
  ASSUME NEW b \in Nat, NEW s \in Seq(Nat)
  PROVE  \E r : BaseReads(b, r, s)
<1> DEFINE L == Len(s)
           G == [i \in 1..L |-> [n \in Nat |-> b * n + s[i]]]
           Eq(f) == f = [t \in SUBSET (1..L) |->
                          IF t = {} THEN 0 ELSE b * f[t \ {Max(t)}] + s[Max(t)]]
           f == CHOOSE f : Eq(f)
<1>1. L \in Nat /\ DOMAIN s = 1..L /\ \A i \in 1..L : s[i] \in Nat
  BY LenProperties
<1>2. \A i \in 1..L : s[i] \in Nat
  BY <1>1
<1>3. G \in [1..L -> [Nat -> Nat]]
  BY <1>1, <1>2
<1> HIDE DEF G
<1>4. PICK g \in [SUBSET (1..L) -> Nat] : Unfolds(g, 0, L, G)
  <2>1. 0 \in Nat
    OBVIOUS
  <2> HIDE DEF L
  <2> QED
    BY <1>1, <1>3, <2>1, FoldIsDefined
<1>5. Eq(g)
  <2> DEFINE h == [t \in SUBSET (1..L) |->
                     IF t = {} THEN 0 ELSE b * g[t \ {Max(t)}] + s[Max(t)]]
  <2>1. ASSUME NEW t \in SUBSET (1..L) PROVE g[t] = h[t]
    <3>1. CASE t = {}
      BY <1>4, <3>1 DEF Unfolds
    <3>2. CASE t # {}
      <4>1. Max(t) \in 1..L /\ t \ {Max(t)} \in SUBSET (1..L) /\ g[t] = G[Max(t)][g[t \ {Max(t)}]]
        BY <1>4, <3>2 DEF Unfolds
      <4>2. g[t \ {Max(t)}] \in Nat
        BY <1>4, <4>1
      <4>3. G[Max(t)][g[t \ {Max(t)}]] = b * g[t \ {Max(t)}] + s[Max(t)]
        BY <4>1, <4>2 DEF G
      <4> QED
        BY <3>2, <4>1, <4>3
    <3> QED
      BY <3>1, <3>2
  <2> HIDE DEF h
  <2>2. g = [t \in SUBSET (1..L) |-> g[t]]
    BY <1>4
  <2>3. h = [t \in SUBSET (1..L) |-> h[t]]
    BY DEF h
  <2>4. g = h
    BY <2>1, <2>2, <2>3
  <2> QED
    BY <2>4 DEF h
<1>6. Eq(f)
  BY <1>5
<1>7. ValueIn(b, s) = f[1..L]
  BY <1>1 DEF ValueIn, FoldLeft, MapThenFoldSet
<1> HIDE DEF f, G
<1> DEFINE r == [k \in 0..L |-> f[1..k]]
<1>8. r[0] = 0
  <2>1. 1..0 = {} /\ {} \in SUBSET (1..L)
    BY <1>1
  <2> QED
    BY <1>1, <1>6, <2>1
<1>9. ASSUME NEW k \in 0..L - 1 PROVE r[k + 1] = b * r[k] + s[k + 1]
  <2>1. k \in Nat /\ k \in 0..L /\ k + 1 \in 0..L /\ k + 1 \in 1..k + 1
    BY <1>1
  <2>2. 1..k + 1 \in SUBSET (1..L) /\ 1..k + 1 # {}
    <3>1. k + 1 \in Nat /\ k + 1 <= L /\ L \in Nat
      BY <1>1
    <3>2. \A m, n \in Nat : m <= n => 1..m \in SUBSET (1..n)
      OBVIOUS
    <3> HIDE DEF L
    <3>3. 1..k + 1 \in SUBSET (1..L)
      BY <3>1, <3>2, Zenon
    <3> QED
      BY <2>1, <3>3, Zenon
  <2>3. f[1..k + 1] = b * f[(1..k + 1) \ {Max(1..k + 1)}] + s[Max(1..k + 1)]
    BY <1>6, <2>2
  <2>4. Max(1..k + 1) = k + 1 /\ (1..k + 1) \ {k + 1} = 1..k
    BY <2>1, MaxOfInterval
  <2> QED
    BY <2>1, <2>3, <2>4
<1>10. r[L] = f[1..L]
  BY <1>1
<1> HIDE DEF r
<1>11. BaseReads(b, r, s)
  BY <1>7, <1>8, <1>9, <1>10 DEF BaseReads
<1> QED
  BY <1>11

LEMMA BaseReadsNumbers ==
  ASSUME NEW b \in Nat, NEW s \in Seq(Nat), NEW r, BaseReads(b, r, s)
  PROVE  \A k \in 0..Len(s) : r[k] \in Nat
<1>1. Len(s) \in Nat /\ \A k \in 0..Len(s) - 1 : s[k + 1] \in Nat
  BY LenProperties
<1>2. \A k \in 0..Len(s) - 1 : s[k + 1] \in Nat
  BY <1>1
<1>3. r[0] \in Nat
  BY DEF BaseReads
<1>4. ASSUME NEW k \in 0..Len(s) - 1, r[k] \in Nat PROVE r[k + 1] \in Nat
  <2>1. r[k + 1] = b * r[k] + s[k + 1]
    BY DEF BaseReads
  <2>2. s[k + 1] \in Nat
    BY <1>2
  <2>3. \A x, y \in Nat : b * x + y \in Nat
    OBVIOUS
  <2> QED
    BY <1>4, <2>1, <2>2, <2>3
<1> QED
  BY <1>1, <1>3, <1>4, StepsKeep

LEMMA ValueIsNat ==
  ASSUME NEW b \in Nat, NEW s \in Seq(Nat)
  PROVE  ValueIn(b, s) \in Nat
<1>1. PICK r : BaseReads(b, r, s)
  BY ValueIsARun
<1>2. Len(s) \in 0..Len(s)
  BY LenProperties
<1> QED
  BY <1>1, <1>2, BaseReadsNumbers DEF BaseReads

LEMMA ValueOfNothing == ASSUME NEW b \in Nat PROVE ValueIn(b, <<>>) = 0
<1>1. <<>> \in Seq(Nat) /\ Len(<<>>) = 0
  BY EmptySeq
<1> QED
  BY <1>1, ValueIsARun DEF BaseReads

LEMMA ValueOfAppend ==
  ASSUME NEW b \in Nat, NEW s \in Seq(Nat), NEW d \in Nat
  PROVE  ValueIn(b, Append(s, d)) = b * ValueIn(b, s) + d
<1> DEFINE t == Append(s, d)
           L == Len(s)
<1>1. /\ t \in Seq(Nat) /\ L \in Nat /\ Len(t) = L + 1 /\ t[L + 1] = d
      /\ \A k \in 1..L : t[k] = s[k]
  BY AppendProperties, LenProperties
<1> HIDE DEF t
<1>2. PICK r : BaseReads(b, r, s)
  BY ValueIsARun
<1>3. PICK q : BaseReads(b, q, t)
  BY <1>1, ValueIsARun
<1> DEFINE S == {k \in Nat : k <= L => q[k] = r[k]}
<1>4. S \in SUBSET Nat /\ 0 \in S
  BY <1>2, <1>3 DEF BaseReads
<1>5. ASSUME NEW k \in S PROVE k + 1 \in S
  <2> SUFFICES ASSUME k + 1 <= L PROVE q[k + 1] = r[k + 1]
    OBVIOUS
  <2>1. k \in 0..L - 1 /\ k \in 0..Len(t) - 1 /\ q[k] = r[k] /\ t[k + 1] = s[k + 1]
    BY <1>1
  <2> QED
    BY <1>2, <1>3, <2>1 DEF BaseReads
<1> HIDE DEF S
<1>6. S = Nat
  BY <1>4, <1>5, Induction
<1>7. q[L] = r[L]
  BY <1>1, <1>6 DEF S
<1>8. q[L + 1] = b * q[L] + t[L + 1]
  BY <1>1, <1>3 DEF BaseReads
<1> QED
  BY <1>1, <1>2, <1>3, <1>7, <1>8 DEF BaseReads, t

LEMMA ValueOfBlank ==
  ASSUME NEW b \in Nat, NEW m \in Nat
  PROVE  Blank(m) \in Seq(Nat) /\ Len(Blank(m)) = m /\ ValueIn(b, Blank(m)) = 0
<1> DEFINE s == Blank(m)
<1>1. s \in Seq(Nat) /\ Len(s) = m /\ \A k \in 0..m - 1 : s[k + 1] = 0
  BY DEF Blank
<1> HIDE DEF s
<1>2. PICK r : BaseReads(b, r, s)
  BY <1>1, ValueIsARun
<1>3. r[0] = 0 /\ ValueIn(b, s) = r[m] /\ \A k \in 0..m - 1 : r[k + 1] = b * r[k] + s[k + 1]
  BY <1>1, <1>2 DEF BaseReads
<1>4. r[0] \in {0}
  BY <1>3
<1>5. ASSUME NEW k \in 0..m - 1, r[k] \in {0} PROVE r[k + 1] \in {0}
  <2>1. r[k + 1] = b * r[k] + s[k + 1] /\ s[k + 1] = 0 /\ r[k] = 0
    BY <1>1, <1>3, <1>5
  <2>2. b * 0 + 0 = 0
    OBVIOUS
  <2> QED
    BY <2>1, <2>2, Zenon
<1>6. \A k \in 0..m : r[k] \in {0}
  <2> DEFINE T == {0}
  <2>1. r[0] \in T /\ \A k \in 0..m - 1 : r[k] \in T => r[k + 1] \in T
    BY <1>4, <1>5
  <2> HIDE DEF T
  <2>2. \A k \in 0..m : r[k] \in T
    BY <2>1, StepsKeep
  <2> QED
    BY <2>2 DEF T
<1>7. m \in 0..m
  OBVIOUS
<1>8. ValueIn(b, s) = 0
  BY <1>3, <1>6, <1>7
<1> QED
  BY <1>1, <1>8 DEF s

LEMMA Associates ==
  ASSUME NEW s \in Seq(Nat), NEW t \in Seq(Nat), NEW d \in Nat
  PROVE  s \o Append(t, d) = Append(s \o t, d)
OBVIOUS

\* The digits of a number have its value, however many zeros stand before them.
LEMMA ValueOfInBase ==
  ASSUME NEW b \in Nat, b > 1, NEW m \in Nat, NEW n \in Nat
  PROVE  ValueIn(b, Blank(m) \o InBase(b, n)) = n
<1> DEFINE W(k) == Blank(m) \o InBase(b, k)
           T == {k \in Nat : ValueIn(b, W(k)) # k}
<1>0. ASSUME NEW k \in Nat PROVE InBase(b, k) \in Seq(Nat)
  <2>1. InBase(b, k) \in Seq(0..b - 1)
    BY InBaseUnfolds
  <2> QED
    BY <2>1
<1>a. Blank(m) \in Seq(Nat) /\ ValueIn(b, Blank(m)) = 0
  BY ValueOfBlank
<1>b. ASSUME NEW k \in Nat PROVE W(k) \in Seq(Nat)
  BY <1>0, <1>a
<1>c. SUFFICES ASSUME T # {} PROVE FALSE
  BY <1>c
<1>2. PICK k \in T : \A j \in T : k <= j
  BY <1>c, LeastNat
<1>3. k \in Nat /\ ValueIn(b, W(k)) # k
  BY <1>2
<1>4. CASE k = 0
  <2>1. InBase(b, 0) = <<>>
    BY InBaseUnfolds
  <2>2. W(0) = Blank(m)
    BY <1>a, <2>1
  <2> QED
    BY <1>3, <1>4, <1>a, <2>2
<1>5. CASE k > 0
  <2> DEFINE q == k \div b
             d == k % b
  <2>1. q \in Nat /\ d \in 0..b - 1 /\ q < k
    BY <1>3, <1>5, Divided
  <2>2. k = b * q + d
    BY <1>3, Rejoined
  <2>3. InBase(b, k) = Append(InBase(b, q), d)
    BY <1>3, <1>5, InBaseUnfolds
  <2> HIDE DEF q, d
  <2>4. d \in Nat /\ q \notin T
    BY <1>2, <1>3, <2>1
  <2>5. ValueIn(b, W(q)) = q
    BY <2>1, <2>4
  <2>6. Blank(m) \o Append(InBase(b, q), d) = Append(Blank(m) \o InBase(b, q), d)
    BY <1>0, <1>a, <2>1, <2>4, Associates
  <2>7. W(k) = Append(W(q), d)
    BY <2>3, <2>6
  <2>8. W(q) \in Seq(Nat)
    BY <1>b, <2>1
  <2> HIDE DEF W
  <2>9. ValueIn(b, Append(W(q), d)) = b * ValueIn(b, W(q)) + d
    BY <2>4, <2>8, ValueOfAppend
  <2>10. ValueIn(b, W(k)) = b * q + d
    BY <2>5, <2>7, <2>9, Zenon
  <2> QED
    BY <1>3, <2>2, <2>10, Zenon
<1> QED
  BY <1>3, <1>4, <1>5

\* Leading zeros and the rest.
LEMMA BlankThen ==
  ASSUME NEW m \in Nat, NEW t \in Seq(Nat), t = <<>> \/ t[1] # 0
  PROVE  Blank(m) \o t \in Seq(Nat) /\ Len(Blank(m) \o t) = m + Len(t) /\ Leading(Blank(m) \o t) = m
<1> DEFINE s == Blank(m) \o t
           L == Len(t)
<1>1. Blank(m) \in Seq(Nat) /\ Len(Blank(m)) = m /\ \A i \in 1..m : Blank(m)[i] = 0
  BY DEF Blank
<1>2. L \in Nat /\ s \in Seq(Nat) /\ Len(s) = m + L /\ DOMAIN s = 1..m + L
  BY <1>1, LenProperties
<1>3. \A i \in 1..m : s[i] = 0
  BY <1>1, <1>2
<1>4. L > 0 => s[m + 1] = t[1]
  BY <1>1, <1>2
<1>5. L > 0 => s[m + 1] # 0
  <2>1. t = <<>> => L = 0
    BY EmptySeq
  <2> HIDE DEF s, L
  <2> QED
    BY <1>2, <1>4, <2>1
<1> HIDE DEF s, L
<1> DEFINE Z == {i \in DOMAIN s : \A j \in 1..i : s[j] = 0}
<1>6. Z = 1..m
  <2>1. ASSUME NEW i \in 1..m PROVE i \in Z
    BY <1>2, <1>3, <2>1
  <2>2. ASSUME NEW i \in Z PROVE i \in 1..m
    <3>1. i \in 1..m + L /\ \A j \in 1..i : s[j] = 0
      BY <1>2
    <3> SUFFICES ASSUME i > m PROVE FALSE
      BY <1>2, <3>1
    <3>2. m + 1 \in 1..i /\ L > 0
      BY <1>2, <3>1
    <3> QED
      BY <1>5, <3>1, <3>2
  <2> HIDE DEF Z
  <2> QED
    BY <2>1, <2>2
<1>7. Cardinality(1..m) = m
  BY FS_Interval
<1>8. Leading(s) = m
  BY <1>6, <1>7 DEF Leading
<1> QED
  BY <1>2, <1>8 DEF s, L

LEMMA BlankAndTheRest ==
  ASSUME NEW s \in Seq(Nat)
  PROVE  \E z \in 0..Len(s), t \in Seq(Nat) :
           /\ s = Blank(z) \o t /\ (t = <<>> \/ t[1] # 0)
           /\ \A S : s \in Seq(S) => t \in Seq(S)
<1> DEFINE L == Len(s)
           T == {i \in Nat : i = L \/ (i < L /\ s[i + 1] # 0)}
<1>1. L \in Nat /\ L \in T
  BY LenProperties
<1>2. PICK z \in T : \A i \in T : z <= i
  BY <1>1, LeastNat
<1>3. z \in 0..L /\ \A i \in 1..z : s[i] = 0
  <2>1. z \in 0..L
    BY <1>1, <1>2
  <2>2. ASSUME NEW i \in 1..z PROVE s[i] = 0
    <3>1. i - 1 \in Nat /\ i - 1 < z /\ i - 1 < L /\ (i - 1) + 1 = i
      BY <1>1, <2>1
    <3>2. i - 1 \notin T
      BY <1>2, <3>1
    <3> QED
      BY <3>1, <3>2
  <2> QED
    BY <2>1, <2>2
<1> DEFINE t == SubSeq(s, z + 1, L)
<1>4. /\ t \in Seq(Nat) /\ Len(t) = L - z
      /\ \A i \in 1..L - z : t[i] = s[z + i]
  BY <1>1, <1>3
<1>5. t = <<>> \/ t[1] # 0
  <2>1. CASE z = L
    BY <1>4, <2>1, EmptySeq
  <2>2. CASE z # L
    <3>1. s[z + 1] # 0 /\ 1 \in 1..L - z
      BY <1>1, <1>2, <1>3, <2>2
    <3> QED
      BY <1>4, <3>1
  <2> QED
    BY <2>1, <2>2
<1>6. s = Blank(z) \o t
  <2>1. Blank(z) \in Seq(Nat) /\ Len(Blank(z)) = z /\ \A i \in 1..z : Blank(z)[i] = 0
    BY <1>3 DEF Blank
  <2> DEFINE r == Blank(z) \o t
  <2>2. r \in Seq(Nat) /\ Len(r) = L
    BY <1>1, <1>3, <1>4, <2>1
  <2>3. ASSUME NEW i \in 1..L PROVE r[i] = s[i]
    <3>1. CASE i <= z
      BY <1>1, <1>3, <1>4, <2>1, <3>1
    <3>2. CASE i > z
      <4>1. i - z \in 1..L - z /\ z + (i - z) = i
        BY <1>1, <1>3, <3>2
      <4>2. r[i] = t[i - z]
        BY <1>1, <1>3, <1>4, <2>1, <3>2, <4>1
      <4> QED
        BY <1>4, <4>1, <4>2
    <3>3. i \in Int /\ z \in Int
      BY <1>1, <1>3
    <3> HIDE DEF r, t
    <3> QED
      BY <3>1, <3>2, <3>3
  <2> HIDE DEF r
  <2>4. r = s
    BY <2>2, <2>3, SeqEqual
  <2> QED
    BY <2>4 DEF r
<1>7. ASSUME NEW S, s \in Seq(S) PROVE t \in Seq(S)
  <2>1. \A i \in 1..L : s[i] \in S
    BY <1>7, LenProperties
  <2> QED
    BY <1>1, <1>3, SubSeqProperties, <2>1
<1> HIDE DEF t, L
<1> QED
  BY <1>3, <1>4, <1>5, <1>6, <1>7 DEF L

\* The digits are what the number was read from.
LEMMA DigitsOfValue ==
  ASSUME NEW b \in Nat, b > 1, NEW z \in Nat, NEW t \in Seq(0..b - 1), t = <<>> \/ t[1] # 0
  PROVE  InBase(b, ValueIn(b, Blank(z) \o t)) = t
<1> DEFINE L == Len(t)
           P(k) == SubSeq(t, 1, k)
           W(k) == Blank(z) \o P(k)
           S == {k \in Nat : k <= L => InBase(b, ValueIn(b, W(k))) = P(k)}
<1>1. /\ L \in Nat /\ t \in Seq(Nat) /\ P(L) = t /\ P(0) = <<>>
      /\ \A k \in 1..L : t[k] \in 0..b - 1
  OBVIOUS
<1>2. Blank(z) \in Seq(Nat) /\ ValueIn(b, Blank(z)) = 0
  BY ValueOfBlank
<1>3. \A k \in 0..L : P(k) \in Seq(Nat) /\ Len(P(k)) = k
  BY <1>1
<1>4. 0 \in S
  <2>1. W(0) = Blank(z)
    BY <1>1, <1>2
  <2>2. InBase(b, 0) = <<>>
    BY InBaseUnfolds
  <2>3. InBase(b, ValueIn(b, W(0))) = P(0)
    BY <1>1, <1>2, <2>1, <2>2
  <2> QED
    BY <2>3
<1>5. ASSUME NEW k \in S PROVE k + 1 \in S
  <2> SUFFICES ASSUME k + 1 <= L PROVE InBase(b, ValueIn(b, W(k + 1))) = P(k + 1)
    OBVIOUS
  <2>1. k \in Nat /\ k \in 0..L /\ k + 1 \in 1..L
    BY <1>1
  <2> DEFINE d == t[k + 1]
             v == ValueIn(b, W(k))
  <2>2. d \in 0..b - 1 /\ d \in Nat
    BY <1>1, <2>1
  <2>3. P(k + 1) = Append(P(k), d)
    BY <1>1, <2>1
  <2>4. P(k) \in Seq(Nat) /\ Len(P(k)) = k /\ W(k) \in Seq(Nat)
    BY <1>2, <1>3, <2>1
  <2>5. W(k + 1) = Append(W(k), d)
    <3> HIDE DEF P, d
    <3>1. Blank(z) \o Append(P(k), d) = Append(Blank(z) \o P(k), d)
      BY <1>2, <2>2, <2>4, Associates
    <3> QED
      BY <2>3, <3>1
  <2>6. InBase(b, v) = P(k)
    BY <1>1, <2>1
  <2>7. v \in Nat
    BY <2>4, ValueIsNat
  <2>8. ValueIn(b, W(k + 1)) = b * v + d
    <3> HIDE DEF W, d
    <3>1. ValueIn(b, Append(W(k), d)) = b * ValueIn(b, W(k)) + d
      BY <2>2, <2>4, ValueOfAppend
    <3> QED
      BY <2>5, <3>1, Zenon
  <2>9. b * v + d > 0
    <3>1. CASE k = 0
      <4>1. d # 0
        BY <1>1, <2>1, <3>1
      <4> DEFINE w == b * v
      <4> HIDE DEF v, d
      <4>2. w \in Nat
        BY <2>7
      <4> HIDE DEF w
      <4>3. w + d > 0
        BY <2>2, <4>1, <4>2
      <4> QED
        BY <4>3 DEF w
    <3>2. CASE k # 0
      <4>1. P(k) # <<>>
        BY <2>1, <2>4, <3>2
      <4>2. v # 0
        BY <2>6, <4>1, InBaseUnfolds
      <4> DEFINE w == b * v
      <4> HIDE DEF v, d
      <4>3. w \in Nat /\ w > 0
        BY <2>7, <4>2
      <4> HIDE DEF w
      <4>4. w + d > 0
        BY <2>2, <4>3
      <4> QED
        BY <4>4 DEF w
    <3> QED
      BY <3>1, <3>2
  <2> HIDE DEF v, d, P, W, S
  <2> DEFINE w == b * v + d
  <2>10. w \in Nat /\ w \div b = v /\ w % b = d
    BY <2>2, <2>7, DividedBack
  <2>11. w > 0
    BY <2>9
  <2> HIDE DEF w
  <2>12. InBase(b, w) = Append(InBase(b, v), d)
    BY <2>10, <2>11, InBaseUnfolds
  <2>13. ValueIn(b, W(k + 1)) = w
    BY <2>8 DEF w
  <2> QED
    BY <2>3, <2>6, <2>12, <2>13, Zenon
<1>6. S \in SUBSET Nat
  OBVIOUS
<1> HIDE DEF S
<1>7. S = Nat
  BY <1>4, <1>5, <1>6, Induction
<1>8. InBase(b, ValueIn(b, W(L))) = P(L)
  BY <1>1, <1>7 DEF S
<1> QED
  BY <1>1, <1>8

\* A number other than 0 has digits, and the first of them is not 0.
LEMMA FirstDigit ==
  ASSUME NEW b \in Nat, b > 1, NEW n \in Nat, n > 0
  PROVE  InBase(b, n) # <<>> /\ InBase(b, n)[1] # 0
<1> DEFINE T == {k \in Nat : k > 0 /\ ~(InBase(b, k) # <<>> /\ InBase(b, k)[1] # 0)}
<1>1. SUFFICES ASSUME T # {} PROVE FALSE
  BY <1>1
<1>2. PICK k \in T : \A j \in T : k <= j
  BY <1>1, LeastNat
<1>3. k \in Nat /\ k > 0 /\ ~(InBase(b, k) # <<>> /\ InBase(b, k)[1] # 0)
  BY <1>2
<1> DEFINE q == k \div b
           d == k % b
<1>4. q \in Nat /\ d \in 0..b - 1 /\ q < k
  BY <1>3, Divided
<1>5. k = b * q + d
  BY <1>3, Rejoined
<1>6. InBase(b, k) = Append(InBase(b, q), d)
  BY <1>3, InBaseUnfolds
<1> HIDE DEF q, d
<1>7. InBase(b, q) \in Seq(0..b - 1)
  BY <1>4, InBaseUnfolds
<1> HIDE DEF T
<1>8. CASE q = 0
  <2>1. InBase(b, q) = <<>>
    BY <1>8, InBaseUnfolds
  <2>2. d # 0
    BY <1>3, <1>4, <1>5, <1>8
  <2>3. Append(<<>>, d) # <<>> /\ Append(<<>>, d)[1] = d
    OBVIOUS
  <2> QED
    BY <1>3, <1>6, <2>1, <2>2, <2>3, Zenon
<1>9. CASE q > 0
  <2>1. q \notin T
    BY <1>2, <1>3, <1>4 DEF T
  <2>2. InBase(b, q) # <<>> /\ InBase(b, q)[1] # 0
    BY <1>4, <1>9, <2>1 DEF T
  <2>3. Append(InBase(b, q), d) # <<>> /\ Append(InBase(b, q), d)[1] = InBase(b, q)[1]
    BY <1>4, <1>7, <2>2
  <2> QED
    BY <1>3, <1>6, <2>2, <2>3, Zenon
<1> QED
  BY <1>4, <1>8, <1>9

\* The largest number of so many digits.
LEMMA LargestUnfolds ==
  ASSUME NEW b \in Nat, b > 1, NEW m \in Nat
  PROVE  /\ Largest(b, m) \in Seq(Nat) /\ ValueIn(b, Largest(b, 0)) = 0
         /\ ValueIn(b, Largest(b, m + 1)) = b * ValueIn(b, Largest(b, m)) + (b - 1)
<1>1. \A k \in Nat : Largest(b, k) \in Seq(Nat) /\ Len(Largest(b, k)) = k
  BY DEF Largest
<1>2. Largest(b, 0) = <<>>
  BY <1>1, EmptySeq
<1>3. Largest(b, m + 1) = Append(Largest(b, m), b - 1)
  <2> DEFINE s == Largest(b, m + 1)
             t == Append(Largest(b, m), b - 1)
  <2>1. s \in Seq(Nat) /\ t \in Seq(Nat) /\ Len(s) = m + 1 /\ Len(t) = m + 1
    BY <1>1
  <2>2. ASSUME NEW i \in 1..m + 1 PROVE s[i] = b - 1
    BY DEF Largest
  <2>3. ASSUME NEW i \in 1..m PROVE Largest(b, m)[i] = b - 1
    BY DEF Largest
  <2>4. ASSUME NEW i \in 1..m + 1 PROVE t[i] = b - 1
    <3>1. CASE i = m + 1
      BY <1>1, <3>1
    <3>2. CASE i # m + 1
      <4>1. i \in 1..m
        BY <3>2
      <4> QED
        BY <1>1, <2>3, <4>1
    <3> QED
      BY <3>1, <3>2
  <2> HIDE DEF s, t
  <2>5. s = t
    BY <2>1, <2>2, <2>4, SeqEqual
  <2> QED
    BY <2>5 DEF s, t
<1>4. b - 1 \in Nat
  OBVIOUS
<1>5. ValueIn(b, Append(Largest(b, m), b - 1)) = b * ValueIn(b, Largest(b, m)) + (b - 1)
  BY <1>1, <1>4, ValueOfAppend
<1>6. ValueIn(b, Largest(b, 0)) = 0
  BY <1>2, ValueOfNothing
<1> QED
  BY <1>1, <1>3, <1>5, <1>6, Zenon

\* A number up to it has no more digits.
LEMMA DigitCount ==
  ASSUME NEW b \in Nat, b > 1, NEW m \in Nat, NEW n \in Nat, n <= ValueIn(b, Largest(b, m))
  PROVE  Len(InBase(b, n)) <= m
<1> DEFINE V(k) == ValueIn(b, Largest(b, k))
           S == {k \in Nat : \A a \in Nat : a <= V(k) => Len(InBase(b, a)) <= k}
<1>1. \A k \in Nat : V(k) \in Nat /\ V(k + 1) = b * V(k) + (b - 1)
  BY LargestUnfolds, ValueIsNat
<1>2. 0 \in S
  <2>1. V(0) = 0
    BY LargestUnfolds
  <2>2. InBase(b, 0) = <<>> /\ Len(<<>>) = 0
    BY InBaseUnfolds
  <2> HIDE DEF V
  <2>3. ASSUME NEW a \in Nat, a <= V(0) PROVE Len(InBase(b, a)) <= 0
    <3>1. a = 0
      BY <2>1, <2>3
    <3> QED
      BY <2>2, <3>1
  <2> QED
    BY <2>3
<1>3. ASSUME NEW k \in S PROVE k + 1 \in S
  <2>1. k \in Nat
    OBVIOUS
  <2>2. ASSUME NEW a \in Nat, a <= V(k + 1) PROVE Len(InBase(b, a)) <= k + 1
    <3>1. CASE a = 0
      <4>1. Len(InBase(b, 0)) = 0
        BY InBaseUnfolds
      <4> QED
        BY <2>1, <3>1, <4>1
    <3>2. CASE a > 0
      <4> DEFINE q == a \div b
                 d == a % b
                 v == V(k)
      <4>1. q \in Nat /\ d \in 0..b - 1 /\ InBase(b, q) \in Seq(0..b - 1)
        BY Divided, InBaseUnfolds
      <4>2. a = b * q + d
        BY Rejoined
      <4>3. InBase(b, a) = Append(InBase(b, q), d)
        BY <3>2, InBaseUnfolds
      <4>4. v \in Nat /\ a <= b * v + (b - 1)
        BY <1>1, <2>1, <2>2
      <4> HIDE DEF q, d, v
      <4>5. q <= v
        <5> SUFFICES ASSUME q >= v + 1 PROVE FALSE
          BY <4>1, <4>4
        <5>1. b * q >= b * (v + 1)
          BY <4>1, <4>4
        <5>2. b * (v + 1) = b * v + b
          BY <4>4
        <5> DEFINE x == b * q
                   y == b * v
        <5>3. x \in Nat /\ y \in Nat
          BY <4>1, <4>4
        <5>4. x >= y + b /\ a = x + d /\ a <= y + (b - 1)
          BY <4>2, <4>4, <5>1, <5>2
        <5> HIDE DEF x, y
        <5> QED
          BY <4>1, <5>3, <5>4
      <4>6. Len(InBase(b, q)) <= k
        BY <4>1, <4>5 DEF v
      <4>7. Len(Append(InBase(b, q), d)) = Len(InBase(b, q)) + 1 /\ Len(InBase(b, q)) \in Nat
        BY <4>1
      <4> QED
        BY <2>1, <4>3, <4>6, <4>7
    <3> QED
      BY <3>1, <3>2
  <2> QED
    BY <2>1, <2>2
<1>4. S \in SUBSET Nat
  OBVIOUS
<1> HIDE DEF S
<1>5. S = Nat
  BY <1>2, <1>3, <1>4, Induction
<1> QED
  BY <1>5 DEF S

LEMMA LargestIsLargest ==
  ASSUME NEW b \in Nat, b > 1, NEW s \in Seq(0..b - 1)
  PROVE  ValueIn(b, s) <= ValueIn(b, Largest(b, Len(s)))
<1> DEFINE L == Len(s)
           t == Largest(b, L)
<1>1. /\ L \in Nat /\ s \in Seq(Nat) /\ t \in Seq(Nat) /\ Len(t) = L
      /\ \A i \in 1..L : s[i] \in 0..b - 1 /\ t[i] = b - 1
  BY LenProperties DEF Largest
<1> HIDE DEF L, t
<1>2. PICK r : BaseReads(b, r, s)
  BY <1>1, ValueIsARun
<1>3. PICK q : BaseReads(b, q, t)
  BY <1>1, ValueIsARun
<1>4. \A k \in 0..L : r[k] \in Nat /\ q[k] \in Nat
  BY <1>1, <1>2, <1>3, BaseReadsNumbers DEF L
<1> DEFINE S == {k \in Nat : k <= L => r[k] <= q[k]}
<1>5. S \in SUBSET Nat /\ 0 \in S
  BY <1>2, <1>3 DEF BaseReads
<1>6. ASSUME NEW k \in S PROVE k + 1 \in S
  <2> SUFFICES ASSUME k + 1 <= L PROVE r[k + 1] <= q[k + 1]
    OBVIOUS
  <2>1. k \in 0..L - 1 /\ k \in 0..L /\ k + 1 \in 1..L /\ r[k] <= q[k]
    BY <1>1
  <2>2. r[k + 1] = b * r[k] + s[k + 1] /\ q[k + 1] = b * q[k] + t[k + 1]
    BY <1>1, <1>2, <1>3, <2>1 DEF BaseReads, L
  <2>3. s[k + 1] \in 0..b - 1 /\ t[k + 1] = b - 1
    BY <1>1, <2>1
  <2>4. r[k] \in Nat /\ q[k] \in Nat
    BY <1>4, <2>1
  <2>5. \A x, y \in Nat : x <= y => b * x <= b * y /\ b * x \in Nat /\ b * y \in Nat
    OBVIOUS
  <2> DEFINE x == b * r[k]
             y == b * q[k]
  <2>6. x \in Nat /\ y \in Nat /\ x <= y
    BY <2>1, <2>4, <2>5
  <2>7. r[k + 1] = x + s[k + 1] /\ q[k + 1] = y + t[k + 1]
    BY <2>2
  <2> HIDE DEF x, y
  <2> QED
    BY <2>3, <2>6, <2>7
<1> HIDE DEF S
<1>7. S = Nat
  BY <1>5, <1>6, Induction
<1>8. r[L] <= q[L]
  BY <1>1, <1>7 DEF S
<1>9. ValueIn(b, s) = r[L] /\ ValueIn(b, t) = q[L]
  BY <1>1, <1>2, <1>3 DEF BaseReads, L
<1> QED
  BY <1>8, <1>9 DEF t, L

LEMMA BlanksMeet ==
  ASSUME NEW m \in Nat, NEW n \in Nat, NEW t \in Seq(Nat)
  PROVE  Blank(m) \o (Blank(n) \o t) = Blank(m + n) \o t
<1> DEFINE x == Blank(m)
           y == Blank(n)
           xy == Blank(m + n)
<1>1. /\ x \in Seq(Nat) /\ Len(x) = m /\ \A i \in 1..m : x[i] = 0
      /\ y \in Seq(Nat) /\ Len(y) = n /\ \A i \in 1..n : y[i] = 0
  BY DEF Blank
<1>2. xy \in Seq(Nat) /\ Len(xy) = m + n /\ \A i \in 1..m + n : xy[i] = 0
  <2> DEFINE k == m + n
  <2>1. k \in Nat
    OBVIOUS
  <2> HIDE DEF k
  <2>2. Blank(k) \in Seq(Nat) /\ Len(Blank(k)) = k /\ \A i \in 1..k : Blank(k)[i] = 0
    BY <2>1 DEF Blank
  <2> QED
    BY <2>2 DEF k
<1> HIDE DEF x, y, xy
<1>3. x \o y = xy
  <2> DEFINE s == x \o y
  <2>0. x \in Seq(Nat) /\ y \in Seq(Nat) /\ Len(x) = m /\ Len(y) = n
    BY <1>1
  <2>1. s \in Seq(Nat) /\ Len(s) = m + n
    BY <2>0, ConcatProperties
  <2>2. ASSUME NEW i \in 1..m + n PROVE s[i] = 0
    <3>1. CASE i <= m
      BY <1>1, <3>1
    <3>2. CASE i > m
      <4>1. i - m \in 1..n
        BY <3>2
      <4>2. s[i] = y[i - m]
        BY <1>1, <3>2, <4>1
      <4> QED
        BY <1>1, <4>1, <4>2
    <3> HIDE DEF s
    <3> QED
      BY <3>1, <3>2
  <2> HIDE DEF s
  <2>3. \A i \in 1..Len(s) : s[i] = xy[i]
    BY <1>2, <2>1, <2>2
  <2>4. s = xy
    BY <1>2, <2>1, <2>3, SeqEqual
  <2> QED
    BY <2>4 DEF s
<1>4. x \o (y \o t) = (x \o y) \o t
  BY <1>1
<1> QED
  BY <1>3, <1>4 DEF x, y, xy

\* What is written of a hash: its zeros, and the digits of its other bytes.
LEMMA HashIsWritten ==
  ASSUME NEW hash \in Hashes
  PROVE  \E z \in Nat, t \in Seq(0..ByteBase - 1), n \in Nat :
           /\ hash = Blank(z) \o t /\ z + Len(t) = HashLength /\ (z = 0 <=> hash[1] # 0)
           /\ n > 0 /\ InBase(ByteBase, n) = t
           /\ Base58Encode(hash) = Blank(z) \o InBase(DigitBase, n)
           /\ n <= ValueIn(DigitBase, Largest(DigitBase, ADDRESS_PAYLOAD_LENGTH))
<1>1. /\ ByteBase \in Nat /\ ByteBase > 1 /\ DigitBase \in Nat /\ DigitBase > 1
      /\ HashLength \in Nat /\ HashLength > 0 /\ ADDRESS_PAYLOAD_LENGTH \in Nat
  BY AddressAssumption
<1>2. /\ hash \in Seq(0..ByteBase - 1) /\ hash \in Seq(Nat) /\ Len(hash) = HashLength
      /\ \E i \in 1..HashLength : hash[i] # 0
  BY <1>1 DEF Hashes
<1>3. PICK z \in 0..Len(hash), t \in Seq(Nat) :
        /\ hash = Blank(z) \o t /\ (t = <<>> \/ t[1] # 0)
        /\ \A S : hash \in Seq(S) => t \in Seq(S)
  BY <1>2, BlankAndTheRest
<1>4. t \in Seq(0..ByteBase - 1) /\ z \in Nat
  BY <1>1, <1>2, <1>3
<1>5. Leading(hash) = z /\ z + Len(t) = HashLength
  BY <1>2, <1>3, <1>4, BlankThen
<1>6. \A i \in 1..z : Blank(z)[i] = 0
  BY DEF Blank
<1>7. Blank(z) \in Seq(Nat) /\ Len(Blank(z)) = z
  BY <1>4 DEF Blank
<1>8. \A i \in 1..z : hash[i] = 0
  BY <1>3, <1>4, <1>6, <1>7
<1>9. z = 0 => hash = t
  BY <1>3, <1>7
<1>10. t # <<>>
  <2>1. PICK i \in 1..HashLength : hash[i] # 0
    BY <1>2
  <2>2. z # HashLength
    BY <1>8, <2>1
  <2>3. Len(t) # 0
    BY <1>1, <1>4, <1>5, <2>2
  <2> QED
    BY <2>3, EmptySeq
<1>11. z = 0 <=> hash[1] # 0
  <2>1. z = 0 => hash[1] # 0
    BY <1>3, <1>9, <1>10
  <2>2. z # 0 => 1 \in 1..z
    BY <1>4
  <2> QED
    BY <1>8, <2>1, <2>2
<1> DEFINE n == ValueIn(ByteBase, hash)
<1>12. n \in Nat
  BY <1>1, <1>2, ValueIsNat
<1>13. InBase(ByteBase, n) = t
  BY <1>1, <1>3, <1>4, DigitsOfValue
<1>14. n > 0
  <2> HIDE DEF n
  <2>1. n # 0
    BY <1>1, <1>10, <1>13, InBaseUnfolds
  <2> QED
    BY <1>12, <2>1
<1>15. Base58Encode(hash) = Blank(z) \o InBase(DigitBase, n)
  <2>1. Leading(hash) # Len(hash)
    <3>1. Len(t) # 0 /\ Len(t) \in Nat
      BY <1>4, <1>10, EmptySeq
    <3> QED
      BY <1>1, <1>2, <1>4, <1>5, <3>1
  <2> QED
    BY <1>5, <2>1 DEF Base58Encode
<1>16. n <= ValueIn(DigitBase, Largest(DigitBase, ADDRESS_PAYLOAD_LENGTH))
  <2>1. n <= ValueIn(ByteBase, Largest(ByteBase, HashLength))
    BY <1>1, <1>2, LargestIsLargest
  <2>2. \A k, l \in Nat : /\ Largest(ByteBase, k) \in Seq(Nat) /\ Largest(DigitBase, l) \in Seq(Nat)
    BY <1>1, LargestUnfolds
  <2>3. /\ ValueIn(ByteBase, Largest(ByteBase, HashLength)) \in Nat
        /\ ValueIn(DigitBase, Largest(DigitBase, ADDRESS_PAYLOAD_LENGTH)) \in Nat
    BY <1>1, <2>2, ValueIsNat
  <2> HIDE DEF n
  <2> QED
    BY <1>12, <2>1, <2>3, AddressAssumption
<1> HIDE DEF n
<1> QED
  BY <1>3, <1>4, <1>5, <1>11, <1>12, <1>13, <1>14, <1>15, <1>16

\* What an address is, and what is read from it.
LEMMA AddressIsRead ==
  ASSUME NEW hash \in Hashes
  PROVE  \E z \in Nat, t \in Seq(0..ByteBase - 1) :
           /\ hash = Blank(z) \o t /\ z + Len(t) = HashLength /\ (z = 0 <=> hash[1] # 0)
           /\ \/ Len(DeriveAddressFromPubkey(hash)) > ADDRESS_PAYLOAD_LENGTH /\ z # 0
              \/ /\ Len(DeriveAddressFromPubkey(hash)) = ADDRESS_PAYLOAD_LENGTH
                 /\ Leading(DeriveAddressFromPubkey(hash)) \in Nat
                 /\ Base58Decode(DeriveAddressFromPubkey(hash)) =
                      Blank(Leading(DeriveAddressFromPubkey(hash))) \o t
<1> DEFINE a == DeriveAddressFromPubkey(hash)
           N == ADDRESS_PAYLOAD_LENGTH
<1>1. /\ ByteBase \in Nat /\ ByteBase > 1 /\ DigitBase \in Nat /\ DigitBase > 1 /\ N \in Nat
  BY AddressAssumption
<1>2. PICK z \in Nat, t \in Seq(0..ByteBase - 1), n \in Nat :
        /\ hash = Blank(z) \o t /\ z + Len(t) = HashLength /\ (z = 0 <=> hash[1] # 0)
        /\ n > 0 /\ InBase(ByteBase, n) = t
        /\ Base58Encode(hash) = Blank(z) \o InBase(DigitBase, n)
        /\ n <= ValueIn(DigitBase, Largest(DigitBase, N))
  BY HashIsWritten
<1> DEFINE u == InBase(DigitBase, n)
           L == Len(u)
<1>3. u \in Seq(0..DigitBase - 1) /\ u # <<>> /\ u[1] # 0 /\ L <= N
  BY <1>1, <1>2, InBaseUnfolds, FirstDigit, DigitCount
<1> HIDE DEF u
<1>4. u \in Seq(Nat) /\ L \in Nat
  <2>1. u \in Seq(0..DigitBase - 1)
    BY <1>3
  <2>2. u \in Seq(Nat)
    BY <1>1, <2>1
  <2> QED
    BY <2>2, LenProperties
<1>5. Base58Encode(hash) = Blank(z) \o u
  BY <1>2 DEF u
<1>6. Blank(z) \o u \in Seq(Nat) /\ Len(Blank(z) \o u) = z + L
  BY <1>3, <1>4, BlankThen
<1>7. a = Blank(N - (z + L)) \o (Blank(z) \o u)
  BY <1>5, <1>6 DEF DeriveAddressFromPubkey
<1> HIDE DEF a, N, L
<1>8. CASE z + L > N
  <2>1. Blank(N - (z + L)) = <<>>
    <3>1. N - (z + L) \in Int /\ N - (z + L) < 0
      BY <1>1, <1>4, <1>8
    <3>2. \A k \in Int : k < 0 => 1..k = {}
      OBVIOUS
    <3>3. 1..N - (z + L) = {}
      BY <3>1, <3>2
    <3>4. \A f, g : f = [i \in {} |-> 0] /\ g = [i \in {} |-> 0] => f = g
      OBVIOUS
    <3> QED
      BY <3>3 DEF Blank
  <2> DEFINE v == Blank(z) \o u
  <2>2. Len(a) = z + L
    <3>1. a = <<>> \o v /\ v \in Seq(Nat) /\ Len(v) = z + L
      BY <1>6, <1>7, <2>1
    <3> HIDE DEF v
    <3> QED
      BY <3>1
  <2>3. z # 0
    BY <1>1, <1>3, <1>4, <1>8 DEF L
  <2> QED
    BY <1>2, <1>8, <2>2, <2>3 DEF a, N
<1>9. CASE z + L <= N
  <2> DEFINE p == N - (z + L) + z
  <2>1. N - (z + L) \in Nat /\ p \in Nat /\ p + L = N
    BY <1>1, <1>4, <1>9
  <2>2. a = Blank(p) \o u
    BY <1>4, <1>7, <2>1, BlanksMeet
  <2> HIDE DEF p
  <2>3. Len(a) = p + L /\ Leading(a) = p
    BY <1>3, <1>4, <2>1, <2>2, BlankThen DEF L
  <2>4. ValueIn(DigitBase, a) = n
    BY <1>1, <2>1, <2>2, ValueOfInBase DEF u
  <2>5. Base58Decode(a) = Blank(p) \o t
    BY <1>2, <2>3, <2>4 DEF Base58Decode
  <2> QED
    BY <1>2, <2>1, <2>3, <2>5 DEF a, N
<1>10. z + L \in Nat
  BY <1>4
<1> DEFINE zl == z + L
<1>11. zl > N \/ zl <= N
  <2> HIDE DEF zl
  <2> QED
    BY <1>1, <1>10 DEF zl
<1> QED
  BY <1>8, <1>9, <1>11, Zenon

\* For every hash: its address is valid if the hash has no leading zero byte, and only then,
\* and a valid address gives the hash back (deriveAddressFromPubkey, isValidAddress and
\* addressToPayload of crypto/address.ts).
THEOREM DerivedAddressesAreValid == DerivedAddressIsValid
<1> SUFFICES ASSUME NEW hash \in Hashes
             PROVE  /\ IsValidAddress(DeriveAddressFromPubkey(hash)) <=> hash[1] # 0
                    /\ hash[1] # 0 => AddressToPayload(DeriveAddressFromPubkey(hash)) = hash
  BY DEF DerivedAddressIsValid
<1> DEFINE a == DeriveAddressFromPubkey(hash)
           N == ADDRESS_PAYLOAD_LENGTH
<1>1. PICK z \in Nat, t \in Seq(0..ByteBase - 1) :
        /\ hash = Blank(z) \o t /\ z + Len(t) = HashLength /\ (z = 0 <=> hash[1] # 0)
        /\ \/ Len(a) > N /\ z # 0
           \/ /\ Len(a) = N /\ Leading(a) \in Nat
              /\ Base58Decode(a) = Blank(Leading(a)) \o t
  BY AddressIsRead
<1>2. N \in Nat /\ HashLength \in Nat /\ Len(t) \in Nat
  BY AddressAssumption, LenProperties
<1>3. ByteBase \in Nat /\ t \in Seq(Nat)
  BY AddressAssumption
<1> HIDE DEF a, N
<1>4. CASE Len(a) > N /\ z # 0
  <2>1. Len(a) # N
    BY <1>2, <1>4
  <2> QED
    BY <1>1, <1>4, <2>1 DEF IsValidAddress, a, N
<1>5. CASE Len(a) = N /\ Leading(a) \in Nat /\ Base58Decode(a) = Blank(Leading(a)) \o t
  <2> DEFINE p == Leading(a)
             s == Blank(p) \o t
  <2>1. Blank(p) \in Seq(Nat) /\ Len(Blank(p)) = p /\ p \in Nat
    BY <1>5 DEF Blank
  <2>2. Base58Decode(a) = s
    BY <1>5
  <2> HIDE DEF p
  <2>3. Len(s) = p + Len(t)
    BY <1>3, <2>1
  <2>4. SubSeq(s, p + 1, Len(s)) = t
    BY <1>3, <2>1
  <2> HIDE DEF s
  <2>5. IsValidAddress(a) <=> (p + Len(t)) - p = HashLength
    BY <1>5, <2>2, <2>3 DEF IsValidAddress, N, p
  <2>6. IsValidAddress(a) <=> z = 0
    BY <1>1, <1>2, <2>1, <2>5
  <2>7. AddressToPayload(a) = t
    BY <2>2, <2>4 DEF AddressToPayload, p
  <2>8. z = 0 => hash = t
    <3> SUFFICES ASSUME z = 0 PROVE hash = t
      OBVIOUS
    <3>1. Blank(z) = <<>>
      BY ValueOfBlank, EmptySeq
    <3>2. <<>> \o t = t
      BY <1>3
    <3> QED
      BY <1>1, <3>1, <3>2, Zenon
  <2> QED
    BY <1>1, <2>6, <2>7, <2>8 DEF a
<1> QED
  BY <1>1, <1>4, <1>5

\* Two keys whose hashes differ, and have no leading zero byte, have different addresses
\* (deriveAddressFromPubkey).
THEOREM DerivedAddressesDiffer == AddressesDiffer
<1>1. \A h \in Hashes : h[1] # 0 => AddressToPayload(DeriveAddressFromPubkey(h)) = h
  BY DerivedAddressesAreValid DEF DerivedAddressIsValid
<1> SUFFICES ASSUME NEW g \in Hashes, NEW h \in Hashes, g[1] # 0, h[1] # 0,
                    DeriveAddressFromPubkey(g) = DeriveAddressFromPubkey(h)
             PROVE  g = h
  BY DEF AddressesDiffer
<1> QED
  BY <1>1, Zenon

=============================================================================
