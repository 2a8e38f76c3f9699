------------------------------ MODULE Sending ------------------------------
(***************************************************************************)
(* The Send panel (components/SendForm.tsx) over api/send.ts and           *)
(* api/nonce.ts: the form, the confirmation dialog with the nonce it has   *)
(* asked the node for, and the send that signs and submits after it.       *)
(*                                                                         *)
(* A nonce is read by an RPC that answers late or never, and whatever      *)
(* dialog or account is on the screen when it lands takes it.  Close, in   *)
(* the modal that shows a send, works before the send has ended: the form, *)
(* another account or another send may be used meanwhile.  The node is     *)
(* external: it keeps, per account, the highest nonce confirmed or staged, *)
(* and takes a transaction whose signature is the account's and whose      *)
(* nonce is above it.                                                      *)
(***************************************************************************)
EXTENDS Naturals, FiniteSets

CONSTANTS
  Senders,      \* accounts of the wallet
  WatchOnly,    \* those of them it has no keys for
  Recipients,   \* valid addresses; anything else typed is invalid
  Typed,        \* what the fields of the form may hold: [to, amount] records
  RawAmount,    \* [amounts typed -> raw amount; 0 too when it does not parse]
  BigAmount,    \* from this raw amount on the recommended fee is the higher one
  MaxWallets,   \* bound: wallets opened (unlocks and switches)
  MaxFetches,   \* bound: nonce requests of dialogs under way at once
  MaxSends,     \* bound: sends confirmed
  MaxStaged     \* bound: nonces of an account the node has seen

ASSUME SendingAssumption ==
  /\ WatchOnly \subseteq Senders /\ MaxWallets \in Nat \ {0} /\ MaxStaged \in Nat
  /\ MaxFetches \in Nat /\ MaxSends \in Nat
  /\ \A f \in Typed : RawAmount[f.amount] \in Nat

VARIABLES
  wallet,     \* the wallet in the store: which object, and whose; id 0 when locked
  opened,     \* bound: wallet objects made so far
  mounted,    \* the wallet object with which the panel was mounted, 0 while it is not
  wiped,      \* wallet objects whose key bytes lock() has zeroed
  closed,     \* history: wallet objects that were open when the wallet was locked
  form,       \* the form's fields
  dialog,     \* showConfirm
  nextNonce,  \* the nonce the form holds, 0 for none
  nonceStatus,\* and what the dialog shows of it: "loading", "error", "ready"
  modal,      \* modalOpen
  fetch,      \* [id -> the account a dialog's nonce request under way is for, or "none"]
  send,       \* [id -> a run of handleSend and sendStandard, with what its closure captured]
  staged,     \* node: [account -> highest nonce confirmed or pending]
  signed,     \* [send -> the transaction it has signed and posted, and with which key bytes]
  taken,      \* node: [send -> the transaction it took from it]
  approved    \* history: [send -> what the dialog showed when it was confirmed]

shown_vars  == <<form, dialog, nextNonce, nonceStatus>>
opened_vars == <<wallet, opened, mounted, wiped, closed>>
send_vars   == <<opened_vars, shown_vars, modal, fetch, send, staged, signed, taken, approved>>

EmptyForm == [to |-> "", amount |-> ""]
NoSend    == [pc |-> "idle", wallet |-> [id |-> 0, addr |-> "none"], panel |-> 0,
              form |-> EmptyForm, nonce |-> 0]
NoTx      == [from |-> "none", form |-> EmptyForm, nonce |-> 0, ou |-> 0, id |-> 0]
NoSigned  == [tx |-> NoTx, valid |-> FALSE, late |-> FALSE]
FetchIds  == 1..MaxFetches
SendIds   == 1..MaxSends

SendInit ==
  /\ \E a \in Senders : wallet = [id |-> 1, addr |-> a]
  /\ opened = 1 /\ mounted = 1 /\ wiped = {} /\ closed = {}
  /\ form = EmptyForm /\ dialog = FALSE /\ nextNonce = 0 /\ nonceStatus = "loading" /\ modal = FALSE
  /\ fetch = [f \in FetchIds |-> "none"]
  /\ send = [k \in SendIds |-> NoSend]
  /\ staged = [a \in Senders |-> 0]
  /\ signed = [k \in SendIds |-> NoSigned]
  /\ taken = [k \in SendIds |-> NoTx] /\ approved = [k \in SendIds |-> NoTx]

ValidTo     == form.to \in Recipients
ValidAmount == form.amount # "" /\ RawAmount[form.amount] > 0

\* recommendedOu('standard', raw), and the fee the form shows.
RecommendedOu(raw) == IF raw < BigAmount THEN 10000 ELSE 30000
FeeShown == 10000

-----------------------------------------------------------------------------
(* The nonce: octra_balance, pending_nonce before nonce, plus one.  The    *)
(* node reads its counters when an answer lands: how much older they may   *)
(* be is in how much later they are used.                                  *)

AskNonce(f, addr) ==
  /\ fetch[f] = "none" /\ \A g \in FetchIds : g < f => fetch[g] # "none"
  /\ fetch' = [fetch EXCEPT ![f] = addr]

\* fetchNextNonce.
NextNonce(a) == staged[a] + 1

\* The fetch of a dialog: whatever is on the screen takes it.
DialogFetchEnds(f) ==
  /\ fetch[f] # "none" /\ fetch' = [fetch EXCEPT ![f] = "none"]
  /\ \/ nextNonce' = NextNonce(fetch[f]) /\ nonceStatus' = "ready"
     \/ nonceStatus' = "error" /\ UNCHANGED nextNonce
  /\ UNCHANGED <<opened_vars, form, dialog, modal, send, staged, signed, taken, approved>>

\* A send's own requests: the number for the stage list is only shown, the one
\* sendStandard asks for is used.
Asking == {"fetching", "signing"}

SendFetched(s) == IF s.pc = "fetching" THEN [s EXCEPT !.pc = "staged"]
              ELSE [s EXCEPT !.pc = "sign", !.nonce = NextNonce(s.wallet.addr)]

\* Mutant: a request that fails is left unanswered.
SendFetchEndsSilently(k) ==
  /\ send[k].pc \in Asking
  /\ \/ send' = [send EXCEPT ![k] = SendFetched(@)]
     \/ send' = [send EXCEPT ![k].pc = "unanswered"]
  /\ UNCHANGED <<opened_vars, shown_vars, modal, fetch, staged, signed, taken, approved>>

\* A request that fails ends the send with an error.
SendFetchEnds(k) ==
  /\ send[k].pc \in Asking
  /\ \/ send' = [send EXCEPT ![k] = SendFetched(@)]
     \/ send' = [send EXCEPT ![k].pc = "failed"]
  /\ UNCHANGED <<opened_vars, shown_vars, modal, fetch, staged, signed, taken, approved>>

-----------------------------------------------------------------------------
(* The form and its dialog; the processing modal covers both until it is   *)
(* closed, by a button that is there before the send has ended too.        *)

Free == wallet.id # 0 /\ ~dialog /\ ~modal

\* Typing; a scanned code fills the form only if it parses.
EditForm ==
  /\ Free /\ \E f \in Typed : form' = f
  /\ UNCHANGED <<opened_vars, dialog, nextNonce, nonceStatus, modal, fetch, send, staged, signed, taken, approved>>

RequestSend(f) ==
  /\ Free /\ ValidTo /\ ValidAmount /\ wallet.addr \notin WatchOnly
  /\ nextNonce' = 0 /\ nonceStatus' = "loading" /\ dialog' = TRUE
  /\ AskNonce(f, wallet.addr)
  /\ UNCHANGED <<opened_vars, form, modal, send, staged, signed, taken, approved>>

CancelDialog ==
  /\ dialog /\ dialog' = FALSE
  /\ UNCHANGED <<opened_vars, form, nextNonce, nonceStatus, modal, fetch, send, staged, signed, taken, approved>>

\* What the dialog shows.
Details == [from |-> wallet.addr, form |-> form, nonce |-> IF nonceStatus = "ready" THEN nextNonce ELSE 0,
            ou |-> FeeShown, id |-> wallet.id]

\* Mutant: the nonce is always fetched again.
ConfirmRefetches(k) ==
  /\ dialog /\ dialog' = FALSE
  /\ send[k].pc = "idle" /\ \A j \in SendIds : j < k => send[j].pc # "idle"
  /\ IF ValidTo /\ ValidAmount
       THEN /\ send' = [send EXCEPT ![k] = [pc |-> "fetch", wallet |-> wallet, panel |-> mounted,
                                           form |-> form, nonce |-> 0]]
            /\ approved' = [approved EXCEPT ![k] = Details] /\ modal' = TRUE
       ELSE UNCHANGED <<send, approved, modal>>
  /\ UNCHANGED <<opened_vars, form, nextNonce, nonceStatus, fetch, staged, signed, taken>>

\* handleSend: the form may have been cleared under the dialog; with a nonce in hand it
\* goes straight to sendStandard.
Confirm(k) ==
  /\ dialog /\ dialog' = FALSE
  /\ send[k].pc = "idle" /\ \A j \in SendIds : j < k => send[j].pc # "idle"
  /\ IF ValidTo /\ ValidAmount
       THEN /\ send' = [send EXCEPT ![k] = [pc |-> IF nextNonce # 0 THEN "staged" ELSE "fetch",
                                           wallet |-> wallet, panel |-> mounted,
                                           form |-> form, nonce |-> nextNonce]]
            /\ approved' = [approved EXCEPT ![k] = Details] /\ modal' = TRUE
       ELSE UNCHANGED <<send, approved, modal>>
  /\ UNCHANGED <<opened_vars, form, nextNonce, nonceStatus, fetch, staged, signed, taken>>

StageFetch(k) ==
  /\ send[k].pc = "fetch" /\ send' = [send EXCEPT ![k].pc = "fetching"]
  /\ UNCHANGED <<opened_vars, shown_vars, modal, fetch, staged, signed, taken, approved>>

\* sendStandard: refusals first, then the nonce unless it was given.
SendStandard(k) ==
  /\ send[k].pc = "staged"
  /\ send' = [send EXCEPT ![k].pc = CASE send[k].form.to = send[k].wallet.addr -> "failed"
                                      [] send[k].form.to # send[k].wallet.addr /\ send[k].nonce # 0 -> "sign"
                                      [] OTHER -> "signing"]
  /\ UNCHANGED <<opened_vars, shown_vars, modal, fetch, staged, signed, taken, approved>>

SignedTx(s) == [from |-> s.wallet.addr, form |-> s.form, nonce |-> s.nonce,
                ou |-> RecommendedOu(RawAmount[s.form.amount]), id |-> s.wallet.id]

\* signTransaction, with the key bytes as they are now; `late' remembers (for a property)
\* that the wallet had been locked.  The request is on its way.
SignTransaction(k) ==
  /\ send[k].pc = "sign" /\ send' = [send EXCEPT ![k].pc = "posted"]
  /\ signed' = [signed EXCEPT ![k] = [tx |-> SignedTx(send[k]),
                                      valid |-> send[k].wallet.id \notin wiped,
                                      late |-> send[k].wallet.id \in closed]]
  /\ UNCHANGED <<opened_vars, shown_vars, modal, fetch, staged, taken, approved>>

Accepts(s) == s.valid /\ s.tx.nonce > staged[s.tx.from] /\ s.tx.nonce <= MaxStaged

\* submitTx: taken or refused by the node, and the answer may be lost on the way.
Submit(k) ==
  LET tx == signed[k].tx
      Ends(pc) == send' = [send EXCEPT ![k].pc = pc]
  IN
  /\ send[k].pc = "posted"
  /\ \/ /\ Accepts(signed[k])
        /\ taken' = [taken EXCEPT ![k] = tx]
        /\ staged' = [staged EXCEPT ![tx.from] = tx.nonce]
        /\ Ends("sent") \/ Ends("failed")
     \/ Ends("failed") /\ UNCHANGED <<staged, taken>>   \* refused, or never arrived
  /\ UNCHANGED <<opened_vars, shown_vars, modal, fetch, signed, approved>>

\* The end of handleSend: success clears the form of its panel, whatever is in it by now.
HandleSendEnds(k) ==
  /\ send[k].pc \in {"sent", "failed"} /\ send' = [send EXCEPT ![k] = [NoSend EXCEPT !.pc = "over"]]
  /\ signed' = [signed EXCEPT ![k] = NoSigned]
  /\ taken' = [taken EXCEPT ![k] = NoTx] /\ approved' = [approved EXCEPT ![k] = NoTx]
  /\ IF send[k].pc = "sent" /\ send[k].panel = mounted
       THEN form' = EmptyForm /\ nextNonce' = 0 /\ nonceStatus' = "loading"
       ELSE UNCHANGED <<form, nextNonce, nonceStatus>>
  /\ UNCHANGED <<opened_vars, dialog, modal, fetch, staged>>

CloseModal ==
  /\ modal /\ modal' = FALSE
  /\ UNCHANGED <<opened_vars, shown_vars, fetch, send, staged, signed, taken, approved>>

-----------------------------------------------------------------------------
(* The wallet around the panel, and other senders of the same accounts.    *)

Unmounted == /\ form' = EmptyForm /\ dialog' = FALSE /\ nextNonce' = 0 /\ nonceStatus' = "loading"
             /\ modal' = FALSE /\ fetch' = [f \in FetchIds |-> "none"]

OpensWallet(a) == opened < MaxWallets /\ opened' = opened + 1 /\ wallet' = [id |-> opened', addr |-> a]

\* A switch keeps the panel mounted: form and fetches survive it, and so do the key
\* bytes of the account before it.
SwitchAccount ==
  /\ Free /\ \E a \in Senders \ {wallet.addr} : OpensWallet(a)
  /\ UNCHANGED <<mounted, wiped, closed, shown_vars, modal, fetch, send, staged, signed, taken, approved>>

\* Mutant: lock forgets the wallet and leaves its key bytes as they are.
WipedNone == wiped

\* lock() zeroes the key bytes in place: a send in progress shares them.
Wiped == wiped \cup {wallet.id}

\* The auto-lock, or the user's: it does not wait for a send.
LockWallet ==
  /\ wallet.id # 0
  /\ wiped' = Wiped /\ closed' = closed \cup {wallet.id}
  /\ wallet' = [id |-> 0, addr |-> "none"] /\ mounted' = 0 /\ Unmounted
  /\ UNCHANGED <<opened, send, staged, signed, taken, approved>>

UnlockWallet ==
  /\ wallet.id = 0 /\ \E a \in Senders : OpensWallet(a)
  /\ mounted' = wallet'.id
  /\ UNCHANGED <<wiped, closed, shown_vars, modal, fetch, send, staged, signed, taken, approved>>

\* A dApp's request, another device or another panel uses a nonce.
OtherSend ==
  /\ \E a \in Senders : staged[a] < MaxStaged /\ staged' = [staged EXCEPT ![a] = @ + 1]
  /\ UNCHANGED <<opened_vars, shown_vars, modal, fetch, send, signed, taken, approved>>

SendProgress(k) == \/ StageFetch(k) \/ SendStandard(k) \/ SendFetchEnds(k)
                   \/ SignTransaction(k) \/ Submit(k) \/ HandleSendEnds(k)

SendNext == \/ (\E k \in SendIds : Confirm(k) \/ SendProgress(k))
            \/ (\E f \in FetchIds : RequestSend(f) \/ DialogFetchEnds(f))
            \/ EditForm \/ CancelDialog \/ CloseModal
            \/ SwitchAccount \/ LockWallet \/ UnlockWallet \/ OtherSend

\* Requests time out, timers fire, and a send in progress is code that runs on.
SendFairness == \A k \in SendIds : WF_send_vars(SendProgress(k))

SendSpec == SendInit /\ [][SendNext]_send_vars /\ SendFairness

-----------------------------------------------------------------------------
SendTypeOK ==
  /\ wallet \in [id : 0..MaxWallets, addr : Senders \cup {"none"}]
  /\ opened \in 1..MaxWallets /\ mounted \in 0..MaxWallets /\ wiped \subseteq closed
  /\ form \in Typed \cup {EmptyForm} /\ dialog \in BOOLEAN
  /\ nextNonce \in 0..(MaxStaged + 1) /\ nonceStatus \in {"loading", "error", "ready"}
  /\ fetch \in [FetchIds -> Senders \cup {"none"}]
  /\ modal \in BOOLEAN /\ (wallet.id = 0) = (mounted = 0)
  /\ \A k \in SendIds : send[k].pc \in {"idle", "fetch", "fetching", "staged", "signing", "sign",
                                       "posted", "sent", "failed", "over"}
  /\ staged \in [Senders -> 0..MaxStaged]

\* A transaction the node takes is the one the user approved: from the account on the
\* screen, to that recipient, for that amount and, when the dialog showed a nonce, under
\* that nonce - however late its fetches landed, and whichever other send, form or account
\* came between (SendForm.tsx "the shown value is what signs").
TakenWasApproved ==
  \A k \in SendIds : taken[k] # NoTx =>
    /\ approved[k].from = taken[k].from /\ approved[k].form = taken[k].form
    /\ approved[k].nonce # 0 => approved[k].nonce = taken[k].nonce

\* What is signed after lock() carries no valid signature, because the wallet a send
\* captured is wiped under it: of a wallet that was open when it was locked, the node takes
\* nothing but what had been signed, and was on its way, before.
LockStopsUnsigned == \A k \in SendIds : taken[k] # NoTx => ~signed[k].late

\* A confirmed send ends, with success or an error the user can close.
SendSettles == \A k \in SendIds : send[k].pc # "idle" ~> send[k].pc = "over"

\* Not so: nothing is taken while the wallet is locked.  What is on its way stays valid;
\* and the account that a switch replaced keeps its keys, and a send of it, its modal
\* closed, goes on.
LockStopsAll ==
  [][\A k \in SendIds : taken'[k] \notin {taken[k], NoTx} => wallet.id # 0]_send_vars

\* Not so: the fee the dialog shows is the fee that is signed ("Amounts and fees are shown
\* before you sign", SendForm.tsx).
FeeShownIsFeeSigned == \A k \in SendIds : taken[k] # NoTx => approved[k].ou = taken[k].ou
=============================================================================
