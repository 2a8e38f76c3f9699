---------------------------- MODULE ContractForms ----------------------------
(***************************************************************************)
(* The Smart Contracts page (components/ContractPanel.tsx), the Contract   *)
(* Viewer (components/ContractViewer.tsx) and the reading of an ABI        *)
(* (tx/abi.ts): forms over requests that nothing cancels.                  *)
(*                                                                         *)
(* The page asks the node for the methods of a contract while its fields   *)
(* may change, and sends a deployment or a call whose processing modal the *)
(* user may dismiss to begin another.  The node is external: it compiles,  *)
(* counts the nonces it has staged, and takes a transaction above them.    *)
(***************************************************************************)
EXTENDS Filters, SequencesExt

CONSTANTS
  AbiOf,          \* [addresses of contracts -> the program info of the node]
  CtAccounts,     \* accounts of the wallet
  CtMethods,      \* what may be typed as a method
  MaxCtTurns,     \* bound: changes of the form
  MaxCtJobs       \* bound: transactions begun

VARIABLES
  ctWallet,   \* the account of the store, which a render captures
  ct,         \* the fields of the page, its confirmation and its result
  ctFetch,    \* the request for methods under way, with what its closure captured
  ctJob,      \* [id -> a deployment or a call under way, with what it captured]
  ctModal,    \* panelLoading.loading
  ctStaged,   \* node: [account -> the highest nonce staged]
  ctTurns,    \* bound
  view,       \* the viewer: its fields and what it shows
  reading     \* the viewer's requests under way

ct_vars == <<ctWallet, ct, ctFetch, ctJob, ctModal, ctStaged, ctTurns, view, reading>>

CtJobIds == 1..MaxCtJobs
CtAddrs  == DOMAIN AbiOf
CtNoFetch == [addr |-> "none", method |-> ""]
CtNoJob   == [pc |-> "none"]
\* The form as it opens; "{}" of the arguments parses.
BlankForm == [tab |-> "deploy", addr |-> "", method |-> "", list |-> <<>>, loading |-> FALSE,
              source |-> TRUE, deployOu |-> "", args |-> TRUE, amount |-> "0", callOu |-> "",
              pin |-> FALSE, confirm |-> "none", result |-> 0]
BlankView == [addr |-> "", info |-> "none", methods |-> <<>>, storage |-> "none", loading |-> FALSE]

CtInit ==
  /\ ctWallet \in CtAccounts /\ ct = BlankForm /\ ctFetch = CtNoFetch
  /\ ctJob = [j \in CtJobIds |-> CtNoJob] /\ ctModal = FALSE
  /\ ctStaged = [a \in CtAccounts |-> 0] /\ ctTurns = 0
  /\ view = BlankView /\ reading = {}

Turn == ctTurns < MaxCtTurns /\ ctTurns' = ctTurns + 1

-----------------------------------------------------------------------------
(* extractMethods.  A program info has lists under some of the seven keys  *)
(* tried, each of names and of entries with none ("").                     *)

AbiKeys == <<"methods", "exports", "entrypoints", "abi.methods", "abi.exports", "abi.entrypoints", "abi">>

Once(names) == Filtered(names, {i \in DOMAIN names : \A j \in 1..(i - 1) : names[j] # names[i]})
Named(list) == Filtered(list, {i \in DOMAIN list : list[i] # ""})

ExtractMethods(info) ==
  LET useful == {i \in DOMAIN AbiKeys : AbiKeys[i] \in DOMAIN info /\ Named(info[AbiKeys[i]]) # <<>>}
      first  == CHOOSE i \in useful : \A j \in useful : i <= j
  IN  IF useful = {} THEN <<>> ELSE Once(Named(info[AbiKeys[first]]))

\* The list offered has no name twice (each is the key of its option) and no empty
\* one, and is empty only when no list of the info has a name in it.
MethodsAreOptions ==
  \A a \in CtAddrs :
    LET list == ExtractMethods(AbiOf[a])
    IN  /\ IsInjective(list) /\ "" \notin ToSet(list)
        /\ list = <<>> => \A k \in DOMAIN AbiOf[a] : ToSet(AbiOf[a][k]) \subseteq {""}

ASSUME ContractsAssumption ==
  /\ {MaxCtTurns, MaxCtJobs} \subseteq Nat /\ CtAddrs \cap {"none", "junk", ""} = {}
  /\ \A a \in CtAddrs : /\ DOMAIN AbiOf[a] \subseteq ToSet(AbiKeys)
                         /\ \A k \in DOMAIN AbiOf[a] : AbiOf[a][k] \in Seq(STRING)

-----------------------------------------------------------------------------
(* The fields.  A dialog or the modal covers them.                         *)

Uncovered == ct.confirm = "none" /\ ~ctModal

FormStill == UNCHANGED <<ctWallet, ctFetch, ctJob, ctModal, ctStaged, view, reading>>

\* A new address forgets the methods listed; a request for them goes on.
TypeAddress(a) ==
  /\ Uncovered /\ Turn /\ ct.tab = "call"
  /\ ct' = [ct EXCEPT !.addr = a, !.list = <<>>] /\ FormStill

\* Typed, chosen of the list, or emptied by "Custom...".
TypeMethod(m) ==
  /\ Uncovered /\ Turn /\ ct.tab = "call" /\ m \in CtMethods \cup ToSet(ct.list) \cup {""}
  /\ ct' = [ct EXCEPT !.method = m] /\ FormStill

SwitchTab ==
  /\ Uncovered /\ Turn
  /\ \E t \in {"deploy", "call"} : ct' = [ct EXCEPT !.tab = t]
  /\ FormStill

\* Whether the source has more than blanks, the PIN (shared with the other tab; it
\* need only not be empty) and the fee, of digits or empty for the default.
TypeDeploy ==
  /\ Uncovered /\ Turn /\ ct.tab = "deploy"
  /\ \E source, pin \in BOOLEAN, ou \in {"", "7"} :
       ct' = [ct EXCEPT !.source = source, !.pin = pin, !.deployOu = ou]
  /\ FormStill

\* Whether the arguments parse, and the amount does.
TypeCall ==
  /\ Uncovered /\ Turn /\ ct.tab = "call"
  /\ \E args, pin \in BOOLEAN, ou \in {"", "7"}, amount \in {"0", "junk"} :
       ct' = [ct EXCEPT !.args = args, !.pin = pin, !.callOu = ou, !.amount = amount]
  /\ FormStill

SwitchWallet(a) ==
  /\ Uncovered /\ Turn /\ a # ctWallet /\ ctWallet' = a
  /\ UNCHANGED <<ct, ctFetch, ctJob, ctModal, ctStaged, view, reading>>

-----------------------------------------------------------------------------
(* fetchMethods: its button is disabled while a request is under way.      *)

FetchMethods ==
  /\ Uncovered /\ ct.tab = "call" /\ ct.addr \in CtAddrs /\ ~ct.loading
  /\ Turn
  /\ ct' = [ct EXCEPT !.loading = TRUE, !.list = <<>>]
  /\ ctFetch' = [addr |-> ct.addr, method |-> ct.method]
  /\ UNCHANGED <<ctWallet, ctJob, ctModal, ctStaged, view, reading>>

\* The answer is listed whatever the address is by now, and its first method
\* replaces what was typed since, if nothing was when the button was pressed.
MethodsArrive ==
  /\ ctFetch # CtNoFetch
  /\ LET list == ExtractMethods(AbiOf[ctFetch.addr])
     IN  \/ ct' = [ct EXCEPT !.loading = FALSE]                       \* the request failed
         \/ ct' = [ct EXCEPT !.loading = FALSE, !.list = list,
                             !.method = IF list # <<>> /\ ctFetch.method = "" THEN Head(list) ELSE @]
  /\ ctFetch' = CtNoFetch
  /\ UNCHANGED <<ctWallet, ctJob, ctModal, ctStaged, ctTurns, view, reading>>

-----------------------------------------------------------------------------
(* Sending a deployment or a call.                                         *)

\* The early returns of requestDeploy and requestCall, and of their handlers.
MaySend(kind) ==
  /\ ct.pin
  /\ kind = "call" => ct.addr \in CtAddrs /\ ct.method # ""
  /\ kind = "deploy" => ct.source

\* deployFee, callFee
Fee(kind) == LET typed == IF kind = "deploy" THEN ct.deployOu ELSE ct.callOu
             IN  IF typed # "" THEN typed ELSE IF kind = "deploy" THEN "5000000" ELSE "100000"

CtRequest(kind) ==
  /\ Uncovered /\ ct.tab = kind /\ MaySend(kind)
  /\ ct' = [ct EXCEPT !.confirm = kind]
  /\ UNCHANGED <<ctTurns>> /\ FormStill

CancelRequest ==
  /\ ct.confirm # "none" /\ ct' = [ct EXCEPT !.confirm = "none"]
  /\ UNCHANGED <<ctTurns>> /\ FormStill

\* The dialog's button: the handler captures the fields of the last render.
CtConfirm(j) ==
  /\ ct.confirm # "none" /\ ctJob[j] = CtNoJob /\ \A k \in CtJobIds : k < j => ctJob[k] # CtNoJob
  /\ ct' = [ct EXCEPT !.confirm = "none"]
  /\ IF MaySend(ct.confirm)
       THEN /\ ctModal' = TRUE
            /\ ctJob' = [ctJob EXCEPT ![j] =
                 [pc |-> IF ct.confirm = "deploy" THEN "compile" ELSE "parse", kind |-> ct.confirm,
                  from |-> ctWallet, to |-> IF ct.confirm = "deploy" THEN ctWallet ELSE ct.addr,
                  method |-> ct.method, args |-> ct.args,
                  amount |-> IF ct.confirm = "deploy" THEN "0" ELSE ct.amount,
                  ou |-> Fee(ct.confirm), nonce |-> 0]]
       ELSE UNCHANGED <<ctJob, ctModal>>
  /\ UNCHANGED <<ctWallet, ctFetch, ctStaged, ctTurns, view, reading>>

\* Whatever ends the handler hides the modal, its own or a later one's.
Ends(j, result) ==
  /\ ctJob' = [ctJob EXCEPT ![j].pc = "over"] /\ ctModal' = FALSE
  /\ ct' = IF result = 0 THEN ct ELSE [ct EXCEPT !.result = result]

JobStep(j) ==
  /\ ctJob[j] # CtNoJob /\ ctJob[j].pc # "over"
  /\ LET J == ctJob[j]
         Goes(pc) == ctJob' = [ctJob EXCEPT ![j].pc = pc] /\ UNCHANGED <<ct, ctModal, ctStaged>>
         Throws   == Ends(j, 0) /\ UNCHANGED ctStaged
     IN  \/ J.pc = "compile" /\ (Goes("nonce") \/ Throws)
         \/ J.pc = "parse" /\ IF J.args /\ J.amount # "junk" THEN Goes("nonce") ELSE Throws
         \* fetchNextNonce, and the signature with the key captured
         \/ /\ J.pc = "nonce"
            /\ \/ /\ ctJob' = [ctJob EXCEPT ![j].pc = "submit", ![j].nonce = ctStaged[J.from] + 1]
                  /\ UNCHANGED <<ct, ctModal, ctStaged>>
               \/ Throws
         \* The node takes it, refuses it, or takes it and its answer is lost.
         \/ /\ J.pc = "submit"
            /\ \/ /\ J.nonce > ctStaged[J.from]
                  /\ ctStaged' = [ctStaged EXCEPT ![J.from] = J.nonce]
                  /\ Ends(j, j) \/ Ends(j, 0)
               \/ Throws
  /\ UNCHANGED <<ctWallet, ctFetch, ctTurns, view, reading>>

\* The modal is dismissed, and the work goes on.
DismissModal ==
  /\ ctModal /\ ctModal' = FALSE
  /\ UNCHANGED <<ctWallet, ct, ctFetch, ctJob, ctStaged, ctTurns, view, reading>>

-----------------------------------------------------------------------------
(* The viewer.  Enter looks up again while a request is under way.         *)

ViewStill == UNCHANGED <<ctWallet, ct, ctFetch, ctJob, ctModal, ctStaged>>

TypeViewAddress(a) ==
  /\ Turn /\ view' = [view EXCEPT !.addr = a]
  /\ UNCHANGED reading /\ ViewStill

Lookup ==
  /\ view.addr \in CtAddrs /\ Turn
  /\ view' = [view EXCEPT !.info = "none", !.storage = "none", !.methods = <<>>, !.loading = TRUE]
  /\ reading' = reading \cup {[what |-> "info", addr |-> view.addr, turn |-> ctTurns]}
  /\ ViewStill

LookupStorage ==
  /\ view.addr \in CtAddrs /\ Turn
  /\ view' = [view EXCEPT !.storage = "none", !.loading = TRUE]
  /\ reading' = reading \cup {[what |-> "storage", addr |-> view.addr, turn |-> ctTurns]}
  /\ ViewStill

\* The last to land is what is shown, and each of them closes the modal.
LookupEnds(r) ==
  /\ LET closed == [view EXCEPT !.loading = FALSE]
     IN  \/ view' = closed                                            \* the request failed
         \/ view' = IF r.what = "storage" THEN [closed EXCEPT !.storage = r.addr]
                    ELSE [closed EXCEPT !.info = r.addr, !.methods = ExtractMethods(AbiOf[r.addr])]
  /\ reading' = reading \ {r}
  /\ UNCHANGED ctTurns /\ ViewStill

DismissLookup ==
  /\ view.loading /\ view' = [view EXCEPT !.loading = FALSE]
  /\ UNCHANGED <<ctTurns, reading>> /\ ViewStill

-----------------------------------------------------------------------------
CtNext ==
  \/ \E a \in CtAddrs \cup {"junk"} : TypeAddress(a) \/ TypeViewAddress(a)
  \/ \E m \in CtMethods \cup {""} \cup ToSet(ct.list) : TypeMethod(m)
  \/ SwitchTab \/ TypeDeploy \/ TypeCall \/ (\E a \in CtAccounts : SwitchWallet(a))
  \/ FetchMethods \/ MethodsArrive
  \/ (\E k \in {"deploy", "call"} : CtRequest(k)) \/ CancelRequest
  \/ (\E j \in CtJobIds : CtConfirm(j) \/ JobStep(j)) \/ DismissModal
  \/ Lookup \/ LookupStorage \/ (\E r \in reading : LookupEnds(r)) \/ DismissLookup

CtSpec == CtInit /\ [][CtNext]_ct_vars

-----------------------------------------------------------------------------
\* No transaction is submitted but what a form that could be sent held when its
\* dialog was confirmed: a call has a contract and a method, a deployment goes to
\* the wallet's own address with no amount, and its nonce was read for the account
\* that signs it.
CtTypeOK ==
  /\ ctWallet \in CtAccounts /\ ct.confirm \in {"none", "deploy", "call"}
  /\ ct.loading = (ctFetch # CtNoFetch)
  /\ view.methods # <<>> => view.info # "none"
  /\ \A j \in CtJobIds : ctJob[j] = CtNoJob \/
       /\ ctJob[j].from \in CtAccounts
       /\ ctJob[j].kind = "call" =>
            /\ ctJob[j].to \in CtAddrs /\ ctJob[j].method # ""
            /\ ctJob[j].pc \in {"nonce", "submit"} => ctJob[j].args /\ ctJob[j].amount # "junk"
       /\ ctJob[j].kind = "deploy" => ctJob[j].to = ctJob[j].from /\ ctJob[j].amount = "0"
       /\ ctJob[j].pc = "submit" => ctJob[j].nonce > 0

\* Not so: the methods listed are those of the contract in the address field.  A
\* request for another contract's is not cancelled by a new address.
MethodsOfThisContract ==
  ct.list # <<>> => ct.addr \in CtAddrs /\ ct.list = ExtractMethods(AbiOf[ct.addr])
=============================================================================
