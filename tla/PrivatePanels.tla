---------------------------- MODULE PrivatePanels ----------------------------
(***************************************************************************)
(* The Private Balance and Stealth Send pages (components/EncryptPanel.tsx *)
(* and StealthPanel.tsx) with the modal that follows a job through its     *)
(* steps (components/ProcessingModal.tsx, utils/progress.ts), and the      *)
(* one-time keys of a stealth send (stealth/index.ts, crypto/x25519.ts).   *)
(*                                                                         *)
(* PrivateBalance has what an operation does with the bridge and between   *)
(* devices; here are the fields, what a page shows, and when it says that  *)
(* an operation succeeded or failed.  Done and Close of the modal are      *)
(* there while the work goes on, and what is done in it lands in whatever  *)
(* the modal and the page show by then.  The node is external: it refuses  *)
(* a transaction, or takes it and may lose the answer.                     *)
(***************************************************************************)
EXTENDS Filters, SequencesExt

CONSTANTS
  PpWallets,    \* accounts of the wallet
  PpStart,      \* [account -> its public balance at the start]
  PpMost,       \* the largest of them
  PpFee,        \* recommendedOu of encrypt, decrypt and stealth
  MaxPpReads,   \* bound: refreshes begun
  MaxPpTurns,   \* bound: pages opened, accounts switched, refreshes pressed and operations begun
  MaxPpJobs,    \* bound: operations begun
  PpTyped,      \* bound: what may be typed as an amount
  PpFollowed,   \* bound: the steps that the actions go through, of those listed
  StealthTexts  \* amounts of stealth sends, digit by digit

ASSUME PpAssumption ==
  /\ {PpMost, PpFee} \subseteq Nat /\ PpStart \in [PpWallets -> 0..PpMost]
  /\ {"nonce", "submit"} \subseteq PpFollowed /\ StealthTexts \subseteq Seq(STRING)

VARIABLES
  ppWallet,   \* the account of the store
  pp,         \* the page shown and its fields
  ppReads,    \* [id -> a refresh under way, and for which account and page it runs]
  ppJob,      \* [id -> an operation confirmed, with what its closure captured]
  ppModal,    \* useProcessingModal: whether it is open, its stages and its outcome
  ppChain,    \* node: the balances of each account
  ppTurns     \* bound

pp_vars == <<ppWallet, pp, ppReads, ppJob, ppModal, ppChain, ppTurns>>

-----------------------------------------------------------------------------
(* The keys of a stealth send.  A point is the set of the secrets whose    *)
(* product it is over the base point, as in x25519; a hash is a record of  *)
(* what was hashed.                                                        *)

EdPublic(seed)        == [ed |-> seed]
ed25519SkToX25519(seed) == seed
ed25519PkToX25519(pk) == {pk.ed}
scalarMultBase(sk)    == {sk}
scalarMult(sk, point) == {sk} \cup point
ecdhSharedSecret(sk, point) == [sha256 |-> scalarMult(sk, point)]

computeStealthTag(shared)  == [sha256 |-> <<shared, "octra-stealth-tag">>]
computeClaimSecret(shared) == [sha512 |-> <<shared, "octra-claim-secret">>]
computeClaimPub(secret)    == scalarMultBase(secret)
deriveAmountKey(shared)    == [sha256 |-> <<shared, "octra-stealth-amt">>]

BlindingLength == 32
encryptStealthAmount(shared, amount) ==
  LET blinding == [i \in 1..BlindingLength |-> "r"]
  IN  [key |-> deriveAmountKey(shared), plaintext |-> amount \o blinding]

\* AES-GCM refuses another key; the last 32 bytes are the blinding factor.
decryptStealthAmount(shared, payload) ==
  LET end == Len(payload.plaintext) - BlindingLength
  IN  IF payload.key = deriveAmountKey(shared) THEN SubSeq(payload.plaintext, 1, end) ELSE <<"refused">>

prepareStealthSend(eph, recipientPk, amount) ==
  LET shared == ecdhSharedSecret(eph, ed25519PkToX25519(recipientPk))
  IN  [ephemeralPubkey |-> scalarMultBase(eph), stealthTag |-> computeStealthTag(shared),
       claimPub |-> computeClaimPub(computeClaimSecret(shared)),
       amountPayload |-> encryptStealthAmount(shared, amount)]

\* Whoever has the seed of the recipient finds the tag, reads the amount and has the
\* secret of the claim key from what is sent; nobody else does, the sender's signing key
\* included, and two sends to one recipient share no tag.
StealthIsForTheRecipient ==
  \A to, other \in PpWallets, text \in StealthTexts :
    LET sent == prepareStealthSend("eph", EdPublic(to), text)
        Found(seed) == ecdhSharedSecret(ed25519SkToX25519(seed), sent.ephemeralPubkey)
    IN  /\ computeStealthTag(Found(to)) = sent.stealthTag
        /\ decryptStealthAmount(Found(to), sent.amountPayload) = text
        /\ computeClaimPub(computeClaimSecret(Found(to))) = sent.claimPub
        /\ other # to => /\ computeStealthTag(Found(other)) # sent.stealthTag
                         /\ decryptStealthAmount(Found(other), sent.amountPayload) = <<"refused">>
        /\ prepareStealthSend("eph2", EdPublic(to), text).stealthTag # sent.stealthTag

-----------------------------------------------------------------------------
(* The steps: what a panel lists before the work starts, and the begin     *)
(* calls that the work makes.                                              *)

STEALTH_PREPARE_STEPS == <<"convert-key", "ephemeral", "ecdh", "stealth-tag", "claim-key", "encrypt-amount">>
STEALTH_STEPS == <<"validate", "fetch-pubkey">> \o STEALTH_PREPARE_STEPS
                 \o <<"nonce", "payload", "sign", "submit">>
READ_STEPS == <<"pvac-init", "pvac-register", "read-balance", "decrypt-balance", "nonce">>
ENCRYPT_STEPS == READ_STEPS \o <<"fhe-encrypt", "commit", "zero-proof", "payload", "sign", "submit", "cache">>
DECRYPT_STEPS == READ_STEPS \o <<"fhe-encrypt", "commit", "ct-sub", "commit-balance", "zero-proof",
                   "range-proof", "verify", "payload", "sign", "submit", "cache">>

AllSteps(kind) == CASE kind = "encrypt" -> ENCRYPT_STEPS
                     [] kind = "decrypt" -> DECRYPT_STEPS
                     [] OTHER -> STEALTH_STEPS

Submitted == <<"sign", "submit", "cache">>    \* submitTx
BegunSteps(kind) ==
  CASE kind = "encrypt" -> READ_STEPS \o <<"fhe-encrypt", "commit", "zero-proof", "payload">> \o Submitted
    [] kind = "decrypt" -> READ_STEPS \o <<"fhe-encrypt", "commit", "ct-sub", "commit-balance",
                             "zero-proof", "range-proof", "verify", "payload">> \o Submitted
    [] OTHER -> <<"validate", "fetch-pubkey", "convert-key", "ephemeral", "ecdh", "stealth-tag",
                  "claim-key", "encrypt-amount", "nonce", "payload", "sign", "submit">>

\* The ids match the progress calls, in execution order (stealth/index.ts
\* STEALTH_PREPARE_STEPS, api/encrypt.ts ENCRYPT_STEPS).
ASSUME PpStepsAreListed ==
  \A kind \in {"encrypt", "decrypt", "stealth"} : BegunSteps(kind) = AllSteps(kind)

\* The steps that call fail before they throw; the others leave their stage active.
Reports(kind) ==
  IF kind = "stealth" THEN {"validate", "fetch-pubkey", "submit"}
  ELSE {"pvac-init", "pvac-register", "read-balance", "decrypt-balance", "nonce", "submit"}
       \cup IF kind = "decrypt" THEN {"ct-sub", "verify"} ELSE {}

-----------------------------------------------------------------------------
Followed(list)    == Filtered(list, {i \in DOMAIN list : list[i] \in PpFollowed})
Steps(kind)       == Followed(BegunSteps(kind))
ListedSteps(kind) == Followed(AllSteps(kind))

PpReadIds == 1..MaxPpReads
PpJobIds  == 1..MaxPpJobs
PpNoRead  == [of |-> "none"]
Unknown   == <<>>     \* null; a balance read is <<n>>
\* parseAmountRaw of the amounts that it reads.
PpRaw   == [text \in {ToString(n) : n \in 0..PpMost} |-> CHOOSE n \in 0..PpMost : ToString(n) = text]

\* A page as it opens: each opening is a component of its own, which `mount' tells apart.
PpBlank(page, mount) ==
  [page |-> page, mount |-> mount, mode |-> "encrypt", amount |-> "", public |-> Unknown,
   encrypted |-> Unknown, of |-> "none", loading |-> FALSE, to |-> "", pin |-> FALSE,
   confirm |-> FALSE, result |-> FALSE]
PpNoJob == [pc |-> "none"]
PpShut  == [open |-> FALSE, of |-> 0, kind |-> "encrypt", stages |-> <<>>, error |-> FALSE, success |-> FALSE]

\* One of the pages has just been opened.
PpInit ==
  /\ ppWallet \in PpWallets
  /\ \/ /\ pp = [PpBlank("private", 0) EXCEPT !.loading = TRUE]
        /\ ppReads = [r \in PpReadIds |-> IF r = 1 THEN [of |-> ppWallet, mount |-> 0] ELSE PpNoRead]
     \/ pp = PpBlank("stealth", 0) /\ ppReads = [r \in PpReadIds |-> PpNoRead]
  /\ ppJob = [j \in PpJobIds |-> PpNoJob] /\ ppModal = PpShut
  /\ ppChain = [a \in PpWallets |-> [pub |-> PpStart[a], enc |-> 0]] /\ ppTurns = 0

PpTurn == ppTurns < MaxPpTurns /\ ppTurns' = ppTurns + 1
PpUncovered == ~ppModal.open /\ ~pp.confirm

\* refresh: setLoadingBal, then both reads.
RefreshBalances(a, page) ==
  \E r \in PpReadIds :
    /\ ppReads[r] = PpNoRead /\ \A q \in PpReadIds : q < r => ppReads[q] # PpNoRead
    /\ ppReads' = [ppReads EXCEPT ![r] = [of |-> a, mount |-> page.mount]]
    /\ pp' = [page EXCEPT !.loading = TRUE]

OpenPage(page) ==
  /\ PpUncovered /\ page # pp.page /\ PpTurn
  /\ LET blank == PpBlank(page, ppTurns') IN
     IF page = "private" THEN RefreshBalances(ppWallet, blank) ELSE pp' = blank /\ UNCHANGED ppReads
  /\ UNCHANGED <<ppWallet, ppJob, ppModal, ppChain>>

\* The page stays mounted; the effect of wallet and rpc refreshes it.
SwitchPpWallet(a) ==
  /\ PpUncovered /\ a # ppWallet /\ PpTurn /\ ppWallet' = a
  /\ IF pp.page = "private" THEN RefreshBalances(a, pp) ELSE UNCHANGED <<pp, ppReads>>
  /\ UNCHANGED <<ppJob, ppModal, ppChain>>

PressRefresh ==
  /\ PpUncovered /\ pp.page = "private" /\ ~pp.loading /\ PpTurn /\ RefreshBalances(ppWallet, pp)
  /\ UNCHANGED <<ppWallet, ppJob, ppModal, ppChain>>

\* Both balances are there, that of a failing getEncryptedBalanceRaw being zero, or the
\* public one failed: the page is told, if it is still mounted.
ReadLands(r) ==
  LET q     == ppReads[r]
      told  == [pp EXCEPT !.loading = FALSE]
      shown(enc) == [told EXCEPT !.public = <<ppChain[q.of].pub>>, !.encrypted = <<enc>>, !.of = q.of]
  IN
  /\ q.of \in PpWallets
  /\ IF q.mount = pp.mount
       THEN pp' = told \/ \E enc \in {0, ppChain[q.of].enc} : pp' = shown(enc)
       ELSE UNCHANGED pp
  /\ ppReads' = [ppReads EXCEPT ![r] = [of |-> "over"]]
  /\ UNCHANGED <<ppWallet, ppJob, ppModal, ppChain, ppTurns>>

\* setMode of a tab clears the amount and the result.
ChooseMode(mode) ==
  /\ PpUncovered /\ pp.page = "private"
  /\ pp' = [pp EXCEPT !.mode = mode, !.amount = "", !.result = FALSE]
  /\ UNCHANGED <<ppWallet, ppReads, ppJob, ppModal, ppChain, ppTurns>>

TypeAmount(text) ==
  /\ PpUncovered /\ pp.page # "other" /\ pp' = [pp EXCEPT !.amount = text]
  /\ UNCHANGED <<ppWallet, ppReads, ppJob, ppModal, ppChain, ppTurns>>

\* The source balance, less the fee that encrypting takes from it too, at least zero.
maxAmount ==
  LET source == IF pp.mode = "encrypt" THEN pp.public ELSE pp.encrypted
      fee    == IF pp.mode = "encrypt" THEN PpFee ELSE 0
      max    == IF source[1] > fee THEN source[1] - fee ELSE 0
  IN
  /\ PpUncovered /\ pp.page = "private" /\ source # Unknown
  /\ pp' = [pp EXCEPT !.amount = ToString(max)]
  /\ UNCHANGED <<ppWallet, ppReads, ppJob, ppModal, ppChain, ppTurns>>

TypeRecipient(to) ==
  /\ PpUncovered /\ pp.page = "stealth" /\ pp' = [pp EXCEPT !.to = to, !.pin = TRUE]
  /\ UNCHANGED <<ppWallet, ppReads, ppJob, ppModal, ppChain, ppTurns>>

PpValidAmount == pp.amount \in DOMAIN PpRaw /\ PpRaw[pp.amount] > 0

\* What both handlers of a page ask: the stealth send leaves reading the amount to the
\* work, and only wants some PIN.
FormHolds == IF pp.page = "private" THEN PpValidAmount
             ELSE pp.page = "stealth" /\ pp.to \in PpWallets /\ pp.amount # "" /\ pp.pin

\* requestSubmit, requestSend.  (That the bridge is ready is a guard in PrivateBalance.)
RequestJob ==
  /\ PpUncovered /\ FormHolds
  /\ pp' = [pp EXCEPT !.confirm = TRUE]
  /\ UNCHANGED <<ppWallet, ppReads, ppJob, ppModal, ppChain, ppTurns>>

\* Escape, the overlay or Cancel of ConfirmDialog.
CancelConfirm ==
  /\ pp.confirm /\ pp' = [pp EXCEPT !.confirm = FALSE]
  /\ UNCHANGED <<ppWallet, ppReads, ppJob, ppModal, ppChain, ppTurns>>

-----------------------------------------------------------------------------
(* handleSubmit, handleSend: the modal lists the steps, and the work ends  *)
(* or fails each in turn.  (begin, which shows a step as active, is part   *)
(* of the action that ends it.)                                            *)

\* An operation that ended under the dialog has emptied the form.
ConfirmNothing ==
  /\ pp.confirm /\ ~FormHolds /\ pp' = [pp EXCEPT !.confirm = FALSE]
  /\ UNCHANGED <<ppWallet, ppReads, ppJob, ppModal, ppChain, ppTurns>>

ConfirmJob(j) ==
  LET kind == IF pp.page = "stealth" THEN "stealth" ELSE pp.mode IN
  /\ pp.confirm /\ FormHolds /\ PpTurn /\ ppJob[j] = PpNoJob /\ \A i \in PpJobIds : i < j => ppJob[i] # PpNoJob
  /\ pp' = [pp EXCEPT !.confirm = FALSE, !.result = FALSE]
  /\ ppModal' = [PpShut EXCEPT !.open = TRUE, !.of = j, !.kind = kind,
                               !.stages = [i \in DOMAIN ListedSteps(kind) |-> "pending"]]
  /\ ppJob' = [ppJob EXCEPT ![j] = [pc |-> "works", step |-> 0, kind |-> kind, of |-> ppWallet,
                                   amount |-> pp.amount, mount |-> pp.mount, after |-> <<>>, sent |-> FALSE]]
  /\ UNCHANGED <<ppWallet, ppReads, ppChain>>

\* updateStage: the stage with that id, in the list there is by now.
UpdateStage(id, status) ==
  [ppModal EXCEPT !.stages = [i \in DOMAIN @ |-> IF ListedSteps(ppModal.kind)[i] = id THEN status ELSE @[i]]]

\* The step that the job is about to do.
PpStep(j) == Steps(ppJob[j].kind)[ppJob[j].step + 1]
PpWorks(j) == ppJob[j].pc = "works" /\ ppJob[j].step < Len(Steps(ppJob[j].kind))
JobRaw(j) == IF ppJob[j].amount \in DOMAIN PpRaw THEN PpRaw[ppJob[j].amount] ELSE 0

\* The balances after the operation: the fee is of the public one, and a stealth send too.
PpAfter(kind, c, n) ==
  CASE kind = "encrypt" -> [pub |-> c.pub - n - PpFee, enc |-> c.enc + n]
    [] kind = "decrypt" -> [pub |-> (c.pub + n) - PpFee, enc |-> c.enc - n]
    [] OTHER -> [pub |-> c.pub - n - PpFee, enc |-> c.enc]
PpCovers(kind, c, n) ==
  c.pub >= PpFee + (IF kind = "decrypt" THEN 0 ELSE n) /\ (kind = "decrypt" => c.enc >= n)

\* What the work of a step wants: a stealth send reads its amount first, encrypting and
\* decrypting look whether the balances cover it.
StepHolds(j) ==
  LET q == ppJob[j] IN
  /\ PpStep(j) = "validate" => JobRaw(j) > 0
  /\ PpStep(j) = "nonce" /\ q.kind # "stealth" => PpCovers(q.kind, ppChain[q.of], JobRaw(j))

\* The transaction of the job, and whether the node takes it.
NodeTakes(j) ==
  LET q == ppJob[j] IN
  /\ PpCovers(q.kind, ppChain[q.of], JobRaw(j))
  /\ ppChain' = [ppChain EXCEPT ![q.of] = PpAfter(q.kind, @, JobRaw(j))]

\* done; the balances after the operation are worked out from those read with the nonce.
StepEnds(j) ==
  LET q == ppJob[j] IN
  /\ PpWorks(j) /\ StepHolds(j)
  /\ IF PpStep(j) = "submit" THEN NodeTakes(j) ELSE UNCHANGED ppChain
  /\ ppJob' = [ppJob EXCEPT ![j].step = @ + 1, ![j].sent = @ \/ PpStep(j) = "submit",
       ![j].after = IF PpStep(j) = "nonce" THEN <<PpAfter(q.kind, ppChain[q.of], JobRaw(j))>> ELSE @]
  /\ ppModal' = UpdateStage(PpStep(j), "done")
  /\ UNCHANGED <<ppWallet, pp, ppReads, ppTurns>>

\* fail, or a throw that no fail announces, which leaves the stage active; at "submit" the
\* node may have taken the transaction all the same, and at "cache" it has.
StepFails(j) ==
  /\ PpWorks(j)
  /\ \/ UNCHANGED ppChain /\ ppJob' = [ppJob EXCEPT ![j].pc = "failed"]
     \/ /\ PpStep(j) = "submit" /\ NodeTakes(j)
        /\ ppJob' = [ppJob EXCEPT ![j].pc = "failed", ![j].sent = TRUE]
  /\ \E status \in {"active"} \cup {s \in {"error"} : PpStep(j) \in Reports(ppJob[j].kind)} :
       ppModal' = [UpdateStage(PpStep(j), status) EXCEPT !.error = TRUE]
  /\ UNCHANGED <<ppWallet, pp, ppReads, ppTurns>>

\* setSuccess; the fields that are emptied and the balances that are shown are those of
\* the page as it is by now, if it is still mounted.
JobSucceeds(j) ==
  LET q     == ppJob[j]
      done  == [pp EXCEPT !.result = TRUE, !.amount = ""]
      there == IF q.kind = "stealth" THEN [done EXCEPT !.to = "", !.pin = FALSE]
               ELSE [done EXCEPT !.public = <<q.after[1].pub>>, !.encrypted = <<q.after[1].enc>>, !.of = q.of]
  IN
  /\ q.pc = "works" /\ q.step = Len(Steps(q.kind))
  /\ ppJob' = [ppJob EXCEPT ![j].pc = "succeeded"] /\ ppModal' = [ppModal EXCEPT !.success = TRUE]
  /\ pp' = IF pp.mount = q.mount THEN there ELSE pp
  /\ UNCHANGED <<ppWallet, ppReads, ppChain, ppTurns>>

\* Done and Close, at any time; Escape, the overlay and the cross once it has an outcome.
ClosePpModal ==
  /\ ppModal.open /\ ppModal' = [ppModal EXCEPT !.open = FALSE, !.error = FALSE, !.success = FALSE]
  /\ UNCHANGED <<ppWallet, pp, ppReads, ppJob, ppChain, ppTurns>>

PpNext ==
  \/ (\E page \in {"private", "stealth", "other"} : OpenPage(page))
  \/ (\E a \in PpWallets : SwitchPpWallet(a) \/ TypeRecipient(a))
  \/ PressRefresh \/ (\E r \in PpReadIds : ReadLands(r))
  \/ (\E mode \in {"encrypt", "decrypt"} : ChooseMode(mode)) \/ (\E x \in PpTyped : TypeAmount(x))
  \/ maxAmount \/ RequestJob \/ CancelConfirm \/ ConfirmNothing \/ ClosePpModal
  \/ (\E j \in PpJobIds : ConfirmJob(j) \/ StepEnds(j) \/ StepFails(j) \/ JobSucceeds(j))

PpSpec == PpInit /\ [][PpNext]_pp_vars

-----------------------------------------------------------------------------
\* An operation that has succeeded was taken by the node, no balance goes below zero, and
\* what encrypts or decrypts has an amount.
PpTypeOK ==
  /\ ppWallet \in PpWallets /\ pp.page \in {"private", "stealth", "other"}
  /\ \A a \in PpWallets : ppChain[a].pub \in Nat /\ ppChain[a].enc \in Nat
  /\ \A j \in PpJobIds : ppJob[j] = PpNoJob \/
       /\ ppJob[j].kind # "stealth" => JobRaw(j) > 0
       /\ ppJob[j].pc = "succeeded" => ppJob[j].sent

\* Not so: the balances shown are those of the account shown.  A refresh that a switch
\* overtakes, or an operation of the account before it, still lands.
BalancesOfThisAccount ==
  pp.page = "private" /\ ~pp.loading => pp.of \in {"none", ppWallet}

\* Not so: an operation that is shown as failed has moved nothing (EncryptPanel "Encrypt
\* failed").  The local history is written after the node took it, and may throw.
FailureMeansUnsent == \A j \in PpJobIds : ppJob[j].pc = "failed" => ~ppJob[j].sent

\* Not so: the modal says Success of the operation it shows.
SuccessIsOfThisJob == ppModal.open /\ ppModal.success => ppJob[ppModal.of].pc = "succeeded"
=============================================================================
