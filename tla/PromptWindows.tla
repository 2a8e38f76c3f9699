---------------------------- MODULE PromptWindows ----------------------------
(***************************************************************************)
(* The two windows a dApp's request is put before the user in: the connect *)
(* popup (connect/ConnectApp.tsx) with its unlock gate, and the prompts of *)
(* the main window (components/ConnectApprovalHost.tsx over                *)
(* connect/host.ts); the prompt both draw (approval-ui/ApprovalPrompt.tsx),*)
(* the PIN they may ask for (components/PinModal.tsx), and the signal that *)
(* it is the user's turn (connect/attention.ts).                           *)
(*                                                                         *)
(* ConnectHandler is what asks; here it is any promise that may be         *)
(* resolved, at most once.  React runs the effects of a change at once:    *)
(* cleanups first.                                                         *)
(***************************************************************************)
EXTENDS Naturals, Sequences, FiniteSets, SequencesExt

CONSTANTS
  PwAccounts,     \* accounts of the wallet, a sequence
  WantedCaps,     \* the capabilities of the address, none for all
  WalletCaps,     \* WALLET_CAPABILITIES
  PinTries,       \* attempts the limiter lets through in a window of time
  MaxAsked,       \* bound: prompts and PIN prompts asked for
  MaxLocks        \* bound: times the wallet is locked, and a limiter's time passes

ASSUME PromptsAssumption == PwAccounts \in Seq(STRING) /\ PwAccounts # <<>>

VARIABLES
  pwOpen,     \* store.isUnlocked, with a wallet
  pwActive,   \* the account of the store's wallet
  pwHello,    \* helloSentRef, and the capabilities announced
  popup,      \* pending, selectedAddr and its mirror, accounts, the balance shown
  parked,     \* unlockResolversRef: requests that wait for the unlock
  hostList,   \* pendingApprovals of the main window
  hostPick,   \* and what was picked in it
  prompt,     \* [id -> what is asked, of which window, and how it ended]
  pinAsked,   \* [window -> the PIN prompt shown, 0 for none]
  trying,     \* [window -> [request -> PINs of it that are being tried]]
  pinBusy,    \* [window -> the PIN dialog is busy]
  limiter,    \* [window -> attempts counted for 'pin-modal'], a module's memory
  title,      \* document.title of the popup
  flash,      \* [signal -> the timer that alternates it, and the title it will put back]
  pwLocks     \* bound

pw_vars == <<pwOpen, pwActive, pwHello, popup, parked, hostList, hostPick, prompt, pinAsked,
             trying, pinBusy, limiter, title, flash, pwLocks>>

PromptIds == 1..MaxAsked
Unasked  == [window |-> "none", kind |-> "none", accounts |-> <<>>, account |-> "none", answer |-> "none"]
NoSignal == [on |-> FALSE, back |-> "Wallet"]

PwInit ==
  /\ pwOpen = FALSE /\ pwActive = Head(PwAccounts) /\ pwHello = [sent |-> FALSE, caps |-> {}]
  /\ popup = [pending |-> 0, selected |-> "none", accounts |-> <<>>, balance |-> "none", reading |-> "none"]
  /\ parked = {} /\ hostList = <<>> /\ hostPick = "none"
  /\ prompt = [p \in PromptIds |-> Unasked]
  /\ pinAsked = [w \in {"popup", "main"} |-> 0]
  /\ trying = [w \in {"popup", "main"} |-> [p \in PromptIds |-> 0]]
  /\ pinBusy = [w \in {"popup", "main"} |-> FALSE] /\ limiter = [w \in {"popup", "main"} |-> 0]
  /\ title = "Wallet" /\ flash = [s \in {"pending", "unlock"} |-> NoSignal]
  /\ pwLocks = 0

NextPrompt(p) == prompt[p] = Unasked /\ \A q \in PromptIds : q < p => prompt[q] # Unasked
PwAnswered(p, a) == prompt' = [prompt EXCEPT ![p].answer = a]
PwWaiting(p)     == prompt[p] # Unasked /\ prompt[p].answer = "none"

\* The PIN dialog of w opens, is drawn again or hears of a decryption: it is not busy,
\* whatever else it left running.
Idled(w) == [pinBusy EXCEPT ![w] = FALSE]

-----------------------------------------------------------------------------
(* requestAttention, by the two effects of the popup.                      *)

\* A change of what the signals in "changed" are for: each that was on is stopped
\* and puts its title back, and each in "wanted" starts and keeps the one it finds.
Attend(changed, wanted) ==
  LET Stop(s, t) == IF s \in changed /\ flash[s].on THEN flash[s].back ELSE t
      stopped    == Stop("unlock", Stop("pending", title))
  IN  /\ title' = stopped
      /\ flash' = [s \in DOMAIN flash |->
           IF s \notin changed THEN flash[s]
           ELSE IF s \in wanted THEN [on |-> TRUE, back |-> stopped] ELSE NoSignal]

\* The timer: the title is the alert, or what it found.
Alternate(s) ==
  /\ flash[s].on /\ title' \in {"Action needed", flash[s].back}
  /\ UNCHANGED <<pwOpen, pwActive, pwHello, popup, parked, hostList, hostPick, prompt, pinAsked, trying,
                 pinBusy,
                 limiter, flash, pwLocks>>

-----------------------------------------------------------------------------
(* The popup's gate.                                                       *)

\* The account shown changes, and its balance is asked of the node.
Selects(a) == IF a = popup.selected THEN popup ELSE [popup EXCEPT !.selected = a, !.reading = a]

\* The wallet is unlocked: the hello goes out the first time, every request
\* parked is let through, and the account shown is the wallet's.
PwUnlock ==
  /\ ~pwOpen /\ pwOpen' = TRUE
  /\ pwHello' = IF pwHello.sent THEN pwHello
                ELSE [sent |-> TRUE, caps |-> IF WantedCaps = {} THEN WalletCaps
                                              ELSE WalletCaps \cap WantedCaps]
  /\ prompt' = [p \in PromptIds |-> IF p \in parked THEN [prompt[p] EXCEPT !.answer = "unlocked"] ELSE prompt[p]]
  /\ parked' = {}
  /\ popup' = Selects(pwActive)
  /\ pinBusy' = Idled("popup")
  /\ Attend({"unlock"}, {})
  /\ UNCHANGED <<pwActive, hostList, hostPick, pinAsked, trying, limiter, pwLocks>>

PwLock ==
  /\ pwOpen /\ pwLocks < MaxLocks
  /\ pwOpen' = FALSE /\ pwLocks' = pwLocks + 1
  /\ UNCHANGED <<pwActive, pwHello, popup, parked, hostList, hostPick, prompt, pinAsked, trying, pinBusy,
                 limiter, title, flash>>

\* requestUnlock, of a request that found the wallet locked.
Park(p) ==
  /\ ~pwOpen /\ pwHello.sent /\ NextPrompt(p)
  /\ prompt' = [prompt EXCEPT ![p] = [Unasked EXCEPT !.window = "popup", !.kind = "unlock"]]
  /\ parked' = parked \cup {p}
  /\ Attend({"unlock"}, {"unlock"})
  /\ UNCHANGED <<pwOpen, pwActive, pwHello, popup, hostList, hostPick, pinAsked, trying, pinBusy, limiter,
                 pwLocks>>

\* listAccounts has answered; when it fails the list stays.
AccountsRead ==
  /\ pwOpen /\ popup' = [popup EXCEPT !.accounts = PwAccounts]
  /\ UNCHANGED <<pwOpen, pwActive, pwHello, parked, hostList, hostPick, prompt, pinAsked, trying, pinBusy,
                 limiter, title, flash, pwLocks>>

\* Another account of the wallet becomes active.
ActiveChanges(a) ==
  /\ pwOpen /\ a # pwActive /\ pwActive' = a
  /\ popup' = Selects(a)
  /\ UNCHANGED <<pwOpen, pwHello, parked, hostList, hostPick, prompt, pinAsked, trying, pinBusy, limiter,
                 title, flash, pwLocks>>

\* The account list of the top bar, which the picker of a prompt replaces.
SelectInPopup(a) ==
  /\ pwOpen /\ a \in ToSet(popup.accounts)
  /\ popup' = Selects(a)
  /\ UNCHANGED <<pwOpen, pwActive, pwHello, parked, hostList, hostPick, prompt, pinAsked, trying, pinBusy,
                 limiter, title, flash, pwLocks>>

\* An answer for another account is dropped, one that is an error leaves what is shown.
BalanceLands ==
  /\ popup.reading # "none"
  /\ popup' \in {[popup EXCEPT !.reading = "none"],
                 [popup EXCEPT !.reading = "none", !.balance = popup.reading],
                 [popup EXCEPT !.reading = "none", !.balance = "none"]}
  /\ UNCHANGED <<pwOpen, pwActive, pwHello, parked, hostList, hostPick, prompt, pinAsked, trying, pinBusy,
                 limiter, title, flash, pwLocks>>

-----------------------------------------------------------------------------
(* Prompts.                                                                *)

PwKinds == {"connect", "sign"}

\* The popup has one place: a later prompt takes it, and the earlier is on no
\* screen any more.  (The wallet may have been locked since its request was let in.)
AskInPopup(p, k) ==
  /\ pwHello.sent /\ NextPrompt(p)
  /\ prompt' = [prompt EXCEPT ![p] =
       [Unasked EXCEPT !.window = "popup", !.kind = k, !.accounts = popup.accounts]]
  /\ popup' = [popup EXCEPT !.pending = p, !.selected =
       IF k = "connect" /\ Len(popup.accounts) > 1 /\ @ = "none" THEN pwActive ELSE @]
  /\ Attend({"pending"}, {"pending"})
  /\ UNCHANGED <<pwOpen, pwActive, pwHello, parked, hostList, hostPick, pinAsked, trying, pinBusy, limiter,
                 pwLocks>>

\* The decision, and the account of a connection approved.
PwEnded(p, yes, account) ==
  [prompt[p] EXCEPT !.answer = IF yes THEN "yes" ELSE "no",
                    !.account = IF yes /\ prompt[p].kind = "connect" THEN account ELSE "none"]

DecideInPopup(yes) ==
  /\ pwOpen /\ popup.pending # 0
  /\ prompt' = [prompt EXCEPT ![popup.pending] = PwEnded(popup.pending, yes, popup.selected)]
  /\ popup' = [popup EXCEPT !.pending = 0]
  /\ Attend({"pending"}, {})
  /\ UNCHANGED <<pwOpen, pwActive, pwHello, parked, hostList, hostPick, pinAsked, trying, pinBusy, limiter,
                 pwLocks>>

\* The main window lists them; one of a connect, new or still there, unpicks the account.
HostUnpicks(list) == IF \E i \in DOMAIN list : prompt'[list[i]].kind = "connect" THEN "none" ELSE hostPick

AskInMain(p, k) ==
  /\ NextPrompt(p)
  /\ prompt' = [prompt EXCEPT ![p] = [Unasked EXCEPT !.window = "main", !.kind = k, !.accounts = PwAccounts]]
  /\ hostList' = Append(hostList, p) /\ hostPick' = HostUnpicks(hostList')
  /\ UNCHANGED <<pwOpen, pwActive, pwHello, popup, parked, pinAsked, trying, pinBusy, limiter, title, flash,
                 pwLocks>>

PickInMain(a) ==
  /\ \E i \in DOMAIN hostList : prompt[hostList[i]].kind = "connect"
  /\ hostPick' = a
  /\ UNCHANGED <<pwOpen, pwActive, pwHello, popup, parked, hostList, prompt, pinAsked, trying, pinBusy,
                 limiter, title, flash, pwLocks>>

\* selected ?? the active account
ShownInMain == IF hostPick # "none" THEN hostPick ELSE pwActive

\* Mutant: the prompt that has waited longest leaves the screen, whichever was answered.
DecideInMainOldest(i, yes) ==
  /\ prompt' = [prompt EXCEPT ![hostList[i]] = PwEnded(hostList[i], yes, ShownInMain)]
  /\ hostList' = RemoveAt(hostList, 1) /\ hostPick' = "none"
  /\ UNCHANGED <<pwOpen, pwActive, pwHello, popup, parked, pinAsked, trying, pinBusy, limiter, title, flash,
                 pwLocks>>

\* resolveApproval, of the i-th prompt on the screen.
DecideInMain(i, yes) ==
  /\ prompt' = [prompt EXCEPT ![hostList[i]] = PwEnded(hostList[i], yes, ShownInMain)]
  /\ hostList' = RemoveAt(hostList, i) /\ hostPick' = "none"
  /\ UNCHANGED <<pwOpen, pwActive, pwHello, popup, parked, pinAsked, trying, pinBusy, limiter, title, flash,
                 pwLocks>>

\* Escape: the handler of every prompt on the screen.
EscapeInMain ==
  /\ hostList # <<>>
  /\ prompt' = [p \in PromptIds |-> IF p \in ToSet(hostList) THEN PwEnded(p, FALSE, "none") ELSE prompt[p]]
  /\ hostList' = <<>> /\ hostPick' = "none"
  /\ UNCHANGED <<pwOpen, pwActive, pwHello, popup, parked, pinAsked, trying, pinBusy, limiter, title, flash,
                 pwLocks>>

-----------------------------------------------------------------------------
(* The PIN of an account that is not the active one.                       *)

\* The place is one; in the main window it is a change of the lists, too.
AskPin(p, w) ==
  /\ NextPrompt(p) /\ (w = "popup" => pwHello.sent)
  /\ prompt' = [prompt EXCEPT ![p] = [Unasked EXCEPT !.window = w, !.kind = "pin"]]
  /\ pinAsked' = [pinAsked EXCEPT ![w] = p]
  /\ pinBusy' = IF pinAsked[w] = 0 THEN Idled(w) ELSE pinBusy
  /\ hostPick' = IF w = "main" THEN HostUnpicks(hostList) ELSE hostPick
  /\ UNCHANGED <<pwOpen, pwActive, pwHello, popup, parked, hostList, trying, limiter, title, flash, pwLocks>>

PinOnScreen(w) == pinAsked[w] # 0 /\ ~pinBusy[w] /\ (w = "popup" => pwOpen)

\* recordPinAttempt, and the decryption begins.
PwSubmitPin(w) ==
  /\ PinOnScreen(w) /\ limiter[w] < PinTries
  /\ limiter' = [limiter EXCEPT ![w] = @ + 1]
  /\ trying' = [trying EXCEPT ![w][pinAsked[w]] = @ + 1] /\ pinBusy' = [pinBusy EXCEPT ![w] = TRUE]
  /\ UNCHANGED <<pwOpen, pwActive, pwHello, popup, parked, hostList, hostPick, prompt, pinAsked, title, flash,
                 pwLocks>>

\* The popup answers the request that the PIN was for, the main window the one that it shows
\* now; both close what they show, which another request may have taken meanwhile.
PinRight(w, p) ==
  LET r == IF w = "popup" THEN p ELSE pinAsked[w] IN
  /\ prompt' = IF r # 0 /\ PwWaiting(r) THEN [prompt EXCEPT ![r].answer = "unlocked"] ELSE prompt
  /\ pinAsked' = [pinAsked EXCEPT ![w] = 0]

\* The decryption ends.  The popup throws on a wrong PIN, which stays counted; the main window
\* catches it, so that the dialog clears the limiter.
PinLands(w, p, right) ==
  /\ trying[w][p] > 0 /\ trying' = [trying EXCEPT ![w][p] = @ - 1] /\ pinBusy' = Idled(w)
  /\ IF right THEN PinRight(w, p) ELSE UNCHANGED <<prompt, pinAsked>>
  /\ limiter' = IF right \/ w = "main" THEN [limiter EXCEPT ![w] = 0] ELSE limiter
  /\ UNCHANGED <<pwOpen, pwActive, pwHello, popup, parked, hostList, hostPick, title, flash, pwLocks>>

CancelPin(w) ==
  /\ PinOnScreen(w) /\ PwAnswered(pinAsked[w], "no") /\ pinAsked' = [pinAsked EXCEPT ![w] = 0]
  /\ UNCHANGED <<pwOpen, pwActive, pwHello, popup, parked, hostList, hostPick, trying, pinBusy, limiter, title,
                 flash, pwLocks>>

\* The limiter's time is over.
TimePasses(w) ==
  /\ limiter[w] = PinTries /\ pwLocks < MaxLocks /\ pwLocks' = pwLocks + 1
  /\ limiter' = [limiter EXCEPT ![w] = 0]
  /\ UNCHANGED <<pwOpen, pwActive, pwHello, popup, parked, hostList, hostPick, prompt, pinAsked, trying,
                 pinBusy, title, flash>>

-----------------------------------------------------------------------------
PwNext ==
  \/ \E s \in DOMAIN flash : Alternate(s)
  \/ PwUnlock \/ PwLock \/ AccountsRead \/ BalanceLands
  \/ \E a \in ToSet(PwAccounts) : ActiveChanges(a) \/ SelectInPopup(a) \/ PickInMain(a)
  \/ \E p \in PromptIds : \/ Park(p)
                           \/ \E k \in PwKinds : AskInPopup(p, k) \/ AskInMain(p, k)
                           \/ \E w \in DOMAIN pinAsked : AskPin(p, w)
  \/ \E yes \in BOOLEAN : DecideInPopup(yes) \/ (\E i \in DOMAIN hostList : DecideInMain(i, yes))
  \/ EscapeInMain
  \/ \E w \in DOMAIN pinAsked : \/ CancelPin(w) \/ PwSubmitPin(w) \/ TimePasses(w)
                               \/ \E p \in PromptIds, right \in BOOLEAN : PinLands(w, p, right)

PwSpec == PwInit /\ [][PwNext]_pw_vars

-----------------------------------------------------------------------------
\* Prompt p is drawn in window w and somebody still waits for its answer.
PwDrawn(p, w, kinds) == PwWaiting(p) /\ prompt[p].window = w /\ prompt[p].kind \in kinds

\* Whatever the two windows draw is a request of that window that still waits for its
\* answer, and is drawn once, so that no click answers what was answered before or what
\* is drawn elsewhere (host.ts splices one list, ConnectApp.tsx has one place).  Requests
\* are held back only by a wallet that is locked and says so.
ScreensAskWhatWaits ==
  /\ \A i \in DOMAIN hostList : PwDrawn(hostList[i], "main", PwKinds)
  /\ \A i, j \in DOMAIN hostList : hostList[i] = hostList[j] => i = j
  /\ popup.pending # 0 => PwDrawn(popup.pending, "popup", PwKinds) /\ flash["pending"].on
  /\ \A w \in DOMAIN pinAsked : pinAsked[w] # 0 => PwDrawn(pinAsked[w], w, {"pin"})
  /\ \A p \in parked : PwDrawn(p, "popup", {"unlock"})
  /\ parked # {} => ~pwOpen /\ flash["unlock"].on

\* A connection is approved for an account of the wallet, in either window, although the
\* popup may not have read the accounts and what was picked may be gone (ConnectApp.tsx
\* "selected", ConnectApprovalHost.tsx "pickerDefault").
ConnectsAnAccount ==
  \A p \in PromptIds : prompt[p].kind = "connect" /\ prompt[p].answer = "yes" =>
                          prompt[p].account \in ToSet(PwAccounts)

PwTypeOK ==
  /\ pwActive \in ToSet(PwAccounts) /\ popup.selected \in ToSet(PwAccounts) \cup {"none"}
  /\ hostPick \in ToSet(PwAccounts) \cup {"none"} /\ parked \subseteq PromptIds
  /\ trying \in [{"popup", "main"} -> [PromptIds -> Nat]] /\ pinBusy \in [{"popup", "main"} -> BOOLEAN]
  /\ ScreensAskWhatWaits /\ ConnectsAnAccount

\* Not so: when nothing waits the title is the window's own.  A prompt asked while
\* the gate's signal alternates keeps the alert as the title to put back.
TitleGivenBack == (\A s \in DOMAIN flash : ~flash[s].on) => title = "Wallet"

\* Not so: a PIN that is asked for and waited for is on the screen.  A second request takes the
\* place of the first, and the end of the first's decryption closes the second's dialog.
PinWaitsOnScreen ==
  \A p \in PromptIds : PwWaiting(p) /\ prompt[p].kind = "pin" => \E w \in DOMAIN pinAsked : pinAsked[w] = p

\* Not so: the balance shown is of the account shown, when none is being read.
BalanceOfShown == popup.reading = "none" /\ popup.balance # "none" => popup.balance = popup.selected
=============================================================================
