---------------------------- MODULE UnlockScreen ----------------------------
(***************************************************************************)
(* Where PINs are typed: the unlock screen (UnlockWallet), the PIN dialog  *)
(* (PinModal) that is shown over the open wallet, and the limiter of       *)
(* wallet/pin.ts that both ask first.  A locked wallet shows the screen,   *)
(* an open one may show the dialog.  Time passes in ticks.                 *)
(*                                                                         *)
(* The dialog takes a PIN for accepted if its caller does not throw.  Of   *)
(* its callers in this page, the account switcher throws; the header's     *)
(* AccountPicker and the ConnectApprovalHost catch the error themselves.   *)
(***************************************************************************)
EXTENDS Naturals

CONSTANTS
  MaxAttempts, \* MAX_ATTEMPTS
  Lockout,     \* LOCKOUT_MS, in ticks
  MaxClock     \* bound: ticks

ASSUME PinAssumption == MaxAttempts \in Nat \ {0} /\ Lockout \in Nat \ {0} /\ MaxClock \in Nat

VARIABLES
  clock,
  attemptLog, \* [who asks -> count and lastAttempt], count 0 when there is no entry
  burst,      \* history: attempts let through since the last pause of Lockout or success,
              \* up to MaxAttempts + 1, and when the last one was
  unpaced,    \* history: who has taken a wrong PIN of the burst for a success
  page,       \* "locked", "open" or "create"
  saved,      \* what the screen knows: "unknown", "some" or "none", and whether it could not read
  probing,
  unlocking,  \* handleUnlock is under way
  passkeyBusy,\* handlePasskeyUnlock is under way
  pinModal,   \* "closed", "open" or "busy"
  swallows,   \* its caller catches the error of a wrong PIN
  strays      \* attempts a screen made that has gone, still under way

limit_vars == <<attemptLog, burst, unpaced>>
screen_vars == <<page, saved, probing, unlocking, passkeyBusy, pinModal, swallows, strays>>
pin_vars == <<clock, limit_vars, screen_vars>>

Askers == {"unlock", "pin-modal"}
NoAttempts == [count |-> 0, last |-> 0]

-----------------------------------------------------------------------------
(* recordPinAttempt                                                        *)

Since(who) == clock - attemptLog[who].last
LockedOut(who) == attemptLog[who].count >= MaxAttempts /\ Since(who) < Lockout

\* Mutant: the count starts again when the lockout is not yet over.
CountedEarly(who) ==
  IF attemptLog[who].count = 0 \/ Since(who) + 1 >= Lockout THEN 1 ELSE attemptLog[who].count + 1

\* A pause longer than the lockout starts a new count; one that is exactly as long does not.
Counted(who) ==
  IF attemptLog[who].count = 0 \/ Since(who) > Lockout THEN 1 ELSE attemptLog[who].count + 1

RecordPinAttempt(who) ==
  /\ ~LockedOut(who)
  /\ attemptLog' = [attemptLog EXCEPT ![who] = [count |-> Counted(who), last |-> clock]]
  /\ LET paused == clock - burst[who].last >= Lockout
         n == IF paused THEN 1 ELSE burst[who].count + 1
     IN /\ burst' = [burst EXCEPT ![who] =
                      [count |-> IF n > MaxAttempts THEN MaxAttempts + 1 ELSE n, last |-> clock]]
        /\ unpaced' = IF paused THEN unpaced \ {who} ELSE unpaced

\* resetPinAttempts
NoCount(who) == attemptLog' = [attemptLog EXCEPT ![who] = NoAttempts]

\* The same after a PIN that was right.
ResetPinAttempts(who) ==
  NoCount(who) /\ burst' = [burst EXCEPT ![who] = NoAttempts] /\ unpaced' = unpaced \ {who}

-----------------------------------------------------------------------------
(* The unlock screen.                                                      *)

\* What could not be read is not known to be missing.
ProbeEnds ==
  /\ probing /\ probing' = FALSE
  /\ saved' \in {[what |-> "some", failed |-> FALSE], [what |-> "none", failed |-> FALSE],
                 [what |-> "unknown", failed |-> TRUE]}
  /\ UNCHANGED <<clock, limit_vars, page, unlocking, passkeyBusy, pinModal, swallows, strays>>

\* handleRetryProbe
RetryProbe ==
  /\ page = "locked" /\ saved.failed /\ ~probing /\ probing' = TRUE
  /\ UNCHANGED <<clock, limit_vars, page, saved, unlocking, passkeyBusy, pinModal, swallows, strays>>

\* handleUnlock, up to the key derivation; a second Enter while it runs does nothing.
HandleUnlock ==
  /\ page = "locked" /\ ~unlocking
  /\ RecordPinAttempt("unlock") /\ unlocking' = TRUE
  /\ UNCHANGED <<clock, page, saved, probing, passkeyBusy, pinModal, swallows, strays>>

\* The store has a wallet: the screen goes, what it was doing goes on.
WalletOpens == page' = "open" /\ pinModal' = "closed"

\* The PIN was right, wherever the page is by then.
PinOpens ==
  /\ unlocking /\ unlocking' = FALSE
  /\ WalletOpens /\ ResetPinAttempts("unlock")
  /\ UNCHANGED <<clock, saved, probing, passkeyBusy, strays, swallows>>

PinFails ==
  /\ unlocking /\ unlocking' = FALSE
  /\ UNCHANGED <<clock, limit_vars, page, saved, probing, passkeyBusy, pinModal, swallows, strays>>

\* handlePasskeyUnlock is not offered while a PIN is checked; the PIN is, while it runs.
HandlePasskeyUnlock ==
  /\ page = "locked" /\ ~passkeyBusy /\ ~unlocking /\ passkeyBusy' = TRUE
  /\ UNCHANGED <<clock, limit_vars, page, saved, probing, unlocking, pinModal, swallows, strays>>

PasskeyOpens ==
  /\ passkeyBusy /\ passkeyBusy' = FALSE
  /\ WalletOpens /\ ResetPinAttempts("unlock")
  /\ UNCHANGED <<clock, saved, probing, unlocking, strays, swallows>>

PasskeyFails ==
  /\ passkeyBusy /\ passkeyBusy' = FALSE
  /\ UNCHANGED <<clock, limit_vars, page, saved, probing, unlocking, pinModal, swallows, strays>>

CreateInstead ==
  /\ page = "locked" /\ ~unlocking /\ page' = "create"
  /\ UNCHANGED <<clock, limit_vars, saved, probing, unlocking, passkeyBusy, pinModal, swallows, strays>>

\* Back from creating, or a lock: the screen is mounted and reads the saved wallets.
ShowUnlock ==
  /\ page # "locked" /\ page' = "locked" /\ pinModal' = "closed"
  /\ saved' = [what |-> "unknown", failed |-> FALSE] /\ probing' = TRUE
  /\ strays' = strays \cup {w \in {"pin", "passkey"} : IF w = "pin" THEN unlocking ELSE passkeyBusy}
  /\ unlocking' = FALSE /\ passkeyBusy' = FALSE
  /\ UNCHANGED <<clock, limit_vars, swallows>>

\* It may still open the wallet, although the screen it belonged to has gone.
StrayEnds(w) ==
  /\ w \in strays /\ strays' = strays \ {w}
  /\ \/ WalletOpens /\ ResetPinAttempts("unlock")
     \/ UNCHANGED <<limit_vars, page, pinModal>>
  /\ UNCHANGED <<clock, saved, probing, unlocking, passkeyBusy, swallows>>

-----------------------------------------------------------------------------
(* The PIN dialog.                                                         *)

\* The account switcher opens it, or a caller that swallows.
OpenPinModal ==
  /\ page = "open" /\ pinModal = "closed" /\ pinModal' = "open" /\ swallows' \in BOOLEAN
  /\ UNCHANGED <<clock, limit_vars, page, saved, probing, unlocking, passkeyBusy, strays>>

SubmitPin ==
  /\ pinModal = "open" /\ RecordPinAttempt("pin-modal") /\ pinModal' = "busy"
  /\ UNCHANGED <<clock, page, saved, probing, unlocking, passkeyBusy, strays, swallows>>

PinAccepted ==
  /\ pinModal = "busy" /\ pinModal' = "closed" /\ ResetPinAttempts("pin-modal")
  /\ UNCHANGED <<clock, page, saved, probing, unlocking, passkeyBusy, strays, swallows>>

\* A wrong PIN.  Where the caller swallows it, the dialog has no error to show and starts its
\* count again as after a success (PinModal.tsx:73-75).
PinRefused ==
  /\ pinModal = "busy" /\ pinModal' = "open"
  /\ \/ ~swallows /\ UNCHANGED limit_vars
     \/ swallows /\ NoCount("pin-modal") /\ unpaced' = unpaced \cup {"pin-modal"} /\ UNCHANGED burst
  /\ UNCHANGED <<clock, page, saved, probing, unlocking, passkeyBusy, swallows, strays>>

\* Cancel, Escape and the backdrop wait for a submit.
CancelPinModal ==
  /\ pinModal = "open" /\ pinModal' = "closed"
  /\ UNCHANGED <<clock, limit_vars, page, saved, probing, unlocking, passkeyBusy, strays, swallows>>

PinTick == clock < MaxClock /\ clock' = clock + 1 /\ UNCHANGED <<limit_vars, screen_vars>>

-----------------------------------------------------------------------------
PinInit ==
  /\ clock = 0 /\ attemptLog = [w \in Askers |-> NoAttempts]
  /\ burst = [w \in Askers |-> NoAttempts] /\ unpaced = {} /\ swallows = FALSE
  /\ page = "locked" /\ saved = [what |-> "unknown", failed |-> FALSE] /\ probing = TRUE
  /\ unlocking = FALSE /\ passkeyBusy = FALSE /\ pinModal = "closed" /\ strays = {}

PinNext ==
  \/ ProbeEnds \/ RetryProbe \/ HandleUnlock \/ PinOpens \/ PinFails
  \/ HandlePasskeyUnlock \/ PasskeyOpens \/ PasskeyFails \/ CreateInstead \/ ShowUnlock
  \/ \E w \in strays : StrayEnds(w)
  \/ OpenPinModal \/ SubmitPin \/ PinAccepted \/ PinRefused \/ CancelPinModal \/ PinTick

PinSpec == PinInit /\ [][PinNext]_pin_vars

-----------------------------------------------------------------------------
PinTypeOK ==
  /\ attemptLog \in [Askers -> [count : 0..(MaxAttempts + MaxClock), last : 0..MaxClock]]
  /\ burst \in [Askers -> [count : 0..(MaxAttempts + 1), last : 0..MaxClock]] /\ unpaced \subseteq Askers
  /\ page \in {"locked", "open", "create"} /\ saved.what \in {"unknown", "some", "none"}
  /\ {probing, unlocking, passkeyBusy, swallows} \subseteq BOOLEAN
  /\ pinModal \in {"closed", "open", "busy"}

\* Guesses are paced: more than MaxAttempts are never let through without a success or a
\* pause of Lockout between two of them, however they are spread over the ticks and over
\* strays of a screen that has gone.  That is so on the unlock screen always, and in the
\* dialog unless a wrong PIN was swallowed in the meantime, by whichever of its callers: they
\* share one count.
GuessesArePaced == \A w \in Askers : burst[w].count <= MaxAttempts \/ w \in unpaced

\* The dialog refuses after MaxAttempts as the unlock screen does: the counter is reset `on
\* successful unlock' (wallet/pin.ts:53), and whoever is locked out is refused (:36).
EveryAskerIsPaced == \A w \in Askers : burst[w].count <= MaxAttempts
=============================================================================
