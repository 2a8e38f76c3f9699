---------------------------- MODULE DappPromise ----------------------------
(***************************************************************************)
(* What the wallet promises the user about the calls of dApps, whatever    *)
(* windows, handlers, sessions and PINs it takes to keep it: a dApp is     *)
(* told of a connection, or has something shown for signing, only if the   *)
(* user shared an account with it; nothing is signed that was not shown    *)
(* first and approved then, with the keys it was shown with; and every     *)
(* call is answered at most once.                                          *)
(***************************************************************************)
CONSTANTS
  Calls,     \* what dApps ask for
  Origins,   \* dApps
  Accounts,  \* accounts of the wallet
  CallerOf,  \* the origin of each call
  NoAccount

VARIABLES
  call,    \* how far a call is, and from when it is shown on, who is to sign
  shared   \* <<origin, account>> pairs the user agreed to share

promise_vars == <<call, shared>>

States == {"waiting", "shown", "approved", "signed", "connected", "over"}
Ended  == {"signed", "connected", "over"}

\* The user shares an account with the dApp of the call.
HasAccess(c) == \E a \in Accounts : <<CallerOf[c], a>> \in shared

PromiseTypeOK ==
  /\ call \in [Calls -> [state : States, by : Accounts \cup {NoAccount}]]
  /\ shared \subseteq Origins \X Accounts

PromiseInit ==
  /\ call = [c \in Calls |-> [state |-> "waiting", by |-> NoAccount]]
  /\ shared = {}

Share(o, a) == shared' = shared \cup {<<o, a>>} /\ UNCHANGED call

Connect(c) ==
  /\ call[c].state = "waiting" /\ HasAccess(c)
  /\ call' = [call EXCEPT ![c].state = "connected"] /\ UNCHANGED shared

Show(c, a) ==
  /\ call[c].state = "waiting" /\ HasAccess(c)
  /\ call' = [call EXCEPT ![c] = [state |-> "shown", by |-> a]] /\ UNCHANGED shared

Approve(c) ==
  /\ call[c].state = "shown"
  /\ call' = [call EXCEPT ![c].state = "approved"] /\ UNCHANGED shared

Sign(c) ==
  /\ call[c].state = "approved"
  /\ call' = [call EXCEPT ![c].state = "signed"] /\ UNCHANGED shared

\* Calls end without a signature or a connection: refused, failed, another kind of answer,
\* or their window is gone.
End(C) ==
  /\ \A c \in C : call[c].state \notin Ended
  /\ call' = [c \in Calls |-> IF c \in C THEN [state |-> "over", by |-> NoAccount] ELSE call[c]]
  /\ UNCHANGED shared

PromiseNext ==
  \/ \E o \in Origins, a \in Accounts : Share(o, a)
  \/ \E c \in Calls : Connect(c) \/ Approve(c) \/ Sign(c)
  \/ \E c \in Calls, a \in Accounts : Show(c, a)
  \/ \E C \in SUBSET Calls : End(C)

PromiseSpec == PromiseInit /\ [][PromiseNext]_promise_vars
=============================================================================
