--------------------------- MODULE ConnectPromise ---------------------------
(***************************************************************************)
(* ConnectHandler keeps DappPromise: the mapping of its requests to the    *)
(* calls of the promise.                                                   *)
(***************************************************************************)
EXTENDS ConnectHandler

Signs(r) == rq[r].kind \in SignKinds

\* What the answer of a request that is done amounts to.
AnswerOf(r) ==
  IF rq[r].result = "ok" /\ Signs(r) THEN "signed"
  ELSE IF rq[r].result = "ok" /\ rq[r].kind = "connect" THEN "connected"
  ELSE "over"

StateOf(r) ==
  IF rq[r].pc = "done" THEN AnswerOf(r)
  ELSE IF rq[r].pc = "approve" /\ Signs(r) THEN "shown"
  ELSE IF rq[r].pc = "granted" THEN "approved"
  ELSE "waiting"

CallOf(r) ==
  [state |-> StateOf(r),
   by |-> IF StateOf(r) \in {"shown", "approved", "signed"} THEN rq[r].signer ELSE None]

Promise == INSTANCE DappPromise WITH
  Calls     <- Reqs,
  CallerOf  <- [r \in Reqs |-> OriginOf[PortOf[r]]],
  NoAccount <- None,
  call      <- [r \in Reqs |-> CallOf(r)],
  shared    <- consented

\* Whatever the handlers of the popup and of the main window do, in whatever order their
\* awaits return, a dApp is connected or has something shown only with the user's consent,
\* what is signed was shown first and approved then, with the keys it was shown with, and
\* an answer is final (onConnect, onSign).
WalletPromise == Promise!PromiseSpec
=============================================================================
