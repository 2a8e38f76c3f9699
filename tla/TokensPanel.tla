----------------------------- MODULE TokensPanel -----------------------------
(***************************************************************************)
(* The tokens panel (TokensView) and its transfer form: what it shows, and *)
(* the asynchronous work that writes to it.  Every piece of work keeps the *)
(* account and client it was started with; the screen moves on when the    *)
(* user switches network.  `shown' is the set of networks whose rows are   *)
(* on the screen.                                                          *)
(***************************************************************************)
EXTENDS Naturals

CONSTANTS
  Nets,      \* pairs of account and endpoint the panel is shown for
  HoldsIn,   \* those with rows in the cache
  MaxPanelTasks \* bound: pieces of work started

ASSUME PanelAssumption == HoldsIn \subseteq Nets /\ MaxPanelTasks \in Nat

PanelTasks == 1..MaxPanelTasks
NoTask == 0
Phases == {"idle", "refreshing", "discovering"}

VARIABLES
  net,      \* the network of the wallet store
  shown,    \* the networks of the rows in `holdings'
  phase,    \* what the panel says it is doing
  abortRef, \* the sweep that the Cancel button reaches
  busy,     \* a refresh or add by the user is under way
  due,      \* networks whose last complete sweep is out of date
  work,     \* the pieces of work
  transferForm \* the transfer form

panel_vars == <<net, shown, phase, abortRef, busy, due, work, transferForm>>

UpsertHolding(n) == shown' = shown \cup {n}
Overdue(n) == n \in due

Ended == [kind |-> "ended", net |-> CHOOSE n \in Nets : TRUE, cancelled |-> FALSE, aborted |-> FALSE]
NotStarted == [Ended EXCEPT !.kind = "not started"]
Fresh == {t \in PanelTasks : work[t] = NotStarted}
NextTask == CHOOSE t \in Fresh : TRUE
Work(kind) == [kind |-> kind, net |-> net, cancelled |-> FALSE, aborted |-> FALSE]

Becomes(t, kind) == work' = [work EXCEPT ![t].kind = kind]
Finished(t) == work' = [work EXCEPT ![t] = Ended]

-----------------------------------------------------------------------------
(* The effect on (wallet, rpc): cached rows, a refresh, a sweep when due.  *)

\* The clean-up of the effect before cancels it and its sweep; the list is emptied.
SwitchNetwork ==
  /\ Fresh # {} /\ transferForm = "closed"
  /\ \E n \in Nets \ {net} :
       /\ net' = n
       /\ work' = [t \in PanelTasks |->
            IF t = NextTask THEN [Work("cached") EXCEPT !.net = n]
            ELSE IF work[t].kind \in {"cached", "refreshing", "due", "sweep"}
            THEN [work[t] EXCEPT !.cancelled = TRUE, !.aborted = TRUE]
            ELSE work[t]]
  /\ shown' = {}
  /\ UNCHANGED <<phase, abortRef, busy, due, transferForm>>

LoadCached(t) ==
  /\ work[t].kind = "cached"
  /\ \/ /\ work[t].cancelled /\ Finished(t) /\ UNCHANGED <<shown, phase>>
     \/ /\ ~work[t].cancelled /\ work[t].net \in HoldsIn
        /\ shown' = {work[t].net} /\ phase' = "refreshing" /\ Becomes(t, "refreshing")
     \/ /\ ~work[t].cancelled /\ work[t].net \notin HoldsIn
        /\ shown' = {} /\ Becomes(t, "due") /\ UNCHANGED phase
  /\ UNCHANGED <<net, abortRef, busy, due, transferForm>>

\* Refreshed, or kept when that failed.
RefreshedCached(t) ==
  /\ work[t].kind = "refreshing"
  /\ \/ /\ work[t].cancelled /\ Finished(t) /\ UNCHANGED phase
     \/ /\ ~work[t].cancelled /\ Becomes(t, "due")
        /\ phase' = IF abortRef = NoTask THEN "idle" ELSE phase
  /\ UNCHANGED <<net, shown, abortRef, busy, due, transferForm>>

IsDiscoveryDue(t) ==
  /\ work[t].kind = "due"
  /\ IF ~work[t].cancelled /\ Overdue(work[t].net)
     THEN abortRef' = t /\ phase' = "discovering" /\ Becomes(t, "sweep")
     ELSE Finished(t) /\ UNCHANGED <<abortRef, phase>>
  /\ UNCHANGED <<net, shown, busy, due, transferForm>>

-----------------------------------------------------------------------------
(* A sweep, of the effect or by the button.                                *)

\* onHit; a cancelled sweep still reports what it was about to write.
SweepHit(t) ==
  /\ work[t].kind \in {"sweep", "rescan"}
  /\ UpsertHolding(work[t].net)
  /\ UNCHANGED <<net, phase, abortRef, busy, due, work, transferForm>>

\* Only the newest sweep owns the phase.
SweepOver(t) ==
  IF abortRef = t THEN abortRef' = NoTask /\ phase' = "idle" ELSE UNCHANGED <<abortRef, phase>>

SweepDone(t) ==
  /\ work[t].kind \in {"sweep", "rescan"}
  /\ shown' = {work[t].net}
  /\ due' \in {due, due \ {work[t].net}}
  /\ Finished(t) /\ SweepOver(t)
  /\ UNCHANGED <<net, busy, transferForm>>

\* Cancelled, or the contract list could not be had.
SweepStops(t) ==
  /\ work[t].kind \in {"sweep", "rescan"}
  /\ Finished(t) /\ SweepOver(t)
  /\ UNCHANGED <<net, shown, busy, due, transferForm>>

DoRescan ==
  /\ Fresh # {} /\ transferForm = "closed" /\ ~busy /\ phase = "idle"
  /\ work' = [work EXCEPT ![NextTask] = Work("rescan")]
  /\ abortRef' = NextTask /\ phase' = "discovering"
  /\ UNCHANGED <<net, shown, busy, due, transferForm>>

CancelSweep ==
  /\ phase = "discovering" /\ abortRef # NoTask /\ ~work[abortRef].aborted
  /\ work' = [work EXCEPT ![abortRef].aborted = TRUE]
  /\ UNCHANGED <<net, shown, phase, abortRef, busy, due, transferForm>>

-----------------------------------------------------------------------------
(* The user's refresh, add and remove: each replaces the list at its end.  *)

Refreshing == busy' = TRUE /\ work' = [work EXCEPT ![NextTask] = Work("refresh")]

DoRefresh ==
  /\ Fresh # {} /\ transferForm = "closed" /\ ~busy /\ phase = "idle" /\ shown # {}
  /\ Refreshing
  /\ UNCHANGED <<net, shown, phase, abortRef, due, transferForm>>

DoAdd ==
  /\ Fresh # {} /\ transferForm = "closed" /\ ~busy /\ phase # "discovering"
  /\ busy' = TRUE /\ work' = [work EXCEPT ![NextTask] = Work("add")]
  /\ UNCHANGED <<net, shown, phase, abortRef, due, transferForm>>

DoRemove ==
  /\ Fresh # {} /\ transferForm = "closed" /\ shown # {}
  /\ work' = [work EXCEPT ![NextTask] = Work("remove")]
  /\ UNCHANGED <<net, shown, phase, abortRef, busy, due, transferForm>>

UserWorkEnds(t) ==
  /\ work[t].kind \in {"refresh", "add", "remove"}
  /\ shown' \in {{work[t].net} \cap HoldsIn, shown}
  /\ busy' = (busy /\ work[t].kind = "remove")
  /\ Finished(t)
  /\ UNCHANGED <<net, phase, abortRef, due, transferForm>>

-----------------------------------------------------------------------------
(* TokenTransferForm and transferToken.                                    *)

\* Only a token of known scale and a positive balance has the button.
OpenForm ==
  /\ transferForm = "closed" /\ shown # {} /\ transferForm' = "compose"
  /\ UNCHANGED <<net, shown, phase, abortRef, busy, due, work>>

\* Continue, with a valid recipient other than oneself and an amount in (0, balance].
Continue ==
  /\ transferForm = "compose" /\ transferForm' = "confirm"
  /\ UNCHANGED <<net, shown, phase, abortRef, busy, due, work>>

\* Close, the overlay or Back.
CloseForm ==
  /\ \/ transferForm \in {"compose", "confirm"} /\ transferForm' = "closed"
     \/ transferForm = "confirm" /\ transferForm' = "compose"
  /\ UNCHANGED <<net, shown, phase, abortRef, busy, due, work>>

SubmitTransfer ==
  /\ transferForm = "confirm" /\ transferForm' = "balance"
  /\ UNCHANGED <<net, shown, phase, abortRef, busy, due, work>>

\* The calls of transferToken in their order, each the next or, where it throws, back to
\* the form.  The balance that cannot be read and the fee that cannot be read are no
\* obstacle.
TransferStep ==
  /\ \/ transferForm = "balance" /\ transferForm' \in {"nonce", "compose"}
     \/ transferForm = "nonce"   /\ transferForm' \in {"fee", "compose"}
     \/ transferForm = "fee"     /\ transferForm' = "submit"
     \/ transferForm = "submit"  /\ transferForm' = "compose"
  /\ UNCHANGED <<net, shown, phase, abortRef, busy, due, work>>

\* onDone closes the form and refreshes, whatever the panel is doing.
TransferTaken ==
  /\ transferForm = "submit" /\ transferForm' = "closed"
  /\ IF Fresh # {} THEN Refreshing ELSE UNCHANGED <<busy, work>>
  /\ UNCHANGED <<net, shown, phase, abortRef, due>>

-----------------------------------------------------------------------------
PanelInit ==
  /\ net \in Nets /\ shown = {} /\ phase = "idle" /\ abortRef = NoTask /\ busy = FALSE
  /\ due \in SUBSET Nets /\ transferForm = "closed"
  /\ work = [t \in PanelTasks |-> IF t = 1 THEN [Ended EXCEPT !.kind = "cached", !.net = net] ELSE NotStarted]

WorkStep(t) ==
  LoadCached(t) \/ RefreshedCached(t) \/ IsDiscoveryDue(t) \/ SweepDone(t) \/ SweepStops(t) \/ UserWorkEnds(t)

PanelNext ==
  \/ SwitchNetwork \/ DoRescan \/ CancelSweep \/ DoRefresh \/ DoAdd \/ DoRemove
  \/ OpenForm \/ Continue \/ CloseForm \/ SubmitTransfer \/ TransferStep \/ TransferTaken
  \/ \E t \in PanelTasks : WorkStep(t) \/ SweepHit(t)

\* Every request of a piece of work ends by itself or by its time-out.
PanelFairness == \A t \in PanelTasks : WF_panel_vars(WorkStep(t))

PanelSpec == PanelInit /\ [][PanelNext]_panel_vars /\ PanelFairness

-----------------------------------------------------------------------------
PanelTypeOK ==
  /\ net \in Nets /\ shown \subseteq Nets /\ phase \in Phases
  /\ abortRef \in PanelTasks \cup {NoTask} /\ busy \in BOOLEAN /\ due \subseteq Nets
  /\ \A t \in PanelTasks : work[t].net \in Nets

\* The sweep of the network on the screen is the one that Cancel reaches and the phase
\* shows, for as long as it runs: an older sweep that ends meanwhile takes neither away.
\* And a panel that says it searches has a sweep whose end will clear it.
PhaseFollowsSweep ==
  /\ \A t \in PanelTasks : work[t].kind = "sweep" /\ ~work[t].aborted => abortRef = t /\ phase = "discovering"
  /\ phase = "discovering" => abortRef # NoTask /\ work[abortRef].kind \in {"sweep", "rescan"}

\* The rows on the screen are those of the network it names.  (Not so: a refresh, an add,
\* or a sweep by the button that was started before a switch still writes to the list.)
ListOfThisNetwork == shown \subseteq {net}

\* The panel is idle again once its work is over.  (Not so: the refresh that a switch
\* cancels leaves `refreshing' behind, and a network without rows and with a recent
\* sweep does not clear it: the search button stays disabled.)
PanelSettles == <>[](phase = "idle")
=============================================================================
