----------------------------- MODULE QrScanner -----------------------------
(***************************************************************************)
(* The camera scanner of the Send page (components/QrScanner.tsx).  Its    *)
(* effect runs anew when the scanner is opened and at every render of the  *)
(* page while it is open, as onResult is a new function each time; a run   *)
(* asks for the camera, waits for the picture to play and then looks for a *)
(* code at intervals, and each of those answers may come after the run was *)
(* cleaned up.                                                             *)
(***************************************************************************)
EXTENDS Naturals, Sequences, FiniteSets

CONSTANT MaxScans   \* bound: runs of the effect

ASSUME ScannerAssumption == MaxScans \in Nat

VARIABLES
  scanner,   \* the props, state and refs
  scans,     \* the runs of the effect, the latest last
  lit,       \* runs whose camera is on
  timers,    \* runs whose interval is set
  looking,   \* runs with a frame in the detector
  filled     \* results that were handed to the page

scan_vars == <<scanner, scans, lit, timers, looking, filled>>

Scans == 1..MaxScans
None  == 0

ScanTypeOK ==
  /\ scanner \in [mounted : BOOLEAN, open : BOOLEAN, error : BOOLEAN, video : BOOLEAN, done : BOOLEAN,
                  streamRef : Scans \cup {None}, timerRef : Scans \cup {None}]
  /\ scans \in Seq([pc : {"asking", "playing", "on", "over"}, cancelled : BOOLEAN])
  /\ Len(scans) <= MaxScans
  /\ lit \cup timers \cup looking \subseteq Scans
  /\ filled \in 0..MaxScans

ScanInit ==
  /\ scanner = [mounted |-> TRUE, open |-> FALSE, error |-> FALSE, video |-> FALSE, done |-> FALSE,
                streamRef |-> None, timerRef |-> None]
  /\ scans = <<>> /\ lit = {} /\ timers = {} /\ looking = {} /\ filled = 0

Latest  == Len(scans)
Live    == Latest > 0 /\ ~scans[Latest].cancelled
RefsCleared == [scanner EXCEPT !.streamRef = None, !.timerRef = None]

\* stop: the stream and the timer that the refs hold.
StopCamera == lit' = lit \ {scanner.streamRef} /\ timers' = timers \ {scanner.timerRef}

LatestCancelled == IF Live THEN [scans EXCEPT ![Latest].cancelled = TRUE] ELSE scans
\* A run asks for the camera, or is over at once with an error: no secure context, camera or decoder.
Run(pc) == [pc |-> pc, cancelled |-> FALSE]

-----------------------------------------------------------------------------
(* The component.  The page opens it, renders it again, closes it, leaves. *)

OpenScanner ==
  /\ scanner.mounted /\ ~scanner.open /\ ~Live /\ Latest < MaxScans
  /\ \E pc \in {"asking", "over"} :
       /\ scanner' = [scanner EXCEPT !.open = TRUE, !.error = pc = "over", !.video = ~scanner.error, !.done = FALSE]
       /\ scans' = Append(scans, Run(pc))
  /\ UNCHANGED <<lit, timers, looking, filled>>

\* The cleanup of one run and the next.
EffectRunsAgain ==
  /\ scanner.open /\ Latest < MaxScans
  /\ \E pc \in {"asking", "over"} :
       /\ scanner' = [RefsCleared EXCEPT !.error = pc = "over", !.done = FALSE]
       /\ scans' = Append(LatestCancelled, Run(pc))
  /\ StopCamera
  /\ UNCHANGED <<looking, filled>>

\* The video is in the page while the scanner is open and shows no error.
Commit ==
  /\ scanner' = [scanner EXCEPT !.video = scanner.open /\ ~scanner.error]
  /\ UNCHANGED <<scans, lit, timers, looking, filled>>

\* The cross, Escape or a click beside the card; the cleanup follows the commit.
CloseScanner ==
  /\ scanner.open
  /\ scanner' = [RefsCleared EXCEPT !.open = FALSE]
  /\ StopCamera
  /\ UNCHANGED <<scans, looking, filled>>

CleanUp ==
  /\ ~scanner.open /\ ~scanner.video /\ Live
  /\ scans' = LatestCancelled
  /\ scanner' = RefsCleared
  /\ StopCamera
  /\ UNCHANGED <<looking, filled>>

Leave ==
  /\ scanner.mounted
  /\ scanner' = [scanner EXCEPT !.mounted = FALSE, !.open = FALSE, !.video = FALSE]
  /\ UNCHANGED <<scans, lit, timers, looking, filled>>

-----------------------------------------------------------------------------
(* What the browser answers.                                               *)

\* Mutant: the camera is taken although the run was cleaned up.
StreamArrivesAnyway(i) ==
  /\ scans[i].pc = "asking"
  /\ scanner' = [scanner EXCEPT !.streamRef = i]
  /\ lit' = IF scanner.video THEN lit \cup {i} ELSE lit
  /\ scans' = [scans EXCEPT ![i].pc = IF scanner.video THEN "playing" ELSE "over"]
  /\ UNCHANGED <<timers, looking, filled>>

StreamArrives(i) ==
  /\ scans[i].pc = "asking"
  /\ LET taken == ~scans[i].cancelled
         shown == taken /\ scanner.video
     IN  /\ scanner' = IF taken THEN [scanner EXCEPT !.streamRef = i] ELSE scanner
         /\ lit' = IF shown THEN lit \cup {i} ELSE lit
         /\ scans' = [scans EXCEPT ![i].pc = IF shown THEN "playing" ELSE "over"]
  /\ UNCHANGED <<timers, looking, filled>>

StreamRefused(i) ==
  /\ scans[i].pc = "asking"
  /\ scans' = [scans EXCEPT ![i].pc = "over"]
  /\ scanner' = [scanner EXCEPT !.error = @ \/ ~scans[i].cancelled]
  /\ UNCHANGED <<lit, timers, looking, filled>>

\* Whether or not it may play.
PlayReturns(i) ==
  /\ scans[i].pc = "playing"
  /\ IF scans[i].cancelled
       THEN /\ scans' = [scans EXCEPT ![i].pc = "over"]
            /\ UNCHANGED <<scanner, timers>>
       ELSE /\ scans' = [scans EXCEPT ![i].pc = "on"]
            /\ scanner' = [scanner EXCEPT !.timerRef = i]
            /\ timers' = timers \cup {i}
  /\ UNCHANGED <<lit, looking, filled>>

Look(i) ==
  /\ i \in timers /\ scanner.video /\ ~scanner.done
  /\ looking' = looking \cup {i}
  /\ UNCHANGED <<scanner, scans, lit, timers, filled>>

NothingSeen(i) ==
  /\ i \in looking
  /\ looking' = looking \ {i}
  /\ UNCHANGED <<scanner, scans, lit, timers, filled>>

\* A code: the page closes the scanner and takes the recipient and amount.
CodeSeen(i) ==
  /\ i \in looking /\ ~scanner.done
  /\ looking' = looking \ {i}
  /\ scanner' = [RefsCleared EXCEPT !.done = TRUE, !.open = FALSE]
  /\ StopCamera
  /\ filled' = IF scanner.mounted THEN filled + 1 ELSE filled
  /\ UNCHANGED scans

ScanNext ==
  \/ OpenScanner \/ EffectRunsAgain \/ Commit \/ CloseScanner \/ CleanUp \/ Leave
  \/ \E i \in DOMAIN scans :
       \/ StreamArrives(i) \/ StreamRefused(i) \/ PlayReturns(i)
       \/ Look(i) \/ NothingSeen(i) \/ CodeSeen(i)

ScanSpec == ScanInit /\ [][ScanNext]_scan_vars

-----------------------------------------------------------------------------
\* "The stream is stopped on close and on unmount" (QrScanner.tsx): once the latest run is
\* cleaned up no camera is on and no interval set, whatever run a late answer of the browser
\* belonged to; and while it lives none but its own.
CameraStops == lit \cup timers \subseteq (IF Live THEN {Latest} ELSE {})

\* Not so: only a scanner that is open fills the form.  A frame that was in the detector when
\* it was cancelled still does; "a second result" alone is guarded against.
OnlyAnOpenScannerFills == [][filled' # filled => scanner.open]_scan_vars
=============================================================================
