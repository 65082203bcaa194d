------------------------------ MODULE Console ------------------------------
(***************************************************************************)
(* The dashboard of internal/console: the loop that redraws it every two    *)
(* seconds, the goroutine that reads the keyboard and installs an update,    *)
(* and on Windows the close button of the window, which has to be clicked    *)
(* twice within eight seconds.                                              *)
(*                                                                          *)
(* Abstractions:                                                            *)
(*  - of what is drawn, only the warning and the update banner               *)
(*  - what Apply does is the subject of module SelfUpdate; here it succeeds  *)
(*    or fails after any time                                               *)
(*  - lines other than "u" change nothing                                   *)
(***************************************************************************)
EXTENDS Naturals

refreshEvery == 2
closeConfirmWindow == 8

CONSTANTS   \* bounds, none of which a property depends on
  ArmedCap, \* seconds armedAt is followed
  LinesMax  \* lines typed and not yet read

ASSUME BoundAssumption ==
  /\ ArmedCap \in Nat /\ ArmedCap >= closeConfirmWindow + refreshEvery
  /\ LinesMax \in Nat

VARIABLES
  ctxDone,   \* the server has been asked to stop
  available, \* Tracker's Available
  lines,     \* lines "u" typed and not yet scanned
  key,       \* watchUpdateKey: scanning, has drawn the banner and applies, returned
  updApplying, updErr, \* the dashboard's fields, updErr: one is set
  pending,   \* closeState.pending
  armed,     \* seconds since closeState.armedAt
  warned,    \* the screen shows the warning
  banner,    \* the screen shows the update banner: "none", "offer", "applying"
  cd         \* seconds to the next draw

vars == <<ctxDone, available, lines, key, updApplying, updErr, pending, armed, warned, banner, cd>>
keyboard == <<lines, key, updApplying, updErr>>
screen == <<pending, warned, banner>>

---------------------------------------------------------------------------
(* Drawing                                                                 *)

\* mutant: the warning stays until the button is clicked again
closeWarningStays == warned' = pending /\ UNCHANGED pending

\* drawing the warning is what withdraws it
closeWarning == pending' = (pending /\ armed < closeConfirmWindow) /\ warned' = pending'

\* watchUpdateKey calls it as the loop does
draw(applying) ==
  /\ closeWarning
  /\ banner' = IF applying THEN "applying" ELSE IF available THEN "offer" ELSE "none"

Tick ==
  /\ ~ ctxDone /\ cd = 0 /\ cd' = refreshEvery
  /\ draw(updApplying)
  /\ UNCHANGED <<ctxDone, available, keyboard, armed>>

Second ==
  /\ ~ ctxDone /\ cd > 0 /\ cd' = cd - 1
  /\ armed' = IF armed < ArmedCap THEN armed + 1 ELSE armed
  /\ UNCHANGED <<ctxDone, available, keyboard, screen>>

---------------------------------------------------------------------------
(* The window's buttons                                                    *)

\* mutant: a click counts as long as the warning has not been withdrawn
CloseUntimed ==
  /\ ~ ctxDone
  /\ \/ pending /\ pending' = FALSE /\ ctxDone' = TRUE /\ UNCHANGED armed
     \/ ~ pending /\ pending' = TRUE /\ armed' = 0 /\ UNCHANGED ctxDone
  /\ UNCHANGED <<available, keyboard, warned, banner, cd>>

\* CTRL_CLOSE_EVENT: a confirmation stops the server, any other click arms it
Close ==
  /\ ~ ctxDone
  /\ LET confirmed == pending /\ armed < closeConfirmWindow IN
       /\ pending' = ~ confirmed /\ ctxDone' = confirmed
       /\ armed' = IF confirmed THEN armed ELSE 0
  /\ UNCHANGED <<available, keyboard, warned, banner, cd>>

\* logoff, system shutdown, Ctrl+C, or the panel's update
Interrupt ==
  /\ ~ ctxDone /\ ctxDone' = TRUE
  /\ UNCHANGED <<available, keyboard, screen, armed, cd>>

---------------------------------------------------------------------------
(* The update key                                                          *)

Refresh ==
  /\ ~ ctxDone /\ available' \in BOOLEAN \ {available}
  /\ UNCHANGED <<ctxDone, keyboard, screen, armed, cd>>

Type ==
  /\ lines < LinesMax /\ lines' = lines + 1
  /\ UNCHANGED <<ctxDone, available, key, updApplying, updErr, screen, armed, cd>>

\* the line is skipped while nothing is available; after a stop Scan's caller
\* returns
Scan ==
  /\ key = "scan" /\ lines > 0 /\ lines' = lines - 1
  /\ \/ ctxDone /\ key' = "returned" /\ UNCHANGED <<updApplying, updErr, screen>>
     \/ ~ ctxDone /\ ~ available /\ UNCHANGED <<key, updApplying, updErr, screen>>
     \/ /\ ~ ctxDone /\ available /\ key' = "apply"
        /\ updApplying' = TRUE /\ updErr' = FALSE
        /\ draw(TRUE)
  /\ UNCHANGED <<ctxDone, available, armed, cd>>

\* mutant: a failure leaves the banner that says it is being installed
AppliedStuck ==
  /\ key = "apply"
  /\ \/ key' = "scan" /\ updErr' = TRUE /\ UNCHANGED <<ctxDone, updApplying>>
     \/ key' = "returned" /\ ctxDone' = TRUE /\ UNCHANGED <<updApplying, updErr>>
  /\ UNCHANGED <<available, lines, screen, armed, cd>>

Applied ==
  /\ key = "apply"
  /\ \/ key' = "scan" /\ updApplying' = FALSE /\ updErr' = TRUE /\ UNCHANGED ctxDone
     \/ key' = "returned" /\ ctxDone' = TRUE /\ UNCHANGED <<updApplying, updErr>>
  /\ UNCHANGED <<available, lines, screen, armed, cd>>

Stopped == ctxDone /\ key # "apply" /\ UNCHANGED vars

---------------------------------------------------------------------------
\* Run draws once before its loop
Init ==
  /\ ctxDone = FALSE /\ available = FALSE /\ lines = 0 /\ key = "scan"
  /\ updApplying = FALSE /\ updErr = FALSE
  /\ pending = FALSE /\ armed = ArmedCap /\ warned = FALSE
  /\ banner = "none"
  /\ cd = refreshEvery

Next ==
  \/ Tick \/ Second \/ Close \/ Interrupt \/ Refresh
  \/ Type \/ Scan \/ Applied \/ Stopped

\* time passes, the goroutine runs, and Apply returns (SelfUpdate's ApplyEnds)
Fairness == WF_vars(Tick) /\ WF_vars(Second) /\ WF_vars(Scan) /\ WF_vars(Applied)

Spec == Init /\ [][Next]_vars /\ Fairness

---------------------------------------------------------------------------
(* Properties                                                              *)

\* Every variable keeps its type, and the dashboard's fields agree with what
\* the goroutine does.
TypeOK ==
  /\ ctxDone \in BOOLEAN /\ available \in BOOLEAN /\ lines \in 0..LinesMax
  /\ key \in {"scan", "apply", "returned"}
  /\ updApplying \in BOOLEAN /\ updErr \in BOOLEAN /\ ~ (updApplying /\ updErr)
  /\ key = "apply" => updApplying
  /\ key = "scan" => ~ updApplying
  /\ pending \in BOOLEAN /\ armed \in 0..ArmedCap /\ warned \in BOOLEAN
  /\ banner \in {"none", "offer", "applying"} /\ cd \in 0..refreshEvery

\* term_windows.go:113-116, a first click asks and the tunnels are torn down
\* "only on an actual second click": a click that stops the server follows one
\* by less than eight seconds, and unless it came before the next draw, as in a
\* double click, the warning is on the screen by then.
CloseTwice ==
  [][pending /\ ~ pending' /\ ~ ctxDone /\ ctxDone'
       => armed < closeConfirmWindow /\ (armed > refreshEvery => warned)]_vars

\* What the warning announces is true, but for the time between two draws: it
\* is on the screen while a click confirms, and not after.
WarningTrue ==
  ~ ctxDone => /\ warned => armed < closeConfirmWindow + refreshEvery
               /\ pending /\ armed \in refreshEvery + 1 .. closeConfirmWindow - 1 => warned

\* The dashboard does not go on saying that an update is being installed when
\* none is.
InstallReported ==
  (<>[] (key = "scan" /\ ~ ctxDone)) => <>[] (banner # "applying")
=============================================================================
