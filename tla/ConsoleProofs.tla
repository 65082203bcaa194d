---------------------------- MODULE ConsoleProofs ----------------------------
(***************************************************************************)
(* The close button is safe to click: a click that stops the server follows *)
(* another by less than eight seconds, and what the screen warns of is true, *)
(* for every value of the bounds.                                           *)
(***************************************************************************)
EXTENDS Console, TLAPS

\* The warning goes with the first draw after the window is over, and a click
\* is on the screen by the first draw after it: armed + cd is the age of the
\* click at that draw.
ScreenOK ==
  /\ warned => armed + cd < closeConfirmWindow + refreshEvery
  /\ pending /\ ~ warned => armed + cd <= refreshEvery

CloseInv == TypeOK /\ ScreenOK

---------------------------------------------------------------------------
LEMMA CloseInit == Init => CloseInv
<1> SUFFICES ASSUME Init PROVE CloseInv
  OBVIOUS
<1>1. lines \in 0..LinesMax /\ armed \in 0..ArmedCap /\ cd \in 0..refreshEvery
  BY BoundAssumption DEF Init, refreshEvery, closeConfirmWindow
<1>2. TypeOK
  BY <1>1, Zenon DEF Init, TypeOK
<1>3. ScreenOK
  BY DEF Init, ScreenOK
<1> QED
  BY <1>2, <1>3 DEF CloseInv

\* A click that counts at one draw is in the window and the time of one draw at
\* the next.
LEMMA NextDraw ==
  ASSUME NEW age \in Nat, age < closeConfirmWindow, NEW left \in 0..refreshEvery
  PROVE  age + left < closeConfirmWindow + refreshEvery
BY DEF closeConfirmWindow, refreshEvery

\* A draw shows the warning as long as the click counts.
LEMMA DrawStep ==
  ASSUME CloseInv, NEW applying \in BOOLEAN, draw(applying), UNCHANGED armed,
         cd' \in 0..refreshEvery
  PROVE  ScreenOK' /\ pending' \in BOOLEAN /\ warned' \in BOOLEAN
         /\ banner' \in {"none", "offer", "applying"}
<1>1. pending' \in BOOLEAN /\ warned' \in BOOLEAN /\ (pending' => warned')
  BY DEF draw, closeWarning
<1>2. warned' => armed < closeConfirmWindow
  BY DEF draw, closeWarning
<1>3. ScreenOK'
  <2>1. armed' \in Nat /\ (warned' => armed' < closeConfirmWindow)
    BY <1>2, BoundAssumption DEF CloseInv, TypeOK, closeConfirmWindow, refreshEvery
  <2>2. ASSUME warned' PROVE armed' + cd' < closeConfirmWindow + refreshEvery
    BY <2>1, <2>2, NextDraw
  <2> QED
    BY <1>1, <2>2 DEF ScreenOK
<1>4. banner' \in {"none", "offer", "applying"}
  BY DEF draw
<1> QED
  BY <1>1, <1>3, <1>4

\* The steps of the loop and of the window's buttons.
LEMMA ScreenStep == CloseInv /\ (Tick \/ Second \/ Close \/ Interrupt) => CloseInv'
<1>1. ASSUME CloseInv, Tick PROVE CloseInv'
  <2>1. draw(updApplying) /\ UNCHANGED armed /\ cd' \in 0..refreshEvery /\ updApplying \in BOOLEAN
    BY <1>1 DEF Tick, CloseInv, TypeOK, refreshEvery
  <2>2. ScreenOK' /\ pending' \in BOOLEAN /\ warned' \in BOOLEAN
        /\ banner' \in {"none", "offer", "applying"}
    BY <1>1, <2>1, DrawStep
  <2>3. TypeOK'
    BY <1>1, <2>1, <2>2 DEF Tick, CloseInv, TypeOK, keyboard
  <2> QED
    BY <2>2, <2>3 DEF CloseInv
<1>2. ASSUME CloseInv, Second PROVE CloseInv'
  <2>1. armed' \in 0..ArmedCap /\ cd' \in 0..refreshEvery
    BY <1>2, BoundAssumption DEF Second, CloseInv, TypeOK, refreshEvery
  <2>2. TypeOK'
    BY <1>2, <2>1 DEF Second, CloseInv, TypeOK, keyboard, screen
  <2>3. armed' + cd' <= armed + cd
    BY <1>2, BoundAssumption DEF Second, CloseInv, TypeOK, refreshEvery
  <2>4. ScreenOK'
    BY <1>2, <2>1, <2>3, BoundAssumption
       DEF Second, CloseInv, TypeOK, ScreenOK, screen, refreshEvery, closeConfirmWindow
  <2> QED
    BY <2>2, <2>4 DEF CloseInv
<1>3. ASSUME CloseInv, Close PROVE CloseInv'
  <2> DEFINE confirmed == pending /\ armed < closeConfirmWindow
  <2>1. pending' = ~ confirmed /\ ctxDone' = confirmed /\ armed' = IF confirmed THEN armed ELSE 0
    BY <1>3 DEF Close
  <2>2. UNCHANGED <<available, lines, key, updApplying, updErr, warned, banner, cd>>
    BY <1>3 DEF Close, keyboard
  <2>3. TypeOK'
    BY <1>3, <2>1, <2>2, BoundAssumption DEF CloseInv, TypeOK
  <2>4. ScreenOK'
    <3>1. CASE confirmed
      BY <1>3, <2>1, <2>2, <3>1 DEF CloseInv, ScreenOK
    <3>2. CASE ~ confirmed
      BY <1>3, <2>1, <2>2, <3>2 DEF CloseInv, TypeOK, ScreenOK, refreshEvery, closeConfirmWindow
    <3> QED
      BY <3>1, <3>2
  <2> QED
    BY <2>3, <2>4 DEF CloseInv
<1>4. ASSUME CloseInv, Interrupt PROVE CloseInv'
  BY <1>4 DEF Interrupt, CloseInv, TypeOK, ScreenOK, keyboard, screen
<1> QED
  BY <1>1, <1>2, <1>3, <1>4

\* The steps of the keyboard's goroutine.
LEMMA KeyboardStep ==
  CloseInv /\ (Refresh \/ Type \/ Scan \/ Applied) => CloseInv'
<1>1. ASSUME CloseInv, Refresh PROVE CloseInv'
  BY <1>1 DEF Refresh, CloseInv, TypeOK, ScreenOK, keyboard, screen
<1>2. ASSUME CloseInv, Type PROVE CloseInv'
  BY <1>2, BoundAssumption DEF Type, CloseInv, TypeOK, ScreenOK, screen
<1>3. ASSUME CloseInv, Scan PROVE CloseInv'
  <2>1. lines' \in 0..LinesMax /\ UNCHANGED <<ctxDone, available, armed, cd>>
    BY <1>3, BoundAssumption DEF Scan, CloseInv, TypeOK
  <2>2. CASE draw(TRUE) /\ key' = "apply" /\ updApplying' = TRUE /\ updErr' = FALSE
    <3>1. ScreenOK' /\ pending' \in BOOLEAN /\ warned' \in BOOLEAN
          /\ banner' \in {"none", "offer", "applying"}
      BY <1>3, <2>1, <2>2, DrawStep DEF CloseInv, TypeOK
    <3> QED
      BY <1>3, <2>1, <2>2, <3>1 DEF CloseInv, TypeOK
  <2>3. CASE UNCHANGED <<updApplying, updErr, screen>> /\ key' \in {"scan", "returned"}
    BY <1>3, <2>1, <2>3 DEF Scan, CloseInv, TypeOK, ScreenOK, screen
  <2> QED
    BY <1>3, <2>2, <2>3 DEF Scan
<1>4. ASSUME CloseInv, Applied PROVE CloseInv'
  <2>1. CASE key' = "scan" /\ updApplying' = FALSE /\ updErr' = TRUE /\ UNCHANGED ctxDone
    BY <1>4, <2>1 DEF Applied, CloseInv, TypeOK, ScreenOK, screen
  <2>2. CASE key' = "returned" /\ ctxDone' = TRUE /\ UNCHANGED <<updApplying, updErr>>
    BY <1>4, <2>2 DEF Applied, CloseInv, TypeOK, ScreenOK, screen
  <2> QED
    BY <1>4, <2>1, <2>2 DEF Applied
<1> QED
  BY <1>1, <1>2, <1>3, <1>4

LEMMA CloseStep == CloseInv /\ [Next]_vars => CloseInv'
<1>1. CloseInv /\ UNCHANGED vars => CloseInv'
  BY DEF vars, CloseInv, TypeOK, ScreenOK
<1> QED
  BY <1>1, ScreenStep, KeyboardStep DEF Next, Stopped

LEMMA CloseInvariant == Spec => []CloseInv
BY CloseInit, CloseStep, PTL DEF Spec

---------------------------------------------------------------------------
\* Every variable keeps its type, and the dashboard's fields agree with what
\* the goroutine that reads the keyboard does.
THEOREM TypeCorrect == Spec => []TypeOK
<1>1. CloseInv => TypeOK
  BY DEF CloseInv
<1> QED
  BY <1>1, CloseInvariant, PTL

\* The warning is on the screen while a click confirms, but for the time to the
\* next draw, and not after.
THEOREM WarningIsTrue == Spec => []WarningTrue
<1>1. CloseInv => WarningTrue
  BY DEF CloseInv, TypeOK, ScreenOK, WarningTrue, refreshEvery, closeConfirmWindow
<1> QED
  BY <1>1, CloseInvariant, PTL

\* The close button alone stops the server only with a second click in time,
\* and with the warning on the screen unless no draw came between the two.
THEOREM ClosesTwice == Spec => CloseTwice
<1>1. CloseInv /\ [Next]_vars =>
        [pending /\ ~ pending' /\ ~ ctxDone /\ ctxDone'
           => armed < closeConfirmWindow /\ (armed > refreshEvery => warned)]_vars
  <2> SUFFICES ASSUME CloseInv, [Next]_vars, pending, ~ pending', ~ ctxDone, ctxDone'
               PROVE  armed < closeConfirmWindow /\ (armed > refreshEvery => warned)
    OBVIOUS
  <2>1. Close
    <3>1. ~ (Tick \/ Second \/ Refresh \/ Type \/ Scan \/ Stopped \/ UNCHANGED vars)
      BY DEF Tick, Second, Refresh, Type, Scan, Stopped, vars
    <3>2. ~ (Interrupt \/ Applied)
      BY DEF Interrupt, Applied, screen
    <3> QED
      BY <3>1, <3>2 DEF Next
  <2>2. armed < closeConfirmWindow
    BY <2>1 DEF Close
  <2>3. armed > refreshEvery => warned
    BY DEF CloseInv, TypeOK, ScreenOK, refreshEvery
  <2> QED
    BY <2>2, <2>3
<1> QED
  BY <1>1, CloseInvariant, PTL DEF Spec, CloseTwice
=============================================================================
