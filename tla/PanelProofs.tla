---------------------------- MODULE PanelProofs ----------------------------
(***************************************************************************)
(* What holds of Panel for any number of refreshes and updates in flight    *)
(* and any number of changes: every variable keeps its type, and a tab does  *)
(* not offer an update again while it installs one.                         *)
(***************************************************************************)
EXTENDS Panel, TLAPS

\* Requests on their way, answered with a state, or not.
LEMMA RequestTypes ==
  /\ NoAnswer \in Requests /\ Sent \in Requests /\ Empty("401") \in Requests /\ Empty("error") \in Requests
  /\ \A r \in 0..RevMax : \A u \in BOOLEAN : [st |-> "state", rev |-> r, upd |-> u] \in Requests
BY PanelAssumption DEF Requests, NoAnswer, Sent, Empty, Unknown

\* A refresh that is sent, or not, leaves requests.
LEMMA RefreshedType ==
  ASSUME TypeOK, NEW b, NEW e
  PROVE  Refreshed(b, e) \in [Polls -> Requests]
<1>1. CASE b \/ e \/ Free = {}
  BY <1>1 DEF TypeOK, Refreshed
<1>2. CASE ~ (b \/ e \/ Free = {})
  <2>1. Refreshed(b, e) = [poll EXCEPT ![CHOOSE p \in Free : TRUE] = Sent]
    BY <1>2 DEF Refreshed
  <2> QED BY <2>1, RequestTypes DEF TypeOK
<1> QED BY <1>1, <1>2

\* A page that is opened has a script that has just started, or none.
LEMMA LoadType ==
  ASSUME TypeOK, NEW known \in BOOLEAN, Load(known),
         server' \in {"old", "stopping", "down", "new"}, sid' \in BOOLEAN
  PROVE  TypeOK'
<1>1. poll' \in [Polls -> Requests]
  BY RequestTypes DEF Load
<1>2. page' # "panel" => \A p \in Polls : poll'[p] = NoAnswer
  BY DEF Load
<1>3. ~ Applying'
  BY DEF Load, Applying
<1>4. page' \in {"panel", "login", "gone"} /\ call' \in [Calls -> {"none", "sent", "ok", "error", "401"}]
  BY DEF Load
<1>5. Unknown \in 0..Unknown
  BY PanelAssumption DEF Unknown
<1> QED
  BY <1>1, <1>2, <1>3, <1>4, <1>5 DEF TypeOK, Load

\* as is one that reloads itself.
LEMMA ReloadType == ASSUME TypeOK, Reload PROVE TypeOK'
BY LoadType DEF TypeOK, Reload, Left

\* The tab starts well-typed.
LEMMA TypeInit == Init => TypeOK
<1> SUFFICES ASSUME Init PROVE TypeOK
  OBVIOUS
<1>1. poll \in [Polls -> Requests] BY RequestTypes DEF Init
<1>2. ~ Applying BY DEF Init, Applying
<1>3. Unknown \in 0..Unknown /\ 0 \in 0..RevMax BY PanelAssumption DEF Unknown
<1> QED BY <1>1, <1>2, <1>3 DEF Init, TypeOK

\* Every step of the tab and of the server keeps the types.
LEMMA TypeStep == TypeOK /\ [Next]_vars => TypeOK'
<1> SUFFICES ASSUME TypeOK, [Next]_vars PROVE TypeOK'
  OBVIOUS
<1>1. CASE Change BY <1>1, PanelAssumption DEF Change, TypeOK, script, Applying
<1>2. ASSUME NEW p \in Polls, AnswerPoll(p) PROVE TypeOK'
  <2>1. page = "panel"
    BY <1>2 DEF AnswerPoll, TypeOK, Sent, NoAnswer, Empty
  <2>2. poll' \in [Polls -> Requests]
    BY <1>2, RequestTypes DEF AnswerPoll, TypeOK, Answer
  <2> QED BY <1>2, <2>1, <2>2 DEF AnswerPoll, TypeOK, script, Applying
<1>3. CASE AnswerOp BY <1>3, PanelAssumption DEF AnswerOp, TypeOK, Applying
<1>4. ASSUME NEW c \in Calls, AnswerApply(c) PROVE TypeOK'
  <2>1. page = "panel" BY <1>4 DEF AnswerApply, TypeOK, Applying
  <2>2. call' \in [Calls -> {"none", "sent", "ok", "error", "401"}]
    BY <1>4 DEF AnswerApply, TypeOK
  <2>3. server' \in {"old", "stopping", "down", "new"} BY <1>4 DEF AnswerApply, TypeOK
  <2>4. UNCHANGED <<info, rev, sid, page, script, poll, raced>>
    BY <1>4 DEF AnswerApply
  <2> QED BY <2>1, <2>2, <2>3, <2>4 DEF TypeOK, script
<1>5. CASE Refresh \/ StopAsked \/ Successor
  <2>1. info' \in BOOLEAN /\ UNCHANGED panel
    BY <1>5, Zenon DEF Refresh, StopAsked, Successor, TypeOK
  <2>2. server' \in {"old", "stopping", "down", "new"}
    BY <1>5 DEF Refresh, StopAsked, Successor, TypeOK
  <2>3. rev' = rev /\ page' = page /\ view' = view /\ button' = button /\ poll' = poll /\ op' = op /\ call' = call
    BY <2>1 DEF panel
  <2>4. sid' \in BOOLEAN /\ busy' \in BOOLEAN /\ editing' \in BOOLEAN /\ waiting' \in BOOLEAN /\ raced' \in BOOLEAN
    BY <2>1 DEF panel, TypeOK
  <2>5. Applying' <=> Applying BY <2>3 DEF Applying
  <2>6. page' # "panel" => (\A p \in Polls : poll'[p] = NoAnswer) /\ op' = "idle" /\ ~ Applying'
    <3>1. page # "panel" => (\A p \in Polls : poll[p] = NoAnswer) /\ op = "idle" /\ ~ Applying
      BY DEF TypeOK
    <3> QED BY <2>3, <2>5, <3>1
  <2>7. /\ rev' \in 0..RevMax /\ page' \in {"panel", "login", "gone"} /\ view' \in 0..Unknown
        /\ button' \in {"none", "offered", "applying", "restarting", "error"}
        /\ poll' \in [Polls -> Requests] /\ op' \in {"idle", "sent", "ok", "error", "401"}
        /\ call' \in [Calls -> {"none", "sent", "ok", "error", "401"}]
    BY <2>3 DEF TypeOK
  <2> QED BY <2>1, <2>2, <2>4, <2>6, <2>7, Zenon DEF TypeOK
<1>7. CASE Stop BY <1>7 DEF Stop, TypeOK, script, Applying
<1>8. CASE Poll BY <1>8, RefreshedType DEF Poll, TypeOK, script
<1>9. ASSUME NEW p \in Polls, DeliverPoll(p) PROVE TypeOK'
  <2>1. CASE Reload BY <2>1, ReloadType
  <2>2. CASE ~ Reload
    <3>1. poll' = [poll EXCEPT ![p] = NoAnswer] BY <1>9, <2>2 DEF DeliverPoll
    <3>2. poll' \in [Polls -> Requests] BY <3>1, RequestTypes DEF TypeOK
    <3>3. poll[p].rev \in 0..Unknown BY DEF TypeOK, Requests
    <3> QED BY <1>9, <2>2, <3>2, <3>3 DEF DeliverPoll, TypeOK, script
  <2> QED BY <2>1, <2>2
<1>10. CASE Form BY <1>10 DEF Form, TypeOK, Applying
<1>11. CASE StartOp BY <1>11 DEF StartOp, TypeOK, Applying
<1>12. CASE Decline BY <1>12, RefreshedType DEF Decline, TypeOK, Applying
<1>13. CASE DeliverOp
  <2>1. CASE Reload BY <2>1, ReloadType
  <2>2. CASE ~ Reload
    <3>1. page = "panel" BY <1>13, <2>2 DEF DeliverOp, TypeOK
    <3>2. poll' = Refreshed(FALSE, editing') BY <1>13, <2>2 DEF DeliverOp
    <3>3. poll' \in [Polls -> Requests] BY <3>2, RefreshedType
    <3>4. editing' \in BOOLEAN BY <1>13, <2>2 DEF DeliverOp, TypeOK
    <3> QED BY <1>13, <2>2, <3>1, <3>3, <3>4 DEF DeliverOp, TypeOK
  <2> QED BY <2>1, <2>2
<1>14. CASE Press BY <1>14 DEF Press, TypeOK
<1>15. ASSUME NEW c \in Calls, Pressed(c) PROVE TypeOK'
  <2>1. CASE Reload BY <2>1, ReloadType
  <2>2. CASE ~ Reload
    <3>1. page = "panel" BY <1>15, <2>2 DEF Pressed, TypeOK, Applying
    <3>2. call' \in [Calls -> {"none", "sent", "ok", "error", "401"}]
      BY <1>15, <2>2 DEF Pressed, TypeOK
    <3>3. raced' \in BOOLEAN BY <1>15, <2>2, Zenon DEF Pressed
    <3> QED BY <1>15, <2>2, <3>1, <3>2, <3>3 DEF Pressed, TypeOK
  <2> QED BY <2>1, <2>2
<1>16. CASE WaitOver BY <1>16, ReloadType DEF WaitOver
<1>17. CASE Login BY <1>17, LoadType DEF Login, TypeOK, Answering
<1>18. CASE Logout BY <1>18, LoadType DEF Logout, TypeOK, Left
<1>19. CASE Reload BY <1>19, ReloadType
<1>20. CASE UNCHANGED vars BY <1>20 DEF vars, panel, TypeOK, Applying
<1> QED
  BY <1>1, <1>2, <1>3, <1>4, <1>5, <1>7, <1>8, <1>9, <1>10, <1>11, <1>12, <1>13, <1>14,
     <1>15, <1>16, <1>17, <1>18, <1>19, <1>20 DEF Next, ServerNext, ScriptNext

\* In every behaviour of a tab and its server every variable keeps its type, and
\* a page that is not the panel has no request in flight.
THEOREM PanelTypes == Spec => []TypeOK
<1> QED BY TypeInit, TypeStep, PTL DEF Spec

---------------------------------------------------------------------------
(* The update button                                                       *)

\* While the tab installs an update and nothing else was in flight, there is one
\* call, the script is busy, and so no refresh and no operation is sent: only
\* an answer to one of these could draw the button again.
Held ==
  Applying /\ ~ raced =>
    /\ busy /\ op = "idle" /\ button = "applying"
    /\ \A p \in Polls : poll[p] = NoAnswer
    /\ \A c, d \in Calls : call[c] # "none" /\ call[d] # "none" => c = d

\* A page that is opened has no call.
LEMMA LoadHeld == ASSUME NEW known, Load(known) PROVE Held'
BY DEF Load, Held, Applying

\* Every step keeps the button held.
LEMMA HeldStep == TypeOK /\ Held /\ [Next]_vars => Held'
<1> SUFFICES ASSUME TypeOK, Held, [Next]_vars PROVE Held'
  OBVIOUS
<1> USE DEF Held, Applying
<1>1. CASE Change \/ Refresh \/ StopAsked \/ Stop \/ Successor \/ UNCHANGED vars
  BY <1>1 DEF Change, Refresh, StopAsked, Stop, Successor, panel, script, vars
<1>2. ASSUME NEW p \in Polls, AnswerPoll(p) PROVE Held'
  BY <1>2 DEF AnswerPoll, script, NoAnswer, Sent, Empty
<1>3. CASE AnswerOp BY <1>3 DEF AnswerOp
<1>4. ASSUME NEW c \in Calls, AnswerApply(c) PROVE Held'
  BY <1>4 DEF AnswerApply, script, TypeOK
<1>5. CASE Poll BY <1>5 DEF Poll, Refreshed, script
<1>6. ASSUME NEW p \in Polls, DeliverPoll(p) PROVE Held'
  <2>1. CASE Reload BY <2>1, LoadHeld DEF Reload
  <2>2. CASE ~ Reload BY <1>6, <2>2 DEF DeliverPoll, script, NoAnswer, Empty
  <2> QED BY <2>1, <2>2
<1>7. CASE Form BY <1>7 DEF Form
<1>8. CASE StartOp \/ Decline BY <1>8 DEF StartOp, Decline, TypeOK
<1>9. CASE DeliverOp
  <2>1. CASE Reload BY <2>1, LoadHeld DEF Reload
  <2>2. CASE ~ Reload BY <1>9, <2>2 DEF DeliverOp
  <2> QED BY <2>1, <2>2
<1>10. CASE Press BY <1>10 DEF Press, TypeOK
<1>11. ASSUME NEW c \in Calls, Pressed(c) PROVE Held'
  <2>1. CASE Reload BY <2>1, LoadHeld DEF Reload
  <2>2. CASE ~ Reload
    <3>1. call' = [call EXCEPT ![c] = "none"] /\ call[c] # "none"
      BY <1>11, <2>2 DEF Pressed
    <3>2. CASE raced BY <1>11, <2>2, <3>1, <3>2 DEF Pressed, TypeOK
    <3>3. CASE ~ raced
      <4>1. \A d \in Calls : call'[d] = "none" BY <3>1, <3>3 DEF TypeOK
      <4> QED BY <4>1
    <3> QED BY <3>2, <3>3
  <2> QED BY <2>1, <2>2
<1>12. CASE WaitOver \/ Reload BY <1>12, LoadHeld DEF WaitOver, Reload
<1>13. CASE Login \/ Logout BY <1>13, LoadHeld DEF Login, Logout
<1> QED
  BY <1>1, <1>2, <1>3, <1>4, <1>5, <1>6, <1>7, <1>8, <1>9, <1>10, <1>11, <1>12, <1>13
     DEF Next, ServerNext, ScriptNext

\* In every behaviour, however many refreshes may be in flight, a tab does not
\* offer the update it is installing again, unless a refresh was on its way
\* when the button was pressed or an operation came after it.
THEOREM ButtonStaysHeld == Spec => []ButtonHeld
<1>1. Init => TypeOK /\ Held BY TypeInit DEF Init, Held, Applying
<1>2. TypeOK /\ Held /\ [Next]_vars => TypeOK' /\ Held' BY TypeStep, HeldStep
<1>3. Held => ButtonHeld BY DEF Held, ButtonHeld
<1> QED BY <1>1, <1>2, <1>3, PTL DEF Spec
=============================================================================
