------------------------------- MODULE Panel -------------------------------
(***************************************************************************)
(* One browser tab with the panel (webui/assets/panel.js) and the handlers  *)
(* of internal/webui it talks to.  Requests and answers overlap: the tab    *)
(* polls every four seconds, sends an operation on a session, installs an   *)
(* update, and reloads itself when the server has forgotten its cookie.     *)
(*                                                                          *)
(* Abstractions:                                                            *)
(*  - rev stands for everything /api/state shows of the sessions            *)
(*  - an operation is any of submit, reset, delete, rekey and toggle; the    *)
(*    read-only dialogs (detail, QR, key) are left out                      *)
(*  - a request the server gets before it is down is answered, its answer   *)
(*    may be delayed by any time; the cookie does not expire meanwhile      *)
(*  - one replacement of the server is followed, whatever it was started    *)
(*    from: the next instance is not asked to stop, nor to look for a release *)
(*  - other tabs, the console and signals are only what they do to the      *)
(*    server: the sessions change, and it is asked to stop                  *)
(***************************************************************************)
EXTENDS Naturals

CONSTANTS
  Polls,   \* bound: refreshes in flight at a time
  Calls,   \* bound: POSTs of /api/update/apply in flight at a time
  RevMax   \* bound: changes of the sessions

ASSUME PanelAssumption == RevMax \in Nat

VARIABLES
  server,  \* the instance that has the port, "stopping" once it shuts down
  info,    \* Tracker's Available
  rev,     \* what the sessions are like
  sid,     \* the server knows the tab's cookie (Server.sids)
  page,    \* what the tab shows: "panel", "login", or a browser error ("gone")
  busy, editing, \* the script's busy flag, and whether the form is open
  view,    \* the rev of the last render (RevMax + 1: nothing yet)
  button,  \* the update banner
  poll,    \* each refresh(): its request, or the answer on its way
  op,      \* the operation in flight
  call,    \* each Apply asked for
  waiting, \* waitForRestart runs
  raced    \* history: a refresh was in flight when the button was pressed, or
           \* an operation since

panel == <<rev, sid, page, busy, editing, view, button, poll, op, call, waiting, raced>>
vars == <<server, info, panel>>
script == <<busy, editing, view, button, op, waiting>>

Unknown == RevMax + 1
Empty(st) == [st |-> st, rev |-> Unknown, upd |-> FALSE]
Requests == [st: {"none", "sent", "state", "401", "error"}, rev: 0..Unknown, upd: BOOLEAN]
NoAnswer == Empty("none")
Sent == Empty("sent")
\* mutant: the answer leaves out the update
AnswerBare(st) == [st |-> st, rev |-> rev]

Answer(st) == [st |-> st, rev |-> rev, upd |-> info]
Answering == server # "down"
Serving == server \in {"old", "new"}
Free == {p \in Polls : poll[p] = NoAnswer}
Applying == \E c \in Calls : call[c] # "none"

\* refresh(): the request it sends, if any, beside what the caller did
Refreshed(isBusy, isEditing) ==
  IF isBusy \/ isEditing \/ Free = {} THEN poll
  ELSE [poll EXCEPT ![CHOOSE p \in Free : TRUE] = Sent]

---------------------------------------------------------------------------
(* The server                                                              *)

\* a session crashes, comes back, or is edited elsewhere
Change ==
  /\ Serving /\ rev < RevMax
  /\ rev' = rev + 1
  /\ UNCHANGED <<server, info, sid, page, script, poll, call, raced>>

\* authorized, then handleState; or no answer at all
AnswerPoll(p) ==
  /\ poll[p] = Sent
  /\ poll' = [poll EXCEPT ![p] = IF ~ Answering THEN Empty("error")
                                 ELSE IF sid THEN Answer("state")
                                 ELSE Empty("401")]
  /\ UNCHANGED <<server, info, rev, sid, page, script, call, raced>>

\* an operation changes the sessions or answers with an error
AnswerOp ==
  /\ op = "sent"
  /\ \/ Answering /\ sid /\ rev < RevMax /\ rev' = rev + 1 /\ op' = "ok"
     \/ Answering /\ sid /\ op' = "error" /\ UNCHANGED rev
     \/ Answering /\ ~ sid /\ op' = "401" /\ UNCHANGED rev
     \/ ~ Answering /\ op' = "error" /\ UNCHANGED rev
  /\ UNCHANGED <<server, info, sid, page, busy, editing, view, button, waiting, poll, call, raced>>

\* handleUpdateApply: half a second after its answer the server is asked to stop
AnswerApply(c) ==
  /\ call[c] = "sent"
  /\ \/ Answering /\ sid /\ info /\ call' = [call EXCEPT ![c] = "ok"]
        /\ server' = IF server = "old" THEN "stopping" ELSE server
     \/ Answering /\ sid /\ call' = [call EXCEPT ![c] = "error"] /\ UNCHANGED server
     \/ Answering /\ ~ sid /\ call' = [call EXCEPT ![c] = "401"] /\ UNCHANGED server
     \/ ~ Answering /\ call' = [call EXCEPT ![c] = "error"] /\ UNCHANGED server
  /\ UNCHANGED <<info, rev, sid, page, script, poll, raced>>

\* Tracker's refresh
Refresh ==
  /\ server = "old" /\ info' \in BOOLEAN \ {info}
  /\ UNCHANGED <<server, panel>>

\* a signal, the console's update key, or another tab's update
StopAsked ==
  /\ server = "old" /\ server' = "stopping"
  /\ UNCHANGED <<info, panel>>

\* the old instance has gone; what its panel knew of logins went with it
Stop ==
  /\ server = "stopping" /\ server' = "down" /\ sid' = FALSE
  /\ UNCHANGED <<info, rev, page, script, poll, call, raced>>

Successor ==
  /\ server = "down" /\ server' = "new" /\ info' = FALSE
  /\ UNCHANGED panel

---------------------------------------------------------------------------
(* The script                                                              *)

\* location.reload(), or the page opened anew: handleIndex gives the panel or
\* the login form, and a script that starts sends a refresh
Load(known) ==
  /\ page' = IF ~ Answering THEN "gone" ELSE IF known THEN "panel" ELSE "login"
  /\ poll' = [p \in Polls |-> IF page' = "panel" /\ p = CHOOSE q \in Polls : TRUE THEN Sent ELSE NoAnswer]
  /\ busy' = FALSE /\ editing' = FALSE /\ view' = Unknown /\ button' = "none"
  /\ op' = "idle" /\ waiting' = FALSE /\ raced' = FALSE
  /\ call' = [c \in Calls |-> "none"]
  /\ UNCHANGED <<info, rev>>

\* an Apply that was under way fails with its request, or is past the download
Left == IF server = "old" /\ \E c \in Calls : call[c] = "sent" THEN {"old", "stopping"} ELSE {server}

Reload == Load(sid) /\ server' \in Left /\ UNCHANGED sid

\* mutant: one refresh, when the script starts
PollOnce ==
  /\ page = "panel" /\ poll' = Refreshed(busy \/ view # Unknown, editing) /\ poll' # poll
  /\ UNCHANGED <<server, info, rev, sid, page, script, call, raced>>

Poll ==
  /\ page = "panel" /\ poll' = Refreshed(busy, editing) /\ poll' # poll
  /\ UNCHANGED <<server, info, rev, sid, page, script, call, raced>>

\* mutant: a 401 is an error like others
DeliverPollStays(p) ==
  /\ page = "panel" /\ poll[p].st \in {"state", "error", "401"}
  /\ view' = IF poll[p].st = "state" THEN poll[p].rev ELSE view
  /\ poll' = [poll EXCEPT ![p] = NoAnswer]
  /\ UNCHANGED <<server, info, rev, sid, page, busy, editing, button, op, waiting, call, raced>>

\* busy is not looked at again when the answer comes
DeliverPoll(p) ==
  /\ page = "panel"
  /\ \/ /\ poll[p].st = "state"
        /\ view' = poll[p].rev
        /\ button' = IF poll[p].upd THEN "offered" ELSE "none"
        /\ poll' = [poll EXCEPT ![p] = NoAnswer]
        /\ UNCHANGED <<server, info, rev, sid, page, busy, editing, op, waiting, call, raced>>
     \/ /\ poll[p].st = "error"
        /\ poll' = [poll EXCEPT ![p] = NoAnswer]
        /\ UNCHANGED <<server, info, rev, sid, page, script, call, raced>>
     \/ poll[p].st = "401" /\ Reload

\* bound: the form is opened and closed between operations
Form ==
  /\ page = "panel" /\ op = "idle"
  /\ editing' = ~ editing
  /\ UNCHANGED <<server, info, rev, sid, page, busy, view, button, poll, op, call, waiting, raced>>

StartOp ==
  /\ page = "panel" /\ op = "idle"
  /\ busy' = TRUE /\ op' = "sent"
  /\ raced' = (raced \/ Applying)
  /\ UNCHANGED <<server, info, rev, sid, page, editing, view, button, poll, call, waiting>>

\* the operation is not confirmed: nothing is sent, and busy is cleared
Decline ==
  /\ page = "panel" /\ op = "idle" /\ ~ editing
  /\ busy' = FALSE /\ poll' = Refreshed(FALSE, FALSE)
  /\ raced' = (raced \/ Applying)
  /\ UNCHANGED <<server, info, rev, sid, page, editing, view, button, op, call, waiting>>

\* a submitted form is closed, the reset of a counter leaves it open
DeliverOp ==
  \/ /\ op \in {"ok", "error"}
     /\ op' = "idle" /\ busy' = FALSE
     /\ editing' \in IF op = "ok" THEN {editing, FALSE} ELSE {editing}
     /\ poll' = Refreshed(FALSE, editing')
     /\ UNCHANGED <<server, info, rev, sid, page, view, button, call, waiting, raced>>
  \/ op = "401" /\ Reload

\* mutant: the refresh goes on while the update is installed
PressUnguarded ==
  /\ page = "panel" /\ button = "offered" /\ ~ editing
  /\ \E c \in Calls : call[c] = "none" /\ call' = [call EXCEPT ![c] = "sent"]
  /\ button' = "applying"
  /\ raced' = (raced \/ op # "idle" \/ \E p \in Polls : poll[p] # NoAnswer)
  /\ UNCHANGED <<server, info, rev, sid, page, busy, editing, view, poll, op, waiting>>

Press ==
  /\ page = "panel" /\ button = "offered" /\ ~ editing
  /\ \E c \in Calls : call[c] = "none" /\ call' = [call EXCEPT ![c] = "sent"]
  /\ button' = "applying" /\ busy' = TRUE
  /\ raced' = (raced \/ op # "idle" \/ \E p \in Polls : poll[p] # NoAnswer)
  /\ UNCHANGED <<server, info, rev, sid, page, editing, view, poll, op, waiting>>

\* mutant: busy is left set after a failed update
PressedFailsBusy(c) ==
  /\ call[c] \in {"ok", "error"} /\ call' = [call EXCEPT ![c] = "none"]
  /\ button' = IF call[c] = "ok" THEN "restarting" ELSE "error"
  /\ waiting' = (waiting \/ call[c] = "ok")
  /\ raced' = (raced /\ \E d \in Calls \ {c} : call[d] # "none")
  /\ UNCHANGED <<server, info, rev, sid, page, busy, editing, view, poll, op>>

Pressed(c) ==
  \/ /\ call[c] = "ok" /\ button' = "restarting" /\ waiting' = TRUE
     /\ call' = [call EXCEPT ![c] = "none"]
     /\ raced' = (raced /\ \E d \in Calls \ {c} : call[d] # "none")
     /\ UNCHANGED <<server, info, rev, sid, page, busy, editing, view, poll, op>>
  \/ /\ call[c] = "error" /\ button' = "error" /\ busy' = FALSE
     /\ call' = [call EXCEPT ![c] = "none"]
     /\ raced' = (raced /\ \E d \in Calls \ {c} : call[d] # "none")
     /\ UNCHANGED <<server, info, rev, sid, page, editing, view, poll, op, waiting>>
  \/ call[c] = "401" /\ Reload

\* waitForRestart: once the server answers, whichever it is, or after a minute
WaitOver == waiting /\ Reload

Login ==
  /\ page = "login"
  /\ sid' = Answering /\ Load(TRUE) /\ server' = server

Logout ==
  /\ page = "panel" /\ Answering
  /\ sid' = FALSE /\ Load(FALSE) /\ server' \in Left

---------------------------------------------------------------------------
Init ==
  /\ server = "old" /\ info = FALSE
  /\ rev = 0 /\ sid = FALSE /\ page = "login"
  /\ busy = FALSE /\ editing = FALSE /\ view = Unknown /\ button = "none"
  /\ poll = [p \in Polls |-> NoAnswer] /\ op = "idle"
  /\ call = [c \in Calls |-> "none"] /\ waiting = FALSE /\ raced = FALSE

ServerNext ==
  \/ Change \/ AnswerOp \/ Refresh \/ StopAsked \/ Stop \/ Successor
  \/ (\E p \in Polls : AnswerPoll(p)) \/ (\E c \in Calls : AnswerApply(c))

ScriptNext ==
  \/ Poll \/ Form \/ StartOp \/ Decline \/ DeliverOp \/ Press \/ WaitOver
  \/ (\E p \in Polls : DeliverPoll(p)) \/ (\E c \in Calls : Pressed(c))
  \/ Login \/ Logout \/ Reload

Next == ServerNext \/ ScriptNext

\* requests are answered or fail, and the script's timers fire; nothing is
\* assumed of the user, of the sessions or of the other reasons to stop
Fairness ==
  /\ \A p \in Polls : WF_vars(AnswerPoll(p)) /\ WF_vars(DeliverPoll(p))
  /\ \A c \in Calls : WF_vars(AnswerApply(c)) /\ WF_vars(Pressed(c))
  /\ WF_vars(AnswerOp) /\ WF_vars(DeliverOp) /\ WF_vars(Poll) /\ WF_vars(WaitOver)

Spec == Init /\ [][Next]_vars /\ Fairness

---------------------------------------------------------------------------
(* Properties                                                              *)

\* Every variable keeps its type, and a page that is not the panel has no
\* script that waits for anything.
TypeOK ==
  /\ server \in {"old", "stopping", "down", "new"} /\ info \in BOOLEAN
  /\ rev \in 0..RevMax /\ sid \in BOOLEAN /\ page \in {"panel", "login", "gone"}
  /\ busy \in BOOLEAN /\ editing \in BOOLEAN /\ waiting \in BOOLEAN /\ raced \in BOOLEAN
  /\ view \in 0..Unknown
  /\ button \in {"none", "offered", "applying", "restarting", "error"}
  /\ poll \in [Polls -> Requests]
  /\ op \in {"idle", "sent", "ok", "error", "401"}
  /\ call \in [Calls -> {"none", "sent", "ok", "error", "401"}]
  /\ page # "panel" => (\A p \in Polls : poll[p] = NoAnswer) /\ op = "idle" /\ ~ Applying

\* panel.js:96, busy is there to "stop the periodic refresh below from
\* fighting this view": while the tab's update is being installed the banner
\* does not offer it again, so that one tab does not start two.  It holds
\* only when nothing else was in flight: see raced.
ButtonHeld == Applying /\ ~ raced => button # "offered"

\* The tab does not stay busy, which would stop its refreshes: every operation
\* and every update, whatever becomes of it, clears the flag or reloads.
BusyEnds == busy ~> ~ busy

\* However answers overtake each other, a panel that is left open, and not
\* reloaded for ever, shows the sessions as they are in the end.
ViewCurrent ==
  (<>[] (page = "panel" /\ sid /\ ~ editing /\ Serving) /\ <>[][~ Reload]_vars)
    => <>[] (view = rev)

\* A panel whose login a new instance does not know goes to the login page by
\* itself, unless the form is open: then nothing is sent before it is saved.
StaleTabLeaves ==
  (page = "panel" /\ ~ sid /\ Serving) ~> (page # "panel" \/ sid \/ editing \/ ~ Serving)
=============================================================================
