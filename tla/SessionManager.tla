-------------------------- MODULE SessionManager --------------------------
(***************************************************************************)
(* The session manager of internal/session: the records of the sessions,   *)
(* the core process each of them runs, the panel's requests, the supervisor *)
(* and the monitor goroutine, the goroutine that waits for each process to  *)
(* exit, and the shutdown sequence of cmd/fzp.                              *)
(*                                                                          *)
(* m.mu is held by every operation from its first to its last statement,    *)
(* except inside stopLocked, which gives it up while it waits for the       *)
(* process to exit.  One action is therefore one critical section: an       *)
(* operation that stops a process is an action up to the unlock and a       *)
(* second one, named ...Resume, from the moment it has the lock again.      *)
(*                                                                          *)
(* Abstractions:                                                            *)
(*  - a core process is <<id, slot>>: Slots bounds how many processes of one *)
(*    session exist at a time, counting the dead ones still being collected *)
(*  - "over" stands for the comparison of the counted traffic with LimitB;  *)
(*    the arithmetic behind it is the subject of module Traffic             *)
(*  - Room stands for every field Update may change (Name, Provider,        *)
(*    Transport, Debug alike); a changed LimitB shows as a changed "over"   *)
(*  - session ids are drawn from Ids and never reused (newID draws 24       *)
(*    random bits)                                                          *)
(*  - writes of sessions.json and of pid files succeed (errors are ignored),  *)
(*    and what is saved of the traffic count is not followed                 *)
(*  - a request either has the lock by the time Shutdown starts or is never *)
(*    served; one whose fields cleanFields rejects changes nothing          *)
(***************************************************************************)

CONSTANTS
  Ids,           \* session ids
  Slots,         \* bound: process handles per session
  Rooms, Keys,   \* values of the editable fields and of the encryption key
  Clients,       \* bound: requests that may be waiting in stopLocked at once
  Monitor, Main, \* the monitor goroutine and the goroutine of main
  None, Stray,   \* "nothing", and a pid left by a previous run of fzp
  SpawnResults   \* what preparing and spawning a process may give

Procs == Ids \X Slots
Threads == Clients \cup {Monitor, Main}
Refused == {"limit", "failed"}

Saved == [enabled: BOOLEAN, limited: BOOLEAN, room: Rooms, key: Keys]

ASSUME NoneAssumption == /\ None \notin Procs \cup Ids \cup Rooms \cup Saved
                         /\ Stray \notin Procs \cup {None}
ASSUME ThreadAssumption == Monitor # Main /\ Monitor \notin Clients /\ Main \notin Clients
ASSUME SpawnAssumption == SpawnResults \subseteq {"spawned", "failed"}

VARIABLES
  sess,     \* m.sessions: the record of each session, kept when it is deleted
            \* because a waiting request still holds a pointer to it
  rt,       \* m.rt: the process each session is known to run
  restart,  \* m.restart: "none", "wait" (before next), "due" (after next)
  proc,     \* the operating system's and the exit goroutine's view of a process
  pidfile,  \* <id>.pid
  disk,     \* sessions.json
  thr,      \* what each thread is in stopLocked for, and the process whose
            \* done channel it waits for (None: closed, the lock is next)
  main,     \* where run() is
  ctxDone,  \* ctx is cancelled
  supOn, monOn  \* the two loops have not returned

vars == <<sess, rt, restart, proc, pidfile, disk, thr, main, ctxDone, supOn, monOn>>
ctl == <<main, ctxDone, supOn, monOn>>

Sessions == [st: {"absent", "live", "deleted"}, enabled: BOOLEAN, limited: BOOLEAN,
             over: BOOLEAN, room: Rooms, key: Keys]
Confs == [room: Rooms, key: Keys]
Processes == [st: {"up", "exited", "reaped", "down"}, sig: {"none", "term", "kill"},
              conf: Confs \cup {None}]
Works == [op: {"idle", "update", "rekey", "toggle", "delete", "limit", "stopall"},
          id: Ids \cup {None}, proc: Procs \cup {None}, room: Rooms \cup {None}, todo: SUBSET Ids]

\* up: running; exited: dead, cmd.Wait not yet handled under the lock;
\* reaped: harvested, its pid file not yet removed; down: done is closed
NoProc == [st |-> "down", sig |-> "none", conf |-> None]
Idle == [op |-> "idle", id |-> None, proc |-> None, room |-> None, todo |-> {}]

Live == {id \in Ids : sess[id].st = "live"}
Alive(p) == proc[p].st \in {"up", "exited"}

---------------------------------------------------------------------------
(* Saving, starting and stopping                                           *)

\* mutant: the limited flag left out of the saved record
PersistNoLimited(ss) ==
  [id \in Ids |-> IF ss[id].st = "live"
                  THEN [enabled |-> ss[id].enabled, room |-> ss[id].room, key |-> ss[id].key]
                  ELSE None]

Persist(ss) ==
  [id \in Ids |-> IF ss[id].st = "live"
                  THEN [enabled |-> ss[id].enabled, limited |-> ss[id].limited,
                        room |-> ss[id].room, key |-> ss[id].key]
                  ELSE None]

\* saveLocked, after the in-memory records became ss
Commit(ss) == sess' = ss /\ disk' = Persist(ss)

FreeSlots(id) == {p \in {id} \X Slots : proc[p].st = "down"}
NewProc(id) == CHOOSE p \in FreeSlots(id) : TRUE

\* mutant: startLocked without its isRunningLocked check
StartUnchecked(id, s) ==
  IF s.over THEN {"limit"} ELSE {r \in SpawnResults : r = "spawned" => FreeSlots(id) # {}}

\* what startLocked may return for the record s of id
StartLocked(id, s) ==
  IF rt[id] # None THEN {"running"}
  ELSE IF s.over THEN {"limit"}
  ELSE {r \in SpawnResults : r = "spawned" => FreeSlots(id) # {}}

\* the successful end of startLocked for every session of up, with records ss
\* and, for the others, pid files files
Launch(up, ss, files) ==
  /\ rt' = [id \in Ids |-> IF id \in up THEN NewProc(id) ELSE rt[id]]
  /\ proc' = [p \in Procs |->
                IF p[1] \in up /\ p = NewProc(p[1])
                THEN [st |-> "up", sig |-> "none",
                      conf |-> [room |-> ss[p[1]].room, key |-> ss[p[1]].key]]
                ELSE proc[p]]
  /\ pidfile' = [id \in Ids |-> IF id \in up THEN NewProc(id) ELSE files[id]]

\* the tail Create, Update, Rekey and ResetTraffic share: start the session if
\* it is wanted, disable it if that fails, save
StartAndSave(id, s, want) ==
  \E r \in (IF want THEN StartLocked(id, s) ELSE {"off"}) :
    LET ss == [sess EXCEPT ![id] = [s EXCEPT !.enabled = @ /\ r \notin Refused]] IN
      /\ Commit(ss)
      /\ Launch({x \in {id} : r = "spawned"}, ss, pidfile)

\* Whether a reading of id's counter finds the limit reached, over being what
\* the last one found: a live process may have moved more since, a dead one
\* can no longer be read and what its run moved is missing from the total.
Reading(id, over) ==
  IF rt[id] = None THEN {over}
  ELSE IF proc[rt[id]].st = "up" THEN {TRUE, over}
  ELSE {FALSE, over}

\* stopLocked up to the unlock: bank a last reading, send SIGTERM, wait
StopLocked(t, op, id, room, todo, ss) ==
  /\ \E over \in Reading(id, ss[id].over) : sess' = [ss EXCEPT ![id].over = over]
  /\ proc' = [proc EXCEPT ![rt[id]].sig = IF @ = "none" THEN "term" ELSE @]
  /\ thr' = [thr EXCEPT ![t] = [op |-> op, id |-> id, proc |-> rt[id],
                                room |-> room, todo |-> todo]]
  /\ UNCHANGED <<rt, pidfile>>

\* stopLocked has seen done closed and has the lock again
Woken(t, op) == thr[t].op = op /\ thr[t].proc = None /\ main # "exited"

\* mutant: SIGTERM once more instead of SIGKILL
StopTimeoutTermAgain(t) ==
  /\ main # "exited" /\ thr[t].proc # None /\ proc[thr[t].proc].st = "up"
  /\ UNCHANGED vars

\* after stopGrace
StopTimeout(t) ==
  /\ main # "exited" /\ thr[t].proc # None
  /\ proc[thr[t].proc].st = "up" /\ proc[thr[t].proc].sig = "term"
  /\ proc' = [proc EXCEPT ![thr[t].proc].sig = "kill"]
  /\ UNCHANGED <<sess, rt, restart, pidfile, disk, thr, ctl>>

---------------------------------------------------------------------------
(* Requests of the panel                                                   *)

Request(id) == main = "serve" /\ sess[id].st = "live"

\* a range over m.sessions may or may not visit an entry added meanwhile
Create(id) ==
  /\ main = "serve" /\ sess[id].st = "absent"
  /\ \E room \in Rooms, key \in Keys :
       StartAndSave(id, [st |-> "live", enabled |-> TRUE, limited |-> FALSE,
                         over |-> FALSE, room |-> room, key |-> key], TRUE)
  /\ \E visit \in {{}, {id}} :
       thr' = [thr EXCEPT ![Monitor].todo = IF thr[Monitor].op = "idle" THEN @ ELSE @ \cup visit]
  /\ UNCHANGED <<restart, ctl>>

\* the new LimitB may be above or below what was counted
ApplyUpdate(id, room, wasRunning) ==
  /\ \E over \in BOOLEAN :
       StartAndSave(id, [sess[id] EXCEPT !.room = room, !.over = over],
                    wasRunning \/ sess[id].enabled)
  /\ UNCHANGED <<restart, ctl>>

Update(t, id) ==
  /\ Request(id) /\ thr[t] = Idle
  /\ \E room \in Rooms :
       \/ /\ rt[id] # None
          /\ StopLocked(t, "update", id, room, {}, sess)
          /\ UNCHANGED <<restart, disk, ctl>>
       \/ /\ rt[id] = None
          /\ ApplyUpdate(id, room, FALSE)
          /\ UNCHANGED thr

UpdateResume(t) ==
  /\ Woken(t, "update")
  /\ ApplyUpdate(thr[t].id, thr[t].room, TRUE)
  /\ thr' = [thr EXCEPT ![t] = Idle]

\* a fresh token, whichever of Keys stands for it
ApplyRekey(id, wasRunning) ==
  /\ \E key \in Keys :
       StartAndSave(id, [sess[id] EXCEPT !.key = key], wasRunning \/ sess[id].enabled)
  /\ UNCHANGED <<restart, ctl>>

Rekey(t, id) ==
  /\ Request(id) /\ thr[t] = Idle
  /\ \/ /\ rt[id] # None
        /\ StopLocked(t, "rekey", id, None, {}, sess)
        /\ UNCHANGED <<restart, disk, ctl>>
     \/ /\ rt[id] = None
        /\ ApplyRekey(id, FALSE)
        /\ UNCHANGED thr

RekeyResume(t) ==
  /\ Woken(t, "rekey")
  /\ ApplyRekey(thr[t].id, TRUE)
  /\ thr' = [thr EXCEPT ![t] = Idle]

ToggleOff(t, id) ==
  /\ Request(id) /\ thr[t] = Idle
  /\ sess[id].enabled /\ rt[id] # None
  /\ StopLocked(t, "toggle", id, None, {}, sess)
  /\ UNCHANGED <<restart, disk, ctl>>

\* mutant: Toggle without its saveLocked
ToggleResumeUnsaved(t) ==
  /\ Woken(t, "toggle")
  /\ sess' = [sess EXCEPT ![thr[t].id].enabled = FALSE]
  /\ thr' = [thr EXCEPT ![t] = Idle]
  /\ UNCHANGED <<rt, restart, proc, pidfile, disk, ctl>>

ToggleResume(t) ==
  /\ Woken(t, "toggle")
  /\ Commit([sess EXCEPT ![thr[t].id].enabled = FALSE])
  /\ thr' = [thr EXCEPT ![t] = Idle]
  /\ UNCHANGED <<rt, restart, proc, pidfile, ctl>>

\* Limited stays as it is
ToggleOn(id) ==
  /\ Request(id)
  /\ ~ (sess[id].enabled /\ rt[id] # None)
  /\ restart' = [restart EXCEPT ![id] = "none"]
  /\ \E r \in StartLocked(id, sess[id]) :
       LET ss == [sess EXCEPT ![id].enabled = @ \/ r \notin Refused] IN
         /\ Commit(ss)
         /\ Launch({x \in {id} : r = "spawned"}, ss, pidfile)
  /\ UNCHANGED <<thr, ctl>>

\* a dead process that was not harvested yet keeps the lastIO it had
ResetTraffic(id) ==
  /\ Request(id)
  /\ \E over \in IF rt[id] = None \/ proc[rt[id]].st = "up" THEN {FALSE} ELSE {FALSE, sess[id].over} :
       StartAndSave(id, [sess[id] EXCEPT !.limited = FALSE, !.over = over],
                    sess[id].enabled /\ rt[id] = None)
  /\ UNCHANGED <<restart, thr, ctl>>

\* mutant: the session is deleted without its saveLocked
RemoveSessionUnsaved(id) ==
  /\ sess' = [sess EXCEPT ![id].st = "deleted"]
  /\ rt' = [rt EXCEPT ![id] = None]
  /\ restart' = [restart EXCEPT ![id] = "none"]
  /\ pidfile' = [pidfile EXCEPT ![id] = None]
  /\ UNCHANGED <<proc, disk, ctl>>

RemoveSession(id) ==
  /\ Commit([sess EXCEPT ![id].st = "deleted"])
  /\ rt' = [rt EXCEPT ![id] = None]
  /\ restart' = [restart EXCEPT ![id] = "none"]
  /\ pidfile' = [pidfile EXCEPT ![id] = None]
  /\ UNCHANGED <<proc, ctl>>

Delete(t, id) ==
  /\ Request(id) /\ thr[t] = Idle
  /\ \/ /\ rt[id] # None
        /\ StopLocked(t, "delete", id, None, {}, sess)
        /\ UNCHANGED <<restart, disk, ctl>>
     \/ /\ rt[id] = None
        /\ RemoveSession(id)
        /\ UNCHANGED thr

DeleteResume(t) ==
  /\ Woken(t, "delete")
  /\ RemoveSession(thr[t].id)
  /\ thr' = [thr EXCEPT ![t] = Idle]

\* List, Get and the end of each request read the counter of a live process
ReadTraffic(id) ==
  /\ main \notin {"boot", "exited"} /\ sess[id].st = "live" /\ rt[id] # None
  /\ \E over \in Reading(id, sess[id].over) : sess' = [sess EXCEPT ![id].over = @ \/ over]
  /\ UNCHANGED <<rt, restart, proc, pidfile, disk, thr, ctl>>

---------------------------------------------------------------------------
(* The supervisor and the monitor                                          *)

\* mutant: a session whose restart failed or crashed again is never due
AttemptOnce == {id \in Live : /\ sess[id].enabled /\ ~ sess[id].limited
                              /\ rt[id] = None /\ restart[id] = "none"}

Attempt == {id \in Live : /\ sess[id].enabled /\ ~ sess[id].limited
                          /\ rt[id] = None /\ restart[id] # "wait"}

SupervisorTick ==
  /\ supOn /\ main \notin {"boot", "exited"}
  /\ restart' = [id \in Ids |->
                   IF id \in Attempt THEN "wait"
                   ELSE IF id \in Live /\ (~ sess[id].enabled \/ sess[id].limited) THEN "none"
                   ELSE restart[id]]
  /\ \E up \in SUBSET {id \in Attempt : "spawned" \in StartLocked(id, sess[id])} :
       /\ \A id \in Attempt \ up : StartLocked(id, sess[id]) \cap Refused # {}
       /\ Launch(up, sess, pidfile)
       /\ disk' = IF up = {} THEN disk ELSE Persist(sess)
  /\ UNCHANGED <<sess, thr, ctl>>

\* time passes the session's backoff
BackoffElapses(id) ==
  /\ restart[id] = "wait" /\ main # "exited"
  /\ restart' = [restart EXCEPT ![id] = "due"]
  /\ UNCHANGED <<sess, rt, proc, pidfile, disk, thr, ctl>>

MayPass(id) == sess[id].st # "live" \/ rt[id] = None \/ FALSE \in Reading(id, sess[id].over)

\* monitorTick's range goes on to the next session it has to stop
MonitorStop(todo, ss) ==
  \E id \in todo :
    /\ sess[id].st = "live" /\ rt[id] # None /\ TRUE \in Reading(id, sess[id].over)
    /\ \E passed \in SUBSET {j \in todo \ {id} : MayPass(j)} :
         StopLocked(Monitor, "limit", id, None, todo \ (passed \cup {id}),
                    [ss EXCEPT ![id].over = TRUE])

\* mutant: the monitor takes a session marked Limited for stopped
MonitorTickSkipsLimited ==
  /\ monOn /\ main \notin {"boot", "exited"} /\ thr[Monitor] = Idle
  /\ MonitorStop({id \in Live : ~ sess[id].limited}, sess)
  /\ UNCHANGED <<restart, disk, ctl>>

MonitorTick ==
  /\ monOn /\ main \notin {"boot", "exited"} /\ thr[Monitor] = Idle
  /\ MonitorStop(Live, sess)
  /\ UNCHANGED <<restart, disk, ctl>>

MonitorResume ==
  /\ Woken(Monitor, "limit")
  /\ LET ss == [sess EXCEPT ![thr[Monitor].id].limited = TRUE] IN
       \/ MonitorStop(thr[Monitor].todo, ss) /\ UNCHANGED disk
       \/ /\ \A id \in thr[Monitor].todo : MayPass(id)
          /\ Commit(ss)
          /\ thr' = [thr EXCEPT ![Monitor] = Idle]
          /\ UNCHANGED <<rt, proc, pidfile>>
  /\ UNCHANGED <<restart, ctl>>

---------------------------------------------------------------------------
(* The core processes and the goroutine that waits for each                *)

\* a crash, the answer to SIGTERM, or SIGKILL
Exit(p) ==
  /\ proc[p].st = "up"
  /\ proc' = [proc EXCEPT ![p].st = "exited"]
  /\ UNCHANGED <<sess, rt, restart, pidfile, disk, thr, ctl>>

Killed(p) == proc[p].sig = "kill" /\ Exit(p)

\* A reading taken after stopLocked banked the total is counted once more.
ExitLocked(p) ==
  /\ proc[p].st = "exited" /\ main # "exited"
  /\ proc' = [proc EXCEPT ![p].st = "reaped"]
  /\ \/ /\ rt[p[1]] = p
        /\ rt' = [rt EXCEPT ![p[1]] = None]
        /\ \E over \in IF proc[p].sig = "none" THEN {sess[p[1]].over} ELSE {sess[p[1]].over, TRUE} :
             sess' = [sess EXCEPT ![p[1]].over = over]
     \/ rt[p[1]] # p /\ UNCHANGED <<rt, sess>>
  /\ UNCHANGED <<restart, pidfile, disk, thr, ctl>>

\* mutant: the pid file stays
ExitCleanupKeepsFile(p) ==
  /\ proc[p].st = "reaped" /\ main # "exited"
  /\ proc' = [proc EXCEPT ![p] = NoProc]
  /\ thr' = [t \in Threads |-> IF thr[t].proc = p THEN [thr[t] EXCEPT !.proc = None] ELSE thr[t]]
  /\ UNCHANGED <<sess, rt, restart, pidfile, disk, ctl>>

\* removes whatever pid file the session has by now, then closes done, which
\* is what the threads in stopLocked wait for
ExitCleanup(p) ==
  /\ proc[p].st = "reaped" /\ main # "exited"
  /\ proc' = [proc EXCEPT ![p] = NoProc]
  /\ pidfile' = [pidfile EXCEPT ![p[1]] = None]
  /\ thr' = [t \in Threads |-> IF thr[t].proc = p THEN [thr[t] EXCEPT !.proc = None] ELSE thr[t]]
  /\ UNCHANGED <<sess, rt, restart, disk, ctl>>

---------------------------------------------------------------------------
(* run(): boot and shutdown                                                *)

Restore ==
  /\ main = "boot" /\ main' = "listen"
  /\ LET wanted == {id \in Live : sess[id].enabled} IN
     \E up \in SUBSET {id \in wanted : "spawned" \in StartLocked(id, sess[id])} :
       LET ss == [id \in Ids |-> IF id \in wanted \ up THEN [sess[id] EXCEPT !.enabled = FALSE]
                                 ELSE sess[id]]
       IN /\ \A id \in wanted \ up : StartLocked(id, sess[id]) \cap Refused # {}
          /\ Commit(ss)
          \* reclaimStray removed the pid file of every session
          /\ Launch(up, ss, [id \in Ids |-> IF id \in Live THEN None ELSE pidfile[id]])
  /\ supOn' = TRUE /\ monOn' = TRUE
  /\ UNCHANGED <<restart, thr, ctxDone>>

\* listenWithRetry gets the port, or run() returns its error and stops nothing
Listen ==
  /\ main = "listen"
  /\ main' = "serve" \/ main' = "exited"
  /\ UNCHANGED <<sess, rt, restart, proc, pidfile, disk, thr, ctxDone, supOn, monOn>>

\* a signal, or the end of a successful update
Cancel ==
  /\ main \in {"listen", "serve"} /\ ~ ctxDone
  /\ ctxDone' = TRUE
  /\ UNCHANGED <<sess, rt, restart, proc, pidfile, disk, thr, main, supOn, monOn>>

SupervisorReturns ==
  /\ ctxDone /\ supOn /\ main # "exited"
  /\ supOn' = FALSE
  /\ UNCHANGED <<sess, rt, restart, proc, pidfile, disk, thr, main, ctxDone, monOn>>

MonitorReturns ==
  /\ ctxDone /\ monOn /\ thr[Monitor] = Idle /\ main # "exited"
  /\ monOn' = FALSE
  /\ UNCHANGED <<sess, rt, restart, proc, pidfile, disk, thr, main, ctxDone, supOn>>

\* dash.Run returns; Shutdown waits for requests, but 5 seconds at most
Shutdown ==
  /\ main = "serve" /\ ctxDone
  /\ main' = "drain"
  /\ UNCHANGED <<sess, rt, restart, proc, pidfile, disk, thr, ctxDone, supOn, monOn>>

\* StopAll's range goes on to the next running session, or is over and run() returns
StopNext(todo) ==
  LET rest == {id \in todo : sess[id].st = "live" /\ rt[id] # None} IN
  \/ \E id \in rest : \E passed \in SUBSET (todo \ rest) :
       /\ StopLocked(Main, "stopall", id, None, todo \ (passed \cup {id}), sess)
       /\ main' = "stopall" /\ UNCHANGED disk
  \/ /\ rest = {}
     /\ Commit(sess)
     /\ main' = "exited"
     /\ thr' = [thr EXCEPT ![Main] = Idle]
     /\ UNCHANGED <<rt, proc, pidfile>>

StopAll ==
  /\ main = "drain"
  /\ StopNext(Live)
  /\ UNCHANGED <<restart, ctxDone, supOn, monOn>>

\* mutant: the process it stops is not waited for
StopAllUnwaited ==
  /\ thr[Main].op = "stopall" /\ main # "exited"
  /\ StopNext(thr[Main].todo)
  /\ UNCHANGED <<restart, ctxDone, supOn, monOn>>

StopAllResume ==
  /\ Woken(Main, "stopall")
  /\ StopNext(thr[Main].todo)
  /\ UNCHANGED <<restart, ctxDone, supOn, monOn>>

Terminated == main = "exited" /\ UNCHANGED vars

---------------------------------------------------------------------------
Init ==
  /\ sess \in {s \in [Ids -> Sessions] :
                 \A id \in Ids : /\ s[id].st # "deleted"
                                 /\ s[id].st = "absent" =>
                                      s[id] = [st |-> "absent", enabled |-> FALSE, limited |-> FALSE,
                                               over |-> FALSE, room |-> CHOOSE r \in Rooms : TRUE,
                                               key |-> CHOOSE k \in Keys : TRUE]}
  /\ rt = [id \in Ids |-> None]
  /\ restart = [id \in Ids |-> "none"]
  /\ proc = [p \in Procs |-> NoProc]
  /\ pidfile \in [Ids -> {None, Stray}]
  /\ \A id \in Ids : sess[id].st = "absent" => pidfile[id] = None
  /\ disk = Persist(sess)
  /\ thr = [t \in Threads |-> Idle]
  /\ main = "boot"
  /\ ctxDone = FALSE /\ supOn = FALSE /\ monOn = FALSE

ClientNext(t) ==
  \/ \E id \in Ids : Update(t, id) \/ Rekey(t, id) \/ ToggleOff(t, id) \/ Delete(t, id)
  \/ UpdateResume(t) \/ RekeyResume(t) \/ ToggleResume(t) \/ DeleteResume(t)

SessionNext(id) ==
  Create(id) \/ ToggleOn(id) \/ ResetTraffic(id) \/ ReadTraffic(id) \/ BackoffElapses(id)

ProcNext(p) == Exit(p) \/ ExitLocked(p) \/ ExitCleanup(p)

MainNext ==
  \/ Restore \/ Listen \/ Cancel \/ SupervisorReturns \/ MonitorReturns
  \/ Shutdown \/ StopAll \/ StopAllResume \/ Terminated

Next ==
  \/ \E t \in Clients : ClientNext(t)
  \/ \E id \in Ids : SessionNext(id)
  \/ SupervisorTick \/ MonitorTick \/ MonitorResume
  \/ \E t \in Threads : StopTimeout(t)
  \/ \E p \in Procs : ProcNext(p)
  \/ MainNext

Spec == Init /\ [][Next]_vars

---------------------------------------------------------------------------
(* What the scheduler, the operating system and the timers give.           *)

\* goroutines run, and sync.Mutex starves none; SIGKILL ends a process; tickers
\* and timers fire.  Strong fairness for the steps that start a process: they
\* wait for a free handle only because Slots is a bound.
Fairness ==
  /\ WF_vars(Restore) /\ WF_vars(Listen) /\ SF_vars(SupervisorTick) /\ WF_vars(MonitorTick) /\ WF_vars(MonitorResume)
  /\ \A t \in Clients : /\ SF_vars(UpdateResume(t)) /\ SF_vars(RekeyResume(t))
                         /\ WF_vars(ToggleResume(t)) /\ WF_vars(DeleteResume(t))
  /\ \A t \in Threads : WF_vars(StopTimeout(t))
  /\ \A p \in Procs : WF_vars(Killed(p)) /\ WF_vars(ExitLocked(p)) /\ WF_vars(ExitCleanup(p))
  /\ \A id \in Ids : WF_vars(BackoffElapses(id))
  /\ WF_vars(SupervisorReturns) /\ WF_vars(MonitorReturns)
  /\ WF_vars(Shutdown) /\ WF_vars(StopAll) /\ WF_vars(StopAllResume)

FairSpec == Spec /\ Fairness

---------------------------------------------------------------------------
(* Properties                                                              *)

\* Every variable keeps its type.
TypeOK ==
  /\ sess \in [Ids -> Sessions]
  /\ rt \in [Ids -> Procs \cup {None}]
  /\ restart \in [Ids -> {"none", "wait", "due"}]
  /\ proc \in [Procs -> Processes]
  /\ pidfile \in [Ids -> Procs \cup {None, Stray}]
  /\ disk \in [Ids -> Saved \cup {None}]
  /\ thr \in [Threads -> Works]
  /\ main \in {"boot", "listen", "serve", "drain", "stopall", "exited"}
  /\ ctxDone \in BOOLEAN /\ supOn \in BOOLEAN /\ monOn \in BOOLEAN

\* One tunnel per session: whatever requests, restarts and stops overlap, the
\* only core process a session has that may be alive is the one m.rt names,
\* so no two processes share one room and one key, and none is out of reach.
OneTunnel ==
  \A p \in Procs : Alive(p) /\ sess[p[1]].st = "live" => rt[p[1]] = p

\* While fzp runs, a pid file names a process whose exit goroutine has not
\* finished: no pid that the system may have given to another program is left
\* for the next start's reclaimStray.
NoStalePidFile ==
  main # "boot" => \A id \in Ids : pidfile[id] # None =>
                     pidfile[id] \in Procs /\ proc[pidfile[id]].st # "down"

\* sessions.json holds what memory holds whenever the lock is free, whoever
\* waits in stopLocked, but for the Limited flags of a monitor tick under way.
SavedState ==
  \A id \in Ids :
    \/ disk[id] = Persist(sess)[id]
    \/ /\ thr[Monitor].op = "limit" /\ sess[id].st = "live" /\ disk[id] # None
       /\ Persist(sess)[id] = [enabled |-> disk[id].enabled, limited |-> TRUE,
                               room |-> disk[id].room, key |-> disk[id].key]

\* Seen from outside: sessions.json, and what runs of the sessions that are not
\* deleted.
Tunnel == [p \in Procs |-> IF proc[p].st = "up" /\ sess[p[1]].st # "deleted"
                          THEN proc[p].conf ELSE None]
Promised == INSTANCE Tunnels WITH saved <- disk, core <- Tunnel, ended <- main = "exited",
                                  removed <- {id \in Ids : sess[id].st = "deleted"}

\* The manager, the processes and the shutdown together keep the promise of
\* module Tunnels: what starts is the only process of a stored session and has
\* the stored room and key, whatever was changed while another request waited.
KeepsTunnels == Promised!Spec

\* Nothing that starts sessions is left: the supervisor has returned and no
\* request is in stopLocked.
Quiet == ~ supOn /\ \A t \in Clients : thr[t] = Idle

\* If the supervisor and all requests are done when StopAll begins, then no
\* session is running when fzp exits.
CleanShutdown ==
  []((main = "drain" /\ Quiet) => [](main = "exited" => \A id \in Live : rt[id] = None))

\* A stop ends: no thread waits in stopLocked for ever, even for a core
\* process that ignores SIGTERM.
StopsEnd == \A t \in Threads : thr[t] # Idle ~> (thr[t] = Idle \/ main = "exited")

\* Ctrl+C leads to the end of fzp.
ShutdownEnds == ctxDone ~> main = "exited"

\* A session that should run and does not is tried again, however often it
\* crashed, unless a user, its limit or the shutdown says otherwise.
ShouldRun(id) == /\ sess[id].st = "live" /\ sess[id].enabled /\ ~ sess[id].limited
                 /\ ~ sess[id].over /\ ~ ctxDone /\ main # "exited"
Revived == \A id \in Ids : ShouldRun(id) ~> (~ ShouldRun(id) \/ rt[id] # None)

\* A session over its limit does not stay running: the monitor stops it,
\* unless it is reset, edited or removed first.
OverLimit(id) == /\ sess[id].st = "live" /\ sess[id].over /\ rt[id] # None
                 /\ ~ ctxDone /\ main # "exited"
LimitEnforced == \A id \in Ids : OverLimit(id) ~> ~ OverLimit(id)

---------------------------------------------------------------------------
(* What the comments and messages of the code say of it, and TLC refutes.  *)

Undisturbed(id) == \A t \in Threads : thr[t].id # id

\* manager.go:320, "Delete stops and permanently removes a session": once a
\* session is deleted and nobody works on it, no process of it is left running.
DeletedIsGone ==
  \A p \in Procs : (sess[p[1]].st = "deleted" /\ Undisturbed(p[1])) => proc[p].st # "up"

\* manager.go:192-193 and 260-261, Update "restarted so the change takes effect
\* immediately", Rekey "restarts it if it was live": a running process was
\* started with the fields and the key its session has now.
ConfigInEffect ==
  \A id \in Live : (rt[id] # None /\ Undisturbed(id)) =>
                       proc[rt[id]].conf = [room |-> sess[id].room, key |-> sess[id].key]

\* loops.go:121-139, a session over its limit is stopped and then marked
\* Limited, and loops.go:22-24, the supervisor "restarts sessions that are
\* enabled but not running", which it does not do for a Limited one: a session
\* that is marked does not run.
LimitedIsStopped ==
  \A id \in Live : (sess[id].limited /\ Undisturbed(id)) => rt[id] = None

\* While nobody waits to change a session, its record and its process agree.
RecordsInEffect == DeletedIsGone /\ ConfigInEffect /\ LimitedIsStopped
===========================================================================
