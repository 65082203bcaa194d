------------------------ MODULE SessionTunnelProofs ------------------------
(***************************************************************************)
(* One tunnel per session and no stale pid file: every step either starts   *)
(* processes, which startLocked does only for sessions without a runtime,   *)
(* or starts none, and both kinds of step keep the invariant TunnelInv.     *)
(* From it follow the refinement of Tunnels, the clean shutdown, and when   *)
(* records and processes agree.                                             *)
(***************************************************************************)
EXTENDS SessionManagerProofs

\* A session that was never created has no process.
Fresh == \A p \in Procs : sess[p[1]].st = "absent" => ~ Alive(p)

\* A pid file belongs to its session, and before Restore there is at most one a
\* previous run left, for a session sessions.json knows.
FilesOK ==
  \A id \in Ids : /\ pidfile[id] \in Procs => pidfile[id][1] = id
                  /\ main = "boot" => /\ pidfile[id] \in {None, Stray}
                                      /\ sess[id].st # "live" => pidfile[id] = None

\* OneTunnel needs Fresh for the sessions a step creates; NoStalePidFile needs
\* FilesOK for the first step, which reclaims the files.
TunnelInv == Fresh /\ OneTunnel /\ FilesOK /\ NoStalePidFile

---------------------------------------------------------------------------
(* A step either starts processes or starts none.                          *)

\* Processes are started, of sessions that had none, with the records that are
\* saved; nothing else changes but that sessions may be created and stray pid
\* files reclaimed.
StartEffect ==
  /\ \E up \in SUBSET Ids : \E files :
       /\ Launch(up, sess', files)
       /\ disk' = Persist(sess') \/ (up = {} /\ disk' = disk)
       /\ \A id \in up : rt[id] = None /\ FreeSlots(id) # {} /\ sess'[id].st # "absent"
       /\ \A id \in Ids : files[id] = None \/ (files[id] = pidfile[id] /\ main # "boot")
  /\ \A id \in Ids : \/ sess'[id].st = sess[id].st
                     \/ sess[id].st = "absent" /\ sess'[id].st = "live"
  /\ main # "exited" /\ main' \notin {"boot", "exited"}

\* No process comes to life, and a handle is given up only for a dead one or
\* with its session; a pid file is removed, or its process is not finished.
NoStartEffect ==
  /\ \A p \in Procs : Alive(p)' => Alive(p)
  /\ \A id \in Ids : sess'[id].st = sess[id].st \/ sess'[id].st = "deleted"
  /\ \A p \in Procs : Alive(p)' /\ sess'[p[1]].st = "live" /\ rt[p[1]] = p => rt'[p[1]] = p
  /\ \A id \in Ids : \/ pidfile'[id] = None
                     \/ /\ pidfile'[id] = pidfile[id]
                        /\ (pidfile[id] \in Procs /\ proc[pidfile[id]].st # "down")
                             => proc'[pidfile[id]].st # "down"
  /\ main' = "boot" <=> main = "boot"
  /\ main = "boot" => \A id \in Ids : sess'[id].st = sess[id].st

\* The same processes run, for the same sessions; nothing is saved after the exit.
Steady ==
  /\ \A p \in Procs : (proc'[p].st = "up") <=> (proc[p].st = "up")
  /\ \A p \in Procs : proc'[p].st = "up" => proc'[p].conf = proc[p].conf
  /\ \A id \in Ids : sess'[id].st = sess[id].st
  /\ main = "exited" => main' = "exited" /\ disk' = disk

\* A process ends, or the session it runs for is deleted.
Ends ==
  \/ \E p \in Procs : Exit(p)
  \/ main # "exited" /\ \E id \in Ids : RemoveSession(id)

\* A step that starts processes keeps the invariant.
LEMMA StartTunnel ==
  ASSUME TypeOK, TypeOK', TunnelInv, StartEffect
  PROVE  TunnelInv'
<1>0. PICK up \in SUBSET Ids :
         \E files :
           /\ Launch(up, sess', files)
           /\ \A id \in up : rt[id] = None /\ FreeSlots(id) # {} /\ sess'[id].st # "absent"
           /\ \A id \in Ids : files[id] = None \/ (files[id] = pidfile[id] /\ main # "boot")
  BY DEF StartEffect
<1>1. PICK files :
         /\ Launch(up, sess', files)
         /\ \A id \in up : rt[id] = None /\ FreeSlots(id) # {} /\ sess'[id].st # "absent"
         /\ \A id \in Ids : files[id] = None \/ (files[id] = pidfile[id] /\ main # "boot")
  BY <1>0
<1>2. \A id \in up : NewProc(id) \in Procs /\ NewProc(id)[1] = id /\ proc[NewProc(id)].st = "down"
  BY <1>1, NewProcFree
<1>3. \A p \in Procs : p[1] \in Ids
  BY DEF Procs
<1>4. \A p \in Procs : IF p[1] \in up /\ p = NewProc(p[1]) THEN proc'[p].st = "up" /\ rt'[p[1]] = p
                       ELSE proc'[p] = proc[p]
  BY <1>1, <1>2, <1>3 DEF Launch
<1>5. Fresh'
  <2> SUFFICES ASSUME NEW p \in Procs, sess'[p[1]].st = "absent" PROVE ~ Alive(p)'
    BY DEF Fresh
  <2>1. sess[p[1]].st = "absent" /\ p[1] \notin up
    BY <1>1, <1>3 DEF StartEffect
  <2> QED
    BY <1>4, <2>1 DEF TunnelInv, Fresh, Alive
<1>6. OneTunnel'
  <2> SUFFICES ASSUME NEW p \in Procs, Alive(p)', sess'[p[1]].st = "live" PROVE rt'[p[1]] = p
    BY DEF OneTunnel
  <2>1. CASE p[1] \in up /\ p = NewProc(p[1])
    BY <1>4, <2>1
  <2>2. CASE ~ (p[1] \in up /\ p = NewProc(p[1]))
    <3>1. Alive(p)
      BY <1>4, <2>2 DEF Alive
    <3>2. sess[p[1]].st = "live"
      BY <1>3, <3>1 DEF StartEffect, TunnelInv, Fresh
    <3>3. rt[p[1]] = p
      BY <3>1, <3>2 DEF TunnelInv, OneTunnel
    <3>4. p[1] \notin up
      BY <1>1, <3>3, NoneAssumption
    <3> QED
      BY <1>1, <1>3, <3>3, <3>4 DEF Launch
  <2> QED
    BY <2>1, <2>2
<1>7. \A id \in Ids : pidfile'[id] = IF id \in up THEN NewProc(id) ELSE files[id]
  BY <1>1 DEF Launch
<1>8. FilesOK'
  BY <1>1, <1>2, <1>7, NoneAssumption DEF FilesOK, TunnelInv, StartEffect
<1>9. NoStalePidFile'
  <2> SUFFICES ASSUME NEW id \in Ids, pidfile'[id] # None
               PROVE  pidfile'[id] \in Procs /\ proc'[pidfile'[id]].st # "down"
    BY DEF NoStalePidFile
  <2>1. CASE id \in up
    BY <1>2, <1>4, <1>7, <2>1
  <2>2. CASE id \notin up
    <3>1. pidfile'[id] = pidfile[id] /\ main # "boot"
      BY <1>1, <1>7, <2>2
    <3>2. pidfile[id] \in Procs /\ proc[pidfile[id]].st # "down"
      BY <3>1 DEF TunnelInv, NoStalePidFile
    <3> QED
      BY <1>4, <3>1, <3>2
  <2> QED
    BY <2>1, <2>2
<1> QED
  BY <1>5, <1>6, <1>8, <1>9 DEF TunnelInv

\* A step that starts none keeps it.
LEMMA NoStartTunnel ==
  ASSUME TypeOK, TunnelInv, NoStartEffect
  PROVE  TunnelInv'
<1>1. \A p \in Procs : p[1] \in Ids
  BY DEF Procs
<1>2. Fresh'
  BY <1>1 DEF TunnelInv, Fresh, NoStartEffect
<1>3. OneTunnel'
  BY <1>1 DEF TunnelInv, OneTunnel, NoStartEffect
<1>4. FilesOK'
  BY NoneAssumption DEF TunnelInv, FilesOK, NoStartEffect
<1>5. NoStalePidFile'
  BY DEF TunnelInv, NoStalePidFile, NoStartEffect
<1> QED
  BY <1>2, <1>3, <1>4, <1>5 DEF TunnelInv

---------------------------------------------------------------------------
(* Every step of Next is of one of the two kinds.                          *)

\* The tail of Create, Update, Rekey and ResetTraffic starts one process or none.
LEMMA StartAndSaveEffect ==
  ASSUME TypeOK, NEW id \in Ids, NEW s \in Sessions, s.st # "absent",
         s.st = sess[id].st \/ (sess[id].st = "absent" /\ s.st = "live"),
         main \notin {"boot", "exited"}, main' = main, NEW want, StartAndSave(id, s, want)
  PROVE  StartEffect
<1>1. PICK r \in (IF want THEN StartLocked(id, s) ELSE {"off"}) :
        LET ss == [sess EXCEPT ![id] = [s EXCEPT !.enabled = @ /\ r \notin Refused]] IN
          Commit(ss) /\ Launch({x \in {id} : r = "spawned"}, ss, pidfile)
  BY DEF StartAndSave
<1> DEFINE ss == [sess EXCEPT ![id] = [s EXCEPT !.enabled = @ /\ r \notin Refused]]
<1> DEFINE up == {x \in {id} : r = "spawned"}
<1>2. \A x \in Ids : IF x = id THEN sess'[x].st = s.st ELSE sess'[x] = sess[x]
  BY <1>1 DEF Commit, TypeOK, Sessions
<1>3. up \in SUBSET Ids /\ \A x \in up : rt[x] = None /\ FreeSlots(x) # {} /\ sess'[x].st # "absent"
  BY <1>1, <1>2, SpawnedFree
<1>4. Launch(up, sess', pidfile) /\ disk' = Persist(sess')
  BY <1>1 DEF Commit
<1> QED
  BY <1>2, <1>3, <1>4 DEF StartEffect

\* stopLocked starts nothing,
LEMMA StopLockedEffect ==
  ASSUME TypeOK, NEW t, NEW op, NEW id \in Ids, NEW room, NEW todo, NEW ss \in [Ids -> Sessions],
         \A x \in Ids : ss[x].st = sess[x].st, main \notin {"boot", "exited"}, main' # "boot",
         StopLocked(t, op, id, room, todo, ss)
  PROVE  NoStartEffect /\ Steady
<1>1. \A x \in Ids : sess'[x].st = sess[x].st
  BY DEF StopLocked, Sessions
<1>2. \A p \in Procs : proc'[p].st = proc[p].st /\ proc'[p].conf = proc[p].conf
  BY DEF StopLocked, TypeOK, Processes
<1>3. NoStartEffect
  BY <1>1, <1>2 DEF StopLocked, NoStartEffect, Alive
<1> QED
  BY <1>1, <1>2, <1>3 DEF Steady

\* nor does monitorTick,
LEMMA MonitorStopEffect ==
  ASSUME TypeOK, NEW todo \in SUBSET Ids, NEW ss \in [Ids -> Sessions],
         \A x \in Ids : ss[x].st = sess[x].st, main \notin {"boot", "exited"}, main' # "boot",
         MonitorStop(todo, ss)
  PROVE  NoStartEffect /\ Steady
<1>1. PICK id \in todo, passed \in SUBSET todo :
        StopLocked(Monitor, "limit", id, None, todo \ (passed \cup {id}), [ss EXCEPT ![id].over = TRUE])
  BY DEF MonitorStop
<1>2. /\ [ss EXCEPT ![id].over = TRUE] \in [Ids -> Sessions]
      /\ \A x \in Ids : [ss EXCEPT ![id].over = TRUE][x].st = sess[x].st
  <2>1. [ss EXCEPT ![id].over = TRUE] \in [Ids -> Sessions]
    BY FlagTypes
  <2> QED
    BY <2>1 DEF Sessions
<1> QED
  BY <1>1, <1>2, StopLockedEffect

\* a step that leaves the processes and their handles alone
LEMMA StillEffect ==
  ASSUME TypeOK, UNCHANGED <<rt, pidfile>>,
         \A p \in Procs : proc'[p].st = proc[p].st /\ proc'[p].conf = proc[p].conf,
         \A x \in Ids : sess'[x].st = sess[x].st, main' = "boot" <=> main = "boot",
         main = "exited" => main' = "exited" /\ disk' = disk
  PROVE  NoStartEffect /\ Steady
<1>1. NoStartEffect
  BY DEF NoStartEffect, Alive
<1>2. /\ \A p \in Procs : (proc'[p].st = "up") <=> (proc[p].st = "up")
      /\ \A p \in Procs : proc'[p].st = "up" => proc'[p].conf = proc[p].conf
  OBVIOUS
<1> QED
  BY <1>1, <1>2 DEF Steady

\* nor StopAll.
LEMMA StopNextEffect ==
  ASSUME TypeOK, NEW todo \in SUBSET Ids, main \notin {"boot", "exited"}, StopNext(todo)
  PROVE  NoStartEffect /\ Steady
<1> DEFINE rest == {id \in todo : sess[id].st = "live" /\ rt[id] # None}
<1>1. CASE \E id \in rest : \E passed \in SUBSET (todo \ rest) :
             StopLocked(Main, "stopall", id, None, todo \ (passed \cup {id}), sess) /\ main' = "stopall"
  BY <1>1, StopLockedEffect DEF TypeOK
<1>2. CASE sess' = sess /\ main' = "exited" /\ UNCHANGED <<rt, proc, pidfile>>
  BY <1>2, StillEffect
<1> QED
  BY <1>1, <1>2 DEF StopNext, Commit

\* Every step of Next is of one of the two kinds; one that starts nothing ends one
\* thing or nothing.
LEMMA StepKinds ==
  ASSUME TypeOK, ThreadOK, FilesOK, [Next]_vars
  PROVE  StartEffect \/ (NoStartEffect /\ (Steady \/ Ends))
<1>0. /\ Monitor \in Threads /\ Main \in Threads /\ Clients \subseteq Threads
      /\ sess \in [Ids -> Sessions]
  BY DEF Threads, TypeOK
<1>1. ASSUME NEW id \in Ids, Create(id) PROVE StartEffect
  <2>1. PICK room \in Rooms, key \in Keys :
          StartAndSave(id, [st |-> "live", enabled |-> TRUE, limited |-> FALSE,
                            over |-> FALSE, room |-> room, key |-> key], TRUE)
    BY <1>1 DEF Create
  <2>2. [st |-> "live", enabled |-> TRUE, limited |-> FALSE,
         over |-> FALSE, room |-> room, key |-> key] \in Sessions
    BY DEF Sessions
  <2>3. main \notin {"boot", "exited"} /\ main' = main /\ sess[id].st = "absent"
    BY <1>1 DEF Create, ctl
  <2> QED
    BY <2>1, <2>2, <2>3, StartAndSaveEffect
<1>2. ASSUME NEW id \in Ids, sess[id].st # "absent", main \notin {"boot", "exited"}, NEW room \in Rooms, NEW running,
             ApplyUpdate(id, room, running)
      PROVE  StartEffect
  <2>1. PICK over \in BOOLEAN :
          StartAndSave(id, [sess[id] EXCEPT !.room = room, !.over = over], running \/ sess[id].enabled)
    BY <1>2 DEF ApplyUpdate
  <2>2. /\ [sess[id] EXCEPT !.room = room, !.over = over] \in Sessions
        /\ [sess[id] EXCEPT !.room = room, !.over = over].st = sess[id].st
    BY <1>0 DEF Sessions
  <2>3. main' = main
    BY <1>2 DEF ApplyUpdate, ctl
  <2> QED
    BY <1>2, <2>1, <2>2, <2>3, StartAndSaveEffect
<1>3. ASSUME NEW id \in Ids, sess[id].st # "absent", main \notin {"boot", "exited"}, NEW running, ApplyRekey(id, running)
      PROVE  StartEffect
  <2>1. PICK key \in Keys : StartAndSave(id, [sess[id] EXCEPT !.key = key], running \/ sess[id].enabled)
    BY <1>3 DEF ApplyRekey
  <2>2. /\ [sess[id] EXCEPT !.key = key] \in Sessions
        /\ [sess[id] EXCEPT !.key = key].st = sess[id].st
    BY <1>0 DEF Sessions
  <2>3. main' = main
    BY <1>3 DEF ApplyRekey, ctl
  <2> QED
    BY <1>3, <2>1, <2>2, <2>3, StartAndSaveEffect
<1>4. ASSUME NEW t, NEW op, NEW id \in Ids, NEW room, Request(id),
             StopLocked(t, op, id, room, {}, sess), UNCHANGED ctl
      PROVE  NoStartEffect /\ Steady
  BY <1>0, <1>4, StopLockedEffect DEF Request, ctl
<1>5. ASSUME NEW id \in Ids, main \notin {"boot", "exited"}, RemoveSession(id) PROVE NoStartEffect /\ Ends
  <2>1. \A x \in Ids : sess'[x].st = sess[x].st \/ sess'[x].st = "deleted"
    BY <1>0, <1>5 DEF RemoveSession, Commit, Sessions
  <2>2. sess'[id].st = "deleted"
    BY <1>0, <1>5 DEF RemoveSession, Commit, Sessions
  <2>3. \A x \in Ids : x # id => rt'[x] = rt[x] /\ pidfile'[x] = pidfile[x]
    BY <1>5 DEF RemoveSession, TypeOK
  <2>4. pidfile'[id] = None /\ proc' = proc /\ main' = main
    BY <1>5 DEF RemoveSession, TypeOK, ctl
  <2>5. \A p \in Procs : p[1] \in Ids
    BY DEF Procs
  <2> QED
    BY <1>5, <2>1, <2>2, <2>3, <2>4, <2>5 DEF NoStartEffect, Alive, Ends
<1>6. ASSUME NEW t \in Clients, NEW id \in Ids, Update(t, id) PROVE StartEffect \/ (NoStartEffect /\ Steady)
  BY <1>2, <1>4, <1>6 DEF Update, Request
<1>7. ASSUME NEW t \in Threads, thr[t].op # "idle"
      PROVE  main # "boot" /\ thr[t].id \in Ids /\ sess[thr[t].id].st # "absent"
  BY <1>7 DEF ThreadOK
<1>8. ASSUME NEW t \in Clients, UpdateResume(t) PROVE StartEffect
  <2>1. thr[t].op = "update" /\ thr[t].room \in Rooms
    BY <1>0, <1>8 DEF UpdateResume, Woken, ThreadOK
  <2> QED
    BY <1>0, <1>2, <1>7, <1>8, <2>1 DEF UpdateResume, Woken
<1>9. ASSUME NEW t \in Clients, NEW id \in Ids, Rekey(t, id) PROVE StartEffect \/ (NoStartEffect /\ Steady)
  BY <1>3, <1>4, <1>9 DEF Rekey, Request
<1>10. ASSUME NEW t \in Clients, RekeyResume(t) PROVE StartEffect
  BY <1>0, <1>3, <1>7, <1>10 DEF RekeyResume, Woken
<1>11. ASSUME NEW t \in Clients, NEW id \in Ids, ToggleOff(t, id) PROVE NoStartEffect /\ Steady
  BY <1>4, <1>11 DEF ToggleOff
<1>12. ASSUME NEW t \in Clients, ToggleResume(t) PROVE NoStartEffect /\ Steady
  <2>1. \A x \in Ids : sess'[x].st = sess[x].st
    BY <1>0, <1>12 DEF ToggleResume, Commit, Sessions
  <2> QED
    BY <1>12, <2>1, StillEffect DEF ToggleResume, Woken, ctl
<1>13. ASSUME NEW id \in Ids, ToggleOn(id) PROVE StartEffect
  <2>1. PICK r \in StartLocked(id, sess[id]) :
          LET ss == [sess EXCEPT ![id].enabled = @ \/ r \notin Refused] IN
            Commit(ss) /\ Launch({x \in {id} : r = "spawned"}, ss, pidfile)
    BY <1>13 DEF ToggleOn
  <2> DEFINE ss == [sess EXCEPT ![id].enabled = @ \/ r \notin Refused]
  <2> DEFINE up == {x \in {id} : r = "spawned"}
  <2>2. \A x \in Ids : sess'[x].st = sess[x].st
    BY <1>0, <2>1 DEF Commit, Sessions
  <2>3. sess[id].st = "live" /\ main \notin {"boot", "exited"} /\ main' = main
    BY <1>13 DEF ToggleOn, Request, ctl
  <2>4. up \in SUBSET Ids /\ \A x \in up : rt[x] = None /\ FreeSlots(x) # {} /\ sess'[x].st # "absent"
    BY <2>1, <2>2, <2>3, SpawnedFree
  <2>5. Launch(up, sess', pidfile) /\ disk' = Persist(sess')
    BY <2>1 DEF Commit
  <2> QED
    BY <2>2, <2>3, <2>4, <2>5 DEF StartEffect
<1>14. ASSUME NEW id \in Ids, ResetTraffic(id) PROVE StartEffect
  <2>1. PICK over \in BOOLEAN :
          StartAndSave(id, [sess[id] EXCEPT !.limited = FALSE, !.over = over], sess[id].enabled /\ rt[id] = None)
    BY <1>0, <1>14 DEF ResetTraffic, Sessions
  <2>2. /\ [sess[id] EXCEPT !.limited = FALSE, !.over = over] \in Sessions
        /\ [sess[id] EXCEPT !.limited = FALSE, !.over = over].st = sess[id].st
    BY <1>0 DEF Sessions
  <2>3. main \notin {"boot", "exited"} /\ main' = main /\ sess[id].st # "absent"
    BY <1>14 DEF ResetTraffic, Request, ctl
  <2> QED
    BY <2>1, <2>2, <2>3, StartAndSaveEffect
<1>15. ASSUME NEW t \in Clients, NEW id \in Ids, Delete(t, id) PROVE NoStartEffect /\ (Steady \/ Ends)
  BY <1>4, <1>5, <1>15 DEF Delete, Request
<1>16. ASSUME NEW t \in Clients, DeleteResume(t) PROVE NoStartEffect /\ Ends
  BY <1>0, <1>5, <1>7, <1>16 DEF DeleteResume, Woken
<1>17. ASSUME NEW id \in Ids, ReadTraffic(id) PROVE NoStartEffect /\ Steady
  <2>1. \A x \in Ids : sess'[x].st = sess[x].st
    BY <1>0, <1>17 DEF ReadTraffic, Sessions
  <2> QED
    BY <1>17, <2>1, StillEffect DEF ReadTraffic, ctl
<1>18. CASE SupervisorTick
  <2>1. PICK up \in SUBSET {id \in Attempt : "spawned" \in StartLocked(id, sess[id])} :
          Launch(up, sess, pidfile) /\ disk' = IF up = {} THEN disk ELSE Persist(sess)
    BY <1>18 DEF SupervisorTick
  <2>2. sess' = sess /\ main \notin {"boot", "exited"} /\ main' = main
    BY <1>18 DEF SupervisorTick, ctl
  <2>3. up \in SUBSET Ids /\ \A x \in up : rt[x] = None /\ FreeSlots(x) # {} /\ sess'[x].st # "absent"
    BY <2>1, <2>2, SpawnedFree DEF Attempt, Live
  <2> QED
    BY <2>1, <2>2, <2>3 DEF StartEffect
<1>19. CASE MonitorTick
  <2>1. Live \in SUBSET Ids /\ main \notin {"boot", "exited"} /\ main' = main
    BY <1>19 DEF Live, MonitorTick, ctl
  <2> QED
    BY <1>0, <1>19, <2>1, MonitorStopEffect DEF MonitorTick
<1>20. CASE MonitorResume
  <2> DEFINE ss == [sess EXCEPT ![thr[Monitor].id].limited = TRUE]
  <2>1. ss \in [Ids -> Sessions] /\ \A x \in Ids : ss[x].st = sess[x].st
    BY <1>0 DEF Sessions
  <2>2. thr[Monitor].todo \in SUBSET Ids
    BY <1>0 DEF TypeOK, Works
  <2>3. main' = main /\ main \notin {"boot", "exited"}
    BY <1>0, <1>7, <1>20 DEF MonitorResume, ctl, Woken
  <2>4. CASE MonitorStop(thr[Monitor].todo, ss)
    BY <2>1, <2>2, <2>3, <2>4, MonitorStopEffect
  <2>5. CASE sess' = ss /\ UNCHANGED <<rt, proc, pidfile>>
    BY <2>1, <2>3, <2>5, StillEffect
  <2> QED
    BY <1>20, <2>4, <2>5 DEF MonitorResume, Commit
<1>21. ASSUME NEW t \in Threads, StopTimeout(t) PROVE NoStartEffect /\ Steady
  <2>1. \A p \in Procs : proc'[p].st = proc[p].st /\ proc'[p].conf = proc[p].conf
    BY <1>21 DEF StopTimeout, TypeOK, Processes
  <2> QED
    BY <1>21, <2>1, StillEffect DEF StopTimeout, ctl
<1>22. ASSUME NEW p \in Procs, Exit(p) PROVE NoStartEffect /\ Ends
  <2>1. \A q \in Procs : IF q = p THEN proc[q].st = "up" /\ proc'[q].st = "exited" ELSE proc'[q] = proc[q]
    BY <1>22 DEF Exit, TypeOK, Processes
  <2> QED
    BY <1>22, <2>1 DEF Exit, ctl, NoStartEffect, Alive, Ends
<1>23. ASSUME NEW p \in Procs, ExitLocked(p) PROVE NoStartEffect /\ Steady
  <2>1. \A q \in Procs : IF q = p THEN proc[q].st = "exited" /\ proc'[q].st = "reaped"
                         ELSE proc'[q] = proc[q]
    BY <1>23 DEF ExitLocked, TypeOK, Processes
  <2>2. sess' = sess \/ \E over : sess' = [sess EXCEPT ![p[1]].over = over]
    BY <1>23 DEF ExitLocked
  <2>3. ASSUME NEW over, sess' = [sess EXCEPT ![p[1]].over = over]
        PROVE  \A x \in Ids : sess'[x].st = sess[x].st
    BY <1>0, <2>3 DEF Sessions
  <2>4. \A x \in Ids : sess'[x].st = sess[x].st
    BY <2>2, <2>3
  <2>5. \A x \in Ids : rt'[x] = rt[x] \/ rt[x] = p
    BY <1>23 DEF ExitLocked, TypeOK
  <2>6. \A q \in Procs : q[1] \in Ids
    BY DEF Procs
  <2>7. \A q \in Procs : Alive(q)' /\ rt[q[1]] = q => rt'[q[1]] = q
    BY <2>1, <2>5, <2>6 DEF Alive
  <2> QED
    BY <1>23, <2>1, <2>4, <2>7 DEF ExitLocked, ctl, NoStartEffect, Steady, Alive
<1>24. ASSUME NEW p \in Procs, ExitCleanup(p) PROVE NoStartEffect /\ Steady
  <2>1. \A q \in Procs : IF q = p THEN proc[q].st = "reaped" /\ proc'[q].st = "down"
                         ELSE proc'[q] = proc[q]
    BY <1>24 DEF ExitCleanup, TypeOK, NoProc
  <2>2. \A id \in Ids : IF id = p[1] THEN pidfile'[id] = None ELSE pidfile'[id] = pidfile[id]
    BY <1>24 DEF ExitCleanup, TypeOK
  <2>3. \A id \in Ids : pidfile[id] \in Procs => pidfile[id][1] = id
    BY DEF FilesOK
  <2> QED
    BY <1>24, <2>1, <2>2, <2>3 DEF ExitCleanup, ctl, NoStartEffect, Steady, Alive
<1>25. CASE Restore
  <2> DEFINE wanted == {id \in Live : sess[id].enabled}
  <2> DEFINE ss(up) == [id \in Ids |-> IF id \in wanted \ up THEN [sess[id] EXCEPT !.enabled = FALSE]
                                       ELSE sess[id]]
  <2> DEFINE files == [id \in Ids |-> IF id \in Live THEN None ELSE pidfile[id]]
  <2>1. PICK up \in SUBSET {id \in wanted : "spawned" \in StartLocked(id, sess[id])} :
          sess' = ss(up) /\ disk' = Persist(sess') /\ Launch(up, ss(up), files)
    BY <1>25 DEF Restore, Commit
  <2>2. main = "boot" /\ main' = "listen"
    BY <1>25 DEF Restore
  <2>3. \A x \in Ids : sess'[x].st = sess[x].st
    BY <1>0, <2>1 DEF Sessions
  <2>4. up \in SUBSET Ids /\ \A x \in up : rt[x] = None /\ FreeSlots(x) # {} /\ sess'[x].st # "absent"
    BY <2>1, <2>3, SpawnedFree DEF Live
  <2>5. \A x \in Ids : files[x] = None
    BY <2>2 DEF FilesOK, Live
  <2>6. Launch(up, sess', files) /\ disk' = Persist(sess')
    BY <2>1
  <2> HIDE DEF files, ss, wanted
  <2> QED
    BY <2>2, <2>3, <2>4, <2>5, <2>6 DEF StartEffect
<1>26. CASE StopAll
  <2>1. Live \in SUBSET Ids
    BY DEF Live
  <2> QED
    BY <1>26, <2>1, StopNextEffect DEF StopAll
<1>27. CASE StopAllResume
  <2>1. thr[Main].todo \in SUBSET Ids
    BY <1>0 DEF TypeOK, Works
  <2>2. main \notin {"boot", "exited"}
    BY <1>0, <1>7, <1>27 DEF StopAllResume, Woken
  <2> QED
    BY <1>27, <2>1, <2>2, StopNextEffect DEF StopAllResume
<1>28. ASSUME NEW id \in Ids, BackoffElapses(id) PROVE NoStartEffect /\ Steady
  BY <1>28, StillEffect DEF BackoffElapses, ctl
<1>29. CASE Listen \/ Cancel \/ SupervisorReturns \/ MonitorReturns \/ Shutdown \/ Terminated \/ UNCHANGED vars
  BY <1>29, StillEffect DEF Listen, Cancel, SupervisorReturns, MonitorReturns, Shutdown, Terminated, vars
<1> QED
  BY <1>1, <1>6, <1>8, <1>9, <1>10, <1>11, <1>12, <1>13, <1>14, <1>15, <1>16, <1>17, <1>18, <1>19,
     <1>20, <1>21, <1>22, <1>23, <1>24, <1>25, <1>26, <1>27, <1>28, <1>29
     DEF Next, ClientNext, SessionNext, ProcNext, MainNext

\* Every step of Next keeps the invariant.
LEMMA TunnelStep ==
  ASSUME TypeOK, TypeOK', ThreadOK, TunnelInv, [Next]_vars
  PROVE  TunnelInv'
<1>1. FilesOK
  BY DEF TunnelInv
<1> QED
  BY <1>1, StepKinds, StartTunnel, NoStartTunnel

\* The invariant holds when fzp starts: the system kills the processes of a
\* previous run with it, or Restore does.
LEMMA TunnelInit == Init => TunnelInv
<1> SUFFICES ASSUME Init PROVE TunnelInv
  OBVIOUS
<1>1. \A p \in Procs : ~ Alive(p)
  BY DEF Init, NoProc, Alive
<1>2. FilesOK
  BY NoneAssumption DEF Init, FilesOK, Sessions
<1> QED
  BY <1>1, <1>2 DEF Init, TunnelInv, Fresh, OneTunnel, NoStalePidFile

\* In every behaviour the strengthened invariant holds.
LEMMA TunnelInvariant == Spec => []TunnelInv
<1>1. Init => TypeOK /\ ThreadOK /\ TunnelInv
  BY TunnelInit, TypeInit
<1>2. TypeOK /\ ThreadOK /\ TunnelInv /\ [Next]_vars => TypeOK' /\ ThreadOK' /\ TunnelInv'
  BY TypeStep, ThreadStep, TunnelStep
<1> QED
  BY <1>1, <1>2, PTL DEF Spec

\* In every behaviour, whatever requests, restarts, crashes and stops overlap, a
\* session has at most one live process, the one m.rt names (startLocked's
\* check, the exit goroutine's harvest).
THEOREM TunnelsCorrect == Spec => []OneTunnel
<1>1. TunnelInv => OneTunnel
  BY DEF TunnelInv
<1> QED
  BY <1>1, TunnelInvariant, PTL

\* In every behaviour, while fzp runs no pid file outlives its process's exit
\* goroutine (startLocked, Delete, reclaimStray).
THEOREM PidFilesCorrect == Spec => []NoStalePidFile
<1>1. TunnelInv => NoStalePidFile
  BY DEF TunnelInv
<1> QED
  BY <1>1, TunnelInvariant, PTL

---------------------------------------------------------------------------
(* The manager implements module Tunnels.                                  *)

deleted == {id \in Ids : sess[id].st = "deleted"}
ended == main = "exited"

\* Whatever a step writes to sessions.json, only a deleted session leaves it.
LEMMA SaveKept ==
  ASSUME TypeOK', SavedState, SavedState',
         \A id \in Ids : sess'[id].st = "absent" => sess[id].st = "absent"
  PROVE  Promised!Save
<1>1. \A id \in Ids : disk'[id] = None => sess'[id].st # "live"
  <2> SUFFICES ASSUME NEW id \in Ids, sess'[id].st = "live" PROVE disk'[id] # None
    OBVIOUS
  <2>1. Persist(sess')[id] \in Saved
    BY DEF Persist, TypeOK, Sessions, Saved
  <2> QED
    BY <2>1, NoneAssumption DEF SavedState
<1>2. \A id \in Ids : sess[id].st # "live" => disk[id] = None
  BY DEF SavedState, Persist
<1>3. \A id \in Ids : sess'[id].st # "live" => disk'[id] = None
  BY DEF SavedState, Persist
<1>4. disk' \in [Ids -> Promised!Saved \cup {None}]
  BY DEF TypeOK, Saved, Promised!Saved
<1>5. \A id \in Ids : disk'[id] = None => disk[id] = None \/ id \in deleted'
  BY <1>1, <1>2 DEF deleted, TypeOK, Sessions
<1>6. \A id \in deleted' : disk'[id] = None
  BY <1>3 DEF deleted
<1> QED
  BY <1>4, <1>5, <1>6 DEF Promised!Save, deleted

\* A process that is started is the only one of a stored session.
LEMMA StartOpens ==
  ASSUME TypeOK, TypeOK', TunnelInv, Promised!Save, StartEffect
  PROVE  \E up \in SUBSET Procs : Promised!Open(up)
<1>1. PICK up \in SUBSET Ids :
         /\ \E files : Launch(up, sess', files)
         /\ disk' = Persist(sess') \/ (up = {} /\ disk' = disk)
         /\ \A id \in up : rt[id] = None /\ FreeSlots(id) # {} /\ sess'[id].st # "absent"
  BY DEF StartEffect
<1>2. /\ \A id \in Ids : \/ sess'[id].st = sess[id].st
                         \/ sess[id].st = "absent" /\ sess'[id].st = "live"
      /\ ~ ended /\ ~ ended'
  BY DEF StartEffect, ended
<1>3. \A id \in up : NewProc(id) \in Procs /\ NewProc(id)[1] = id /\ proc[NewProc(id)].st = "down"
  BY <1>1, NewProcFree
<1>4. \A p \in Procs : p[1] \in Ids
  BY DEF Procs
<1> DEFINE New == {p \in Procs : p[1] \in up /\ p = NewProc(p[1]) /\ sess'[p[1]].st = "live"}
<1>5. \A p \in Procs : IF p[1] \in up /\ p = NewProc(p[1])
                       THEN proc'[p] = [st |-> "up", sig |-> "none",
                                        conf |-> [room |-> sess'[p[1]].room, key |-> sess'[p[1]].key]]
                       ELSE proc'[p] = proc[p]
  BY <1>1 DEF Launch
<1>6. deleted' = deleted
  BY <1>2 DEF deleted
<1>7. \A p \in New : Promised!RunsNone(p[1])
  <2> SUFFICES ASSUME NEW p \in New, NEW q \in Procs, q[1] = p[1] PROVE Tunnel[q] = None
    BY DEF Promised!RunsNone, Promised!Procs, Procs
  <2>1. rt[q[1]] = None /\ sess[q[1]].st \in {"absent", "live"}
    BY <1>1, <1>2, <1>4
  <2>2. ~ Alive(q)
    BY <2>1, NoneAssumption DEF TunnelInv, Fresh, OneTunnel
  <2> QED
    BY <2>2 DEF Tunnel, Alive
<1>8. \A p \in New : disk'[p[1]] # None /\ disk'[p[1]].room = sess'[p[1]].room
                                        /\ disk'[p[1]].key = sess'[p[1]].key
  <2> SUFFICES ASSUME NEW p \in New
               PROVE  disk'[p[1]] # None /\ disk'[p[1]].room = sess'[p[1]].room
                                         /\ disk'[p[1]].key = sess'[p[1]].key
    OBVIOUS
  <2>1. disk'[p[1]] = [enabled |-> sess'[p[1]].enabled, limited |-> sess'[p[1]].limited,
                       room |-> sess'[p[1]].room, key |-> sess'[p[1]].key]
    BY <1>1, <1>4 DEF Persist
  <2>2. disk'[p[1]] \in Saved
    BY <1>4, <2>1 DEF TypeOK, Sessions, Saved
  <2> QED
    BY <2>1, <2>2, NoneAssumption
<1>9. \A p, q \in New : p[1] = q[1] => p = q
  OBVIOUS
<1>10. Tunnel' = [p \in Procs |-> IF p \in New
                                  THEN [room |-> disk'[p[1]].room, key |-> disk'[p[1]].key]
                                  ELSE Tunnel[p]]
  <2> SUFFICES ASSUME NEW p \in Procs
               PROVE  (IF proc'[p].st = "up" /\ sess'[p[1]].st # "deleted" THEN proc'[p].conf ELSE None)
                        = IF p \in New THEN [room |-> disk'[p[1]].room, key |-> disk'[p[1]].key]
                          ELSE IF proc[p].st = "up" /\ sess[p[1]].st # "deleted" THEN proc[p].conf ELSE None
    BY DEF Tunnel
  <2>1. CASE p \in New
    <3>0. proc'[p] = [st |-> "up", sig |-> "none",
                      conf |-> [room |-> sess'[p[1]].room, key |-> sess'[p[1]].key]]
      BY <1>5, <2>1
    <3>1. proc'[p].st = "up" /\ proc'[p].conf = [room |-> sess'[p[1]].room, key |-> sess'[p[1]].key]
      BY <3>0
    <3>2. disk'[p[1]].room = sess'[p[1]].room /\ disk'[p[1]].key = sess'[p[1]].key
      BY <1>8, <2>1
    <3>3. sess'[p[1]].st # "deleted"
      BY <2>1
    <3> QED
      BY <2>1, <3>1, <3>2, <3>3
  <2>2. CASE p[1] \in up /\ p = NewProc(p[1]) /\ p \notin New
    <3>1. sess'[p[1]].st = "deleted"
      BY <1>1, <1>4, <2>2 DEF TypeOK, Sessions
    <3> QED
      BY <1>3, <2>2, <3>1
  <2>3. CASE ~ (p[1] \in up /\ p = NewProc(p[1]))
    <3>1. proc'[p] = proc[p] /\ p \notin New
      BY <1>5, <2>3
    <3>2. CASE sess'[p[1]].st = sess[p[1]].st
      BY <3>1, <3>2
    <3>3. CASE sess[p[1]].st = "absent" /\ sess'[p[1]].st = "live"
      BY <3>1, <3>3
    <3> QED
      BY <1>2, <1>4, <3>2, <3>3
  <2> QED
    BY <2>1, <2>2, <2>3
<1> HIDE DEF New
<1>11. Promised!Open(New)
  BY <1>2, <1>6, <1>7, <1>8, <1>9, <1>10 DEF Promised!Open, Promised!Procs, Procs, deleted, ended
<1>12. New \in SUBSET Procs
  BY DEF New
<1> QED
  BY <1>11, <1>12

\* A step that starts and ends none shows at most as a write of sessions.json.
LEMMA SteadyWrites ==
  ASSUME Promised!Save, Steady
  PROVE  Promised!Write \/ Promised!End \/ UNCHANGED Promised!vars
<1>1. \A p \in Procs : p[1] \in Ids
  BY DEF Procs
<1>2. Tunnel' = Tunnel
  BY <1>1 DEF Steady, Tunnel
<1>3. deleted' = deleted
  BY DEF Steady, deleted
<1>4. CASE main = "exited"
  BY <1>2, <1>3, <1>4 DEF Steady, Promised!vars, deleted
<1>5. CASE main # "exited" /\ main' # "exited"
  BY <1>2, <1>3, <1>5 DEF Promised!Write, deleted
<1>6. CASE main # "exited" /\ main' = "exited"
  BY <1>2, <1>3, <1>6 DEF Promised!End, deleted
<1> QED
  BY <1>4, <1>5, <1>6

\* A process ends for itself, or its session is deleted.
LEMMA EndCloses ==
  ASSUME TypeOK, Promised!Save, Ends
  PROVE  \/ \E p \in Procs : Promised!Close(p)
         \/ \E id \in Ids : Promised!Remove(id)
         \/ UNCHANGED Promised!vars
<1>1. \A p \in Procs : p[1] \in Ids
  BY DEF Procs
<1>2. ASSUME NEW p \in Procs, Exit(p) PROVE Promised!Close(p) \/ UNCHANGED Promised!vars
  <2>1. sess' = sess /\ disk' = disk /\ main' = main
    BY <1>2 DEF Exit, ctl
  <2>2. \A q \in Procs : IF q = p THEN proc[q].st = "up" /\ proc'[q].st = "exited" ELSE proc'[q] = proc[q]
    BY <1>2 DEF Exit, TypeOK, Processes
  <2>3. Tunnel' = [Tunnel EXCEPT ![p] = None]
    BY <2>1, <2>2 DEF Tunnel
  <2>4. CASE Tunnel[p] = None
    <3>1. Tunnel' = Tunnel
      BY <2>3, <2>4 DEF Tunnel
    <3> QED
      BY <2>1, <3>1 DEF Promised!vars
  <2>5. CASE Tunnel[p] # None
    BY <2>1, <2>3, <2>5 DEF Promised!Close
  <2> QED
    BY <2>4, <2>5
<1>3. ASSUME NEW id \in Ids, main # "exited", RemoveSession(id) PROVE Promised!Remove(id)
  <2>1. proc' = proc /\ main' = main
    BY <1>3 DEF RemoveSession, ctl
  <2>2. \A x \in Ids : IF x = id THEN sess'[x].st = "deleted" ELSE sess'[x] = sess[x]
    BY <1>3 DEF RemoveSession, Commit, TypeOK, Sessions
  <2>3. deleted' = deleted \cup {id}
    BY <2>2 DEF deleted
  <2>4. Tunnel' = [p \in Procs |-> IF p[1] = id THEN None ELSE Tunnel[p]]
    BY <1>1, <2>1, <2>2 DEF Tunnel
  <2> QED
    BY <1>3, <2>1, <2>3, <2>4 DEF Promised!Remove, Promised!Procs, Procs, deleted
<1> QED
  BY <1>2, <1>3 DEF Ends

\* Every step of the manager is a step of Tunnels, or none.
LEMMA PromisedStep ==
  ASSUME TypeOK, TypeOK', ThreadOK, TunnelInv, SavedState, SavedState', [Next]_vars
  PROVE  Promised!Next \/ UNCHANGED Promised!vars
<1>1. StartEffect \/ (NoStartEffect /\ (Steady \/ Ends))
  BY StepKinds DEF TunnelInv
<1>2. \A id \in Ids : sess'[id].st = "absent" => sess[id].st = "absent"
  BY <1>1 DEF StartEffect, NoStartEffect
<1>3. Promised!Save
  BY <1>2, SaveKept
<1>4. CASE StartEffect
  BY <1>3, <1>4, StartOpens DEF Promised!Next, Promised!Procs, Procs
<1>5. CASE Steady
  BY <1>3, <1>5, SteadyWrites DEF Promised!Next
<1>6. CASE Ends
  BY <1>3, <1>6, EndCloses DEF Promised!Next, Promised!Procs, Procs
<1> QED
  BY <1>1, <1>4, <1>5, <1>6

\* fzp starts with what sessions.json holds and with no process.
LEMMA PromisedInit == Init => Promised!Init
<1> SUFFICES ASSUME Init PROVE Promised!Init
  OBVIOUS
<1>1. disk \in [Ids -> Promised!Saved \cup {None}]
  BY TypeInit DEF TypeOK, Saved, Promised!Saved
<1>2. {id \in Ids : sess[id].st = "deleted"} = {}
  BY DEF Init
<1>3. Tunnel = [p \in Ids \X Slots |-> None]
  BY DEF Init, Tunnel, NoProc, Procs
<1>4. ~ (main = "exited")
  BY DEF Init
<1> QED
  BY <1>1, <1>2, <1>3, <1>4 DEF Promised!Init, Promised!Procs

\* The session manager implements Tunnels: for any number of sessions, requests
\* and processes, whatever overlaps, a core process that starts is the only one
\* of a session that sessions.json holds, with the room and the key stored there,
\* no session leaves the file but by Delete, and after the exit nothing starts.
THEOREM TunnelsKept == Spec => KeepsTunnels
<1>1. Init => TypeOK /\ ThreadOK /\ TunnelInv /\ SavedState /\ Promised!Init
  BY TunnelInit, TypeInit, SavedInit, PromisedInit
<1>2. TypeOK /\ ThreadOK /\ TunnelInv /\ SavedState /\ [Next]_vars
        => TypeOK' /\ ThreadOK' /\ TunnelInv' /\ SavedState' /\ [Promised!Next]_(Promised!vars)
  BY TypeStep, ThreadStep, TunnelStep, SavedStep, PromisedStep
<1> QED
  BY <1>1, <1>2, PTL DEF Spec, KeepsTunnels, Promised!Spec

---------------------------------------------------------------------------
(* A clean shutdown: once nothing is left that starts sessions, StopAll's    *)
(* range stops every session, although it gives up the lock for each.       *)

\* m.rt names processes of the session that exit goroutines have not collected.
Handles ==
  \A id \in Ids : rt[id] # None => rt[id] \in Procs /\ rt[id][1] = id /\ Alive(rt[id])

\* A step takes a session's handle away, keeps it with its process, or gives it
\* the handle of a new process.
HandleEffect ==
  \A id \in Ids : \/ rt'[id] = None
                  \/ rt'[id] = rt[id] /\ (Alive(rt[id]) => Alive(rt[id])')
                  \/ rt'[id] \in Procs /\ rt'[id][1] = id /\ proc'[rt'[id]].st = "up"

\* Such a step keeps Handles.
LEMMA HandleEffectOK == ASSUME Handles, HandleEffect PROVE Handles'
BY DEF Handles, HandleEffect, Alive

\* What startLocked starts,
LEMMA LaunchHandles ==
  ASSUME TypeOK, Handles, NEW up \in SUBSET Ids, \A id \in up : FreeSlots(id) # {},
         NEW ss, NEW files, Launch(up, ss, files)
  PROVE  HandleEffect
<1>1. \A id \in up : NewProc(id) \in Procs /\ NewProc(id)[1] = id /\ proc[NewProc(id)].st = "down"
  BY NewProcFree
<1>2. ASSUME NEW id \in up PROVE rt'[id] \in Procs /\ rt'[id][1] = id /\ proc'[rt'[id]].st = "up"
  BY <1>1, <1>2 DEF Launch
<1>3. ASSUME NEW id \in Ids \ up, rt[id] # None PROVE rt'[id] = rt[id] /\ proc'[rt[id]] = proc[rt[id]]
  BY <1>3 DEF Launch, Handles
<1>4. \A id \in Ids \ up : rt'[id] = rt[id]
  BY DEF Launch
<1> QED BY <1>2, <1>3, <1>4 DEF HandleEffect, Alive

\* the shared tail of the requests,
LEMMA StartHandles ==
  ASSUME TypeOK, Handles, NEW id \in Ids, NEW s, NEW want, StartAndSave(id, s, want)
  PROVE  HandleEffect
<1>1. PICK r \in (IF want THEN StartLocked(id, s) ELSE {"off"}) :
        LET ss == [sess EXCEPT ![id] = [s EXCEPT !.enabled = @ /\ r \notin Refused]] IN
          Commit(ss) /\ Launch({x \in {id} : r = "spawned"}, ss, pidfile)
  BY DEF StartAndSave
<1> DEFINE up == {x \in {id} : r = "spawned"}
<1>2. up \in SUBSET Ids /\ \A x \in up : FreeSlots(x) # {}
  BY <1>1, SpawnedFree
<1> QED BY <1>1, <1>2, LaunchHandles

\* and what stops a process or leaves all of them alone.
LEMMA StillHandles ==
  ASSUME TypeOK, Handles, UNCHANGED rt, \A p \in Procs : Alive(p) => Alive(p)'
  PROVE  HandleEffect
BY DEF HandleEffect, Handles

\* stopLocked signals, no more.
LEMMA StopLockedAlive ==
  ASSUME TypeOK, NEW t, NEW op, NEW id, NEW room, NEW todo, NEW ss, StopLocked(t, op, id, room, todo, ss)
  PROVE  UNCHANGED rt /\ \A p \in Procs : Alive(p) => Alive(p)'
<1>1. \A p \in Procs : proc'[p].st = proc[p].st
  BY DEF StopLocked, TypeOK, Processes
<1> QED BY <1>1 DEF StopLocked, Alive

\* Every step has one of these effects.
LEMMA HandlesStep ==
  ASSUME TypeOK, ThreadOK, Handles, [Next]_vars
  PROVE  Handles'
<1> SUFFICES HandleEffect BY HandleEffectOK
<1>s. ASSUME NEW t, NEW op, NEW id, NEW room, NEW todo, NEW ss, StopLocked(t, op, id, room, todo, ss)
      PROVE  HandleEffect
  BY <1>s, StopLockedAlive, StillHandles
<1>r. ASSUME NEW id \in Ids, RemoveSession(id) PROVE HandleEffect
  BY <1>r DEF RemoveSession, HandleEffect, TypeOK, Alive
<1>p. ASSUME UNCHANGED <<rt, proc>> PROVE HandleEffect
  BY <1>p, StillHandles DEF Alive
<1>1. ASSUME NEW id \in Ids, Create(id) \/ ToggleOn(id) \/ ResetTraffic(id) PROVE HandleEffect
  <2>1. CASE Create(id) BY <2>1, StartHandles DEF Create
  <2>2. CASE ToggleOn(id)
    <3>1. PICK r \in StartLocked(id, sess[id]) :
            LET ss == [sess EXCEPT ![id].enabled = @ \/ r \notin Refused] IN
              Launch({x \in {id} : r = "spawned"}, ss, pidfile)
      BY <2>2 DEF ToggleOn
    <3> DEFINE up == {x \in {id} : r = "spawned"}
    <3>2. up \in SUBSET Ids /\ \A x \in up : FreeSlots(x) # {} BY <3>1, SpawnedFree
    <3> QED BY <3>1, <3>2, LaunchHandles
  <2>3. CASE ResetTraffic(id) BY <2>3, StartHandles DEF ResetTraffic
  <2> QED BY <1>1, <2>1, <2>2, <2>3
<1>2. ASSUME NEW t \in Clients, NEW id \in Ids, Update(t, id) \/ Rekey(t, id) \/ ToggleOff(t, id) \/ Delete(t, id)
      PROVE  HandleEffect
  BY <1>2, <1>s, <1>r, StartHandles DEF Update, ApplyUpdate, Rekey, ApplyRekey, ToggleOff, Delete
<1>3. ASSUME NEW t \in Clients, thr[t].op # "idle",
             UpdateResume(t) \/ RekeyResume(t) \/ ToggleResume(t) \/ DeleteResume(t)
      PROVE  HandleEffect
  <2>1. CASE ToggleResume(t) BY <2>1, <1>p DEF ToggleResume
  <2>2. CASE DeleteResume(t)
    BY <2>2 DEF DeleteResume, RemoveSession, HandleEffect, TypeOK, Alive
  <2>3. CASE UpdateResume(t) \/ RekeyResume(t)
    <3>1. thr[t].id \in Ids BY <1>3 DEF ThreadOK, Threads
    <3>2. CASE UpdateResume(t) BY <3>1, <3>2, StartHandles DEF UpdateResume, ApplyUpdate
    <3>3. CASE RekeyResume(t) BY <3>1, <3>3, StartHandles DEF RekeyResume, ApplyRekey
    <3> QED BY <2>3, <3>2, <3>3
  <2> QED BY <1>3, <2>1, <2>2, <2>3
<1>4. ASSUME NEW id \in Ids, ReadTraffic(id) \/ BackoffElapses(id) PROVE HandleEffect
  BY <1>4, <1>p DEF ReadTraffic, BackoffElapses
<1>5. CASE SupervisorTick
  <2>1. PICK up \in SUBSET {id \in Attempt : "spawned" \in StartLocked(id, sess[id])} :
          Launch(up, sess, pidfile)
    BY <1>5 DEF SupervisorTick
  <2>2. up \in SUBSET Ids /\ \A x \in up : FreeSlots(x) # {}
    BY <2>1, SpawnedFree DEF Attempt, Live
  <2> QED BY <2>1, <2>2, LaunchHandles
<1>6. CASE MonitorTick \/ MonitorResume
  BY <1>6, <1>s, <1>p DEF MonitorTick, MonitorResume, MonitorStop
<1>7. ASSUME NEW t \in Threads, StopTimeout(t) PROVE HandleEffect
  <2>1. \A p \in Procs : proc'[p].st = proc[p].st
    BY <1>7 DEF StopTimeout, TypeOK, Processes
  <2> QED BY <1>7, <2>1, StillHandles DEF StopTimeout, Alive
<1>8. ASSUME NEW p \in Procs, Exit(p) PROVE HandleEffect
  <2>1. \A q \in Procs : IF q = p THEN proc'[q].st = "exited" ELSE proc'[q] = proc[q]
    BY <1>8 DEF Exit, TypeOK, Processes
  <2> QED BY <1>8, <2>1, StillHandles DEF Exit, Alive
<1>9. ASSUME NEW p \in Procs, ExitLocked(p) PROVE HandleEffect
  <2>1. \A q \in Procs : q # p => proc'[q] = proc[q]
    BY <1>9 DEF ExitLocked, TypeOK
  <2>2. \A id \in Ids : rt'[id] = None \/ (rt'[id] = rt[id] /\ rt[id] # p)
    BY <1>9 DEF ExitLocked, TypeOK, Handles
  <2> QED BY <2>1, <2>2 DEF HandleEffect, Handles, Alive
<1>10. ASSUME NEW p \in Procs, ExitCleanup(p) PROVE HandleEffect
  <2>1. \A q \in Procs : q # p => proc'[q] = proc[q]
    BY <1>10 DEF ExitCleanup, TypeOK
  <2>2. ~ Alive(p) BY <1>10 DEF ExitCleanup, Alive
  <2> QED BY <1>10, <2>1, <2>2, StillHandles DEF ExitCleanup, Alive
<1>11. CASE Restore
  <2>1. PICK up \in SUBSET {id \in {x \in Live : sess[x].enabled} : "spawned" \in StartLocked(id, sess[id])} :
          \E ss, files : Launch(up, ss, files)
    BY <1>11 DEF Restore
  <2>2. up \in SUBSET Ids /\ \A x \in up : FreeSlots(x) # {}
    BY <2>1, SpawnedFree DEF Live
  <2> QED BY <2>1, <2>2, LaunchHandles
<1>12. CASE StopAll \/ StopAllResume
  BY <1>12, <1>s, <1>p DEF StopAll, StopAllResume, StopNext
<1>13. CASE Listen \/ Cancel \/ SupervisorReturns \/ MonitorReturns \/ Shutdown \/ Terminated \/ UNCHANGED vars
  BY <1>13, <1>p DEF Listen, Cancel, SupervisorReturns, MonitorReturns, Shutdown, Terminated, vars
<1> QED
  BY <1>1, <1>2, <1>3, <1>4, <1>5, <1>6, <1>7, <1>8, <1>9, <1>10, <1>11, <1>12, <1>13
     DEF Next, ClientNext, SessionNext, ProcNext, MainNext, UpdateResume, RekeyResume, ToggleResume,
         DeleteResume, Woken

---------------------------------------------------------------------------
(* The drain                                                               *)

\* main waits for a process in StopAll only.
MainIdle == main \in {"boot", "listen", "serve", "drain"} => thr[Main].op = "idle"

\* Every step keeps main out of stopLocked before the drain.
LEMMA MainStep ==
  ASSUME TypeOK, MainIdle, [Next]_vars
  PROVE  MainIdle'
<1>0. Monitor \in Threads /\ Main \in Threads /\ Clients \subseteq Threads /\ Main \notin Clients /\ Monitor # Main
  BY ThreadAssumption DEF Threads
<1>s. ASSUME thr'[Main].op = thr[Main].op, main' \in {"boot", "listen", "serve", "drain"}
                                              => main \in {"boot", "listen", "serve", "drain"}
      PROVE  MainIdle'
  BY <1>s DEF MainIdle
<1>t. ASSUME NEW t \in Threads, t # Main, NEW w, thr' = [thr EXCEPT ![t] = w], main' = main PROVE MainIdle'
  BY <1>0, <1>s, <1>t DEF TypeOK
<1>u. ASSUME UNCHANGED <<thr, main>> PROVE MainIdle'
  BY <1>u DEF MainIdle
<1>1. ASSUME NEW t \in Clients, NEW id \in Ids, Update(t, id) \/ Rekey(t, id) \/ ToggleOff(t, id) \/ Delete(t, id)
      PROVE  MainIdle'
  <2>1. main' = main
    BY <1>1 DEF Update, ApplyUpdate, Rekey, ApplyRekey, ToggleOff, Delete, RemoveSession, ctl
  <2>2. UNCHANGED thr \/ \E w : thr' = [thr EXCEPT ![t] = w]
    BY <1>1, Zenon DEF Update, Rekey, ToggleOff, Delete, StopLocked
  <2> QED BY <1>0, <1>t, <1>u, <2>1, <2>2
<1>2. ASSUME NEW t \in Clients, UpdateResume(t) \/ RekeyResume(t) \/ ToggleResume(t) \/ DeleteResume(t)
      PROVE  MainIdle'
  <2>1. main' = main
    BY <1>2 DEF UpdateResume, ApplyUpdate, RekeyResume, ApplyRekey, ToggleResume, DeleteResume, RemoveSession, ctl
  <2>2. thr' = [thr EXCEPT ![t] = Idle]
    BY <1>2 DEF UpdateResume, RekeyResume, ToggleResume, DeleteResume
  <2> QED BY <1>0, <1>t, <2>1, <2>2
<1>3. ASSUME NEW id \in Ids, Create(id) PROVE MainIdle'
  <2>1. PICK todo : thr' = [thr EXCEPT ![Monitor].todo = todo] BY <1>3 DEF Create
  <2>2. thr'[Main] = thr[Main] BY <1>0, <2>1 DEF TypeOK
  <2> QED BY <1>3, <1>s, <2>2 DEF Create, ctl
<1>4. ASSUME NEW id \in Ids, ToggleOn(id) \/ ResetTraffic(id) \/ ReadTraffic(id) \/ BackoffElapses(id) PROVE MainIdle'
  BY <1>4, <1>u DEF ToggleOn, ResetTraffic, ReadTraffic, BackoffElapses, ctl
<1>5. CASE SupervisorTick BY <1>5, <1>u DEF SupervisorTick, ctl
<1>6. CASE MonitorTick \/ MonitorResume
  <2>1. main' = main BY <1>6 DEF MonitorTick, MonitorResume, ctl
  <2>2. \E w : thr' = [thr EXCEPT ![Monitor] = w]
    BY <1>6, Zenon DEF MonitorTick, MonitorResume, MonitorStop, StopLocked
  <2> QED BY <1>0, <1>t, <2>1, <2>2
<1>7. ASSUME NEW t \in Threads, StopTimeout(t) PROVE MainIdle'
  BY <1>7, <1>u DEF StopTimeout, ctl
<1>8. ASSUME NEW p \in Procs, Exit(p) \/ ExitLocked(p) PROVE MainIdle'
  BY <1>8, <1>u DEF Exit, ExitLocked, ctl
<1>9. ASSUME NEW p \in Procs, ExitCleanup(p) PROVE MainIdle'
  <2>1. thr'[Main].op = thr[Main].op BY <1>0, <1>9 DEF ExitCleanup, TypeOK, Works
  <2> QED BY <1>9, <1>s, <2>1 DEF ExitCleanup, ctl
<1>10. CASE StopAll \/ StopAllResume
  BY <1>10 DEF StopAll, StopAllResume, StopNext, MainIdle
<1>11. CASE Restore \/ Listen \/ Shutdown \/ Cancel \/ SupervisorReturns \/ MonitorReturns \/ Terminated \/ UNCHANGED vars
  BY <1>11, <1>s DEF Restore, Listen, Shutdown, Cancel, SupervisorReturns, MonitorReturns, Terminated, vars
<1> QED
  BY <1>1, <1>2, <1>3, <1>4, <1>5, <1>6, <1>7, <1>8, <1>9, <1>10, <1>11
     DEF Next, ClientNext, SessionNext, ProcNext, MainNext

\* Nothing starts sessions, and those that run are still ahead of StopAll's
\* range, or are the one it waits for.
Draining ==
  /\ Quiet /\ main \in {"drain", "stopall", "exited"}
  /\ main = "stopall" =>
       \A id \in Live : rt[id] # None => id \in thr[Main].todo \/ rt[id] = thr[Main].proc
  /\ main = "exited" => \A id \in Live : rt[id] = None

\* A step of others than main starts nothing and leaves main where it is.
AsideEffect ==
  /\ UNCHANGED <<main, supOn>>
  /\ \A t \in Clients : thr'[t] = thr[t]
  /\ \A id \in Ids : sess'[id].st = sess[id].st /\ rt'[id] \in {rt[id], None}
  /\ thr'[Main].todo = thr[Main].todo
  /\ \A id \in Ids : rt'[id] # None /\ rt[id] = thr[Main].proc => rt[id] = thr'[Main].proc

\* Such a step keeps the drain.
LEMMA AsideDraining == ASSUME Draining, AsideEffect PROVE Draining'
BY DEF Draining, AsideEffect, Quiet, Live

\* The monitor's stops are steps of that kind.
LEMMA MonitorStopAside ==
  ASSUME TypeOK, NEW todo, NEW ss \in [Ids -> Sessions], \A x \in Ids : ss[x].st = sess[x].st,
         todo \subseteq Ids, MonitorStop(todo, ss), UNCHANGED <<main, supOn>>
  PROVE  AsideEffect
<1>1. PICK id \in todo, passed \in SUBSET todo :
        StopLocked(Monitor, "limit", id, None, todo \ (passed \cup {id}), [ss EXCEPT ![id].over = TRUE])
  BY DEF MonitorStop
<1>2. \A x \in Ids : sess'[x].st = sess[x].st
  BY <1>1 DEF StopLocked, Sessions
<1>3. \A t \in Threads \ {Monitor} : thr'[t] = thr[t]
  BY <1>1 DEF StopLocked, TypeOK
<1>4. UNCHANGED rt
  BY <1>1 DEF StopLocked
<1> QED BY <1>2, <1>3, <1>4, ThreadAssumption DEF AsideEffect, Threads

\* StopAll's range: over when no session is left, or another one is stopped.
LEMMA StopNextDraining ==
  ASSUME TypeOK, Quiet, NEW todo \in SUBSET Ids, StopNext(todo), UNCHANGED supOn,
         \A id \in Live : rt[id] # None => id \in todo
  PROVE  Draining'
<1> DEFINE rest == {id \in todo : sess[id].st = "live" /\ rt[id] # None}
<1>0. Main \in Threads /\ Main \notin Clients /\ Clients \subseteq Threads
  BY ThreadAssumption DEF Threads
<1>1. ASSUME NEW id \in rest, NEW passed \in SUBSET (todo \ rest), main' = "stopall",
             StopLocked(Main, "stopall", id, None, todo \ (passed \cup {id}), sess)
      PROVE  Draining'
  <2>1. \A x \in Ids : sess'[x].st = sess[x].st BY <1>1 DEF StopLocked, TypeOK, Sessions
  <2>2. UNCHANGED rt BY <1>1 DEF StopLocked
  <2>3. thr'[Main].todo = todo \ (passed \cup {id}) /\ thr'[Main].proc = rt[id]
    BY <1>0, <1>1 DEF StopLocked, TypeOK
  <2>4. \A t \in Clients : thr'[t] = thr[t] BY <1>0, <1>1 DEF StopLocked, TypeOK
  <2>5. ASSUME NEW x \in Ids, sess[x].st = "live", rt[x] # None
        PROVE  x \in todo \ (passed \cup {id}) \/ x = id
    BY <2>5 DEF Live
  <2>6. Quiet' BY <2>4 DEF Quiet
  <2> QED BY <1>1, <2>1, <2>2, <2>3, <2>5, <2>6 DEF Draining, Live
<1>2. ASSUME rest = {}, Commit(sess), main' = "exited", thr' = [thr EXCEPT ![Main] = Idle], UNCHANGED <<rt, proc, pidfile>>
      PROVE  Draining'
  <2>1. \A id \in Live' : rt'[id] = None BY <1>2 DEF Commit, Live
  <2>2. Quiet' BY <1>0, <1>2 DEF Quiet, TypeOK
  <2> QED BY <1>2, <2>1, <2>2 DEF Draining
<1> QED BY <1>1, <1>2 DEF StopNext

\* The drain goes on to its end, whatever happens beside it.
LEMMA DrainingStep ==
  ASSUME TypeOK, Handles, MainIdle, Draining, [Next]_vars
  PROVE  Draining'
<1>0. /\ Monitor \in Threads /\ Main \in Threads /\ Clients \subseteq Threads /\ Main \notin Clients
      /\ Monitor # Main /\ Monitor \notin Clients
      /\ sess \in [Ids -> Sessions] /\ main \in {"drain", "stopall", "exited"} /\ ~ supOn
  BY ThreadAssumption DEF Threads, TypeOK, Draining, Quiet
<1>a. AsideEffect => Draining' BY AsideDraining
<1>u. ASSUME UNCHANGED <<rt, thr, main, supOn>>, \A x \in Ids : sess'[x].st = sess[x].st PROVE AsideEffect
  BY <1>u DEF AsideEffect
<1>1. ASSUME NEW t \in Clients, ClientNext(t) PROVE FALSE
  <2>1. thr[t].op = "idle" BY DEF Draining, Quiet, Idle
  <2> QED
    BY <1>0, <1>1, <2>1 DEF ClientNext, Update, Rekey, ToggleOff, Delete, Request, UpdateResume, RekeyResume,
       ToggleResume, DeleteResume, Woken
<1>2. ASSUME NEW id \in Ids, Create(id) \/ ToggleOn(id) \/ ResetTraffic(id) PROVE FALSE
  BY <1>0, <1>2 DEF Create, ToggleOn, ResetTraffic, Request
<1>3. ASSUME NEW id \in Ids, ReadTraffic(id) PROVE AsideEffect
  <2>1. \A x \in Ids : sess'[x].st = sess[x].st BY <1>0, <1>3 DEF ReadTraffic, Sessions
  <2> QED BY <1>3, <1>u, <2>1 DEF ReadTraffic, ctl
<1>4. ASSUME NEW id \in Ids, BackoffElapses(id) PROVE AsideEffect
  BY <1>4, <1>u DEF BackoffElapses, ctl
<1>5. ~ SupervisorTick BY <1>0 DEF SupervisorTick
<1>6. ASSUME MonitorTick PROVE AsideEffect
  <2>1. Live \subseteq Ids BY DEF Live
  <2> QED BY <1>0, <1>6, <2>1, MonitorStopAside DEF MonitorTick, ctl
<1>7. ASSUME MonitorResume PROVE AsideEffect
  <2> DEFINE ss == [sess EXCEPT ![thr[Monitor].id].limited = TRUE]
  <2>5. ss \in [Ids -> Sessions] BY <1>0, FlagTypes
  <2>1. ss \in [Ids -> Sessions] /\ \A x \in Ids : ss[x].st = sess[x].st
    BY <1>0, <2>5 DEF Sessions
  <2>2. thr[Monitor].todo \subseteq Ids BY <1>0 DEF TypeOK, Works
  <2>3. CASE MonitorStop(thr[Monitor].todo, ss)
    BY <1>7, <2>1, <2>2, <2>3, MonitorStopAside DEF MonitorResume, ctl
  <2>4. CASE sess' = ss /\ thr' = [thr EXCEPT ![Monitor] = Idle] /\ UNCHANGED rt
    BY <1>0, <1>7, <2>1, <2>4 DEF MonitorResume, ctl, AsideEffect, TypeOK
  <2> QED BY <1>7, <2>3, <2>4 DEF MonitorResume, Commit
<1>8. ASSUME NEW t \in Threads, StopTimeout(t) PROVE AsideEffect
  BY <1>8, <1>u DEF StopTimeout, ctl
<1>9. ASSUME NEW p \in Procs, Exit(p) PROVE AsideEffect
  BY <1>9, <1>u DEF Exit, ctl
<1>10. ASSUME NEW p \in Procs, ExitLocked(p) PROVE AsideEffect
  <2>0. sess' = sess \/ \E over : sess' = [sess EXCEPT ![p[1]].over = over] BY <1>10 DEF ExitLocked
  <2>1. \A x \in Ids : sess'[x].st = sess[x].st
    <3>1. ASSUME NEW over, sess' = [sess EXCEPT ![p[1]].over = over]
          PROVE  \A x \in Ids : sess'[x].st = sess[x].st
      BY <1>0, <3>1 DEF Sessions
    <3> QED BY <2>0, <3>1
  <2>2. \A x \in Ids : rt'[x] \in {rt[x], None} BY <1>10 DEF ExitLocked, TypeOK
  <2>3. UNCHANGED <<thr, main, supOn>> BY <1>10 DEF ExitLocked, ctl
  <2> QED BY <2>1, <2>2, <2>3 DEF AsideEffect
<1>11. ASSUME NEW p \in Procs, ExitCleanup(p) PROVE AsideEffect
  <2>1. p # None BY NoneAssumption
  <2>2. \A t \in Clients : thr'[t] = thr[t]
    BY <1>0, <1>11, <2>1 DEF ExitCleanup, Draining, Quiet, Idle
  <2>3. thr'[Main].todo = thr[Main].todo /\ (thr[Main].proc # p => thr'[Main].proc = thr[Main].proc)
    BY <1>0, <1>11 DEF ExitCleanup, TypeOK, Works
  <2>4. \A id \in Ids : rt[id] # p
    BY <1>11, <2>1 DEF ExitCleanup, Handles, Alive
  <2> QED BY <1>11, <2>2, <2>3, <2>4 DEF ExitCleanup, ctl, AsideEffect
<1>12. CASE StopAll
  <2>1. Live \in SUBSET Ids BY DEF Live
  <2> QED BY <1>12, <2>1, StopNextDraining DEF StopAll, Draining
<1>13. CASE StopAllResume
  <2>1. thr[Main].todo \in SUBSET Ids BY <1>0 DEF TypeOK, Works
  <2>2. \A id \in Live : rt[id] # None => id \in thr[Main].todo
    BY <1>0, <1>13 DEF StopAllResume, Woken, Draining, MainIdle
  <2> QED BY <1>13, <2>1, <2>2, StopNextDraining DEF StopAllResume, Draining
<1>14. ASSUME MonitorReturns \/ Terminated \/ UNCHANGED vars PROVE AsideEffect
  BY <1>14, <1>u DEF MonitorReturns, Terminated, vars
<1>15. ~ (Restore \/ Listen \/ Cancel \/ SupervisorReturns \/ Shutdown)
  BY <1>0 DEF Restore, Listen, Cancel, SupervisorReturns, Shutdown
<1> QED
  BY <1>a, <1>1, <1>2, <1>3, <1>4, <1>5, <1>6, <1>7, <1>8, <1>9, <1>10, <1>11, <1>12, <1>13, <1>14, <1>15
     DEF Next, SessionNext, ProcNext, MainNext

\* If the supervisor has returned and no request waits in stopLocked when
\* StopAll begins, no session runs when fzp exits, however many there are, in
\* whatever order the range visits them, and whatever dies meanwhile.
THEOREM ShutdownIsClean == Spec => CleanShutdown
<1>1. Init => TypeOK /\ ThreadOK /\ Handles /\ MainIdle
  BY TypeInit DEF Init, Handles, MainIdle, Idle, Threads
<1>2. TypeOK /\ ThreadOK /\ Handles /\ MainIdle /\ [Next]_vars
       => TypeOK' /\ ThreadOK' /\ Handles' /\ MainIdle'
  BY TypeStep, ThreadStep, HandlesStep, MainStep
<1>3. TypeOK /\ Handles /\ MainIdle /\ Draining /\ [Next]_vars => Draining'
  BY DrainingStep
<1>4. main = "drain" /\ Quiet => Draining
  BY DEF Draining
<1>5. Draining => (main = "exited" => \A id \in Live : rt[id] = None)
  BY DEF Draining
<1> QED
  BY <1>1, <1>2, <1>3, <1>4, <1>5, PTL DEF Spec, CleanShutdown

---------------------------------------------------------------------------
(* Records and processes agree while no operation overtakes one that waits. *)

\* A session is started or deleted by nobody while someone else still waits to
\* stop it.  The code does not see to this: stopLocked gives up m.mu.
Unhindered ==
  \A id \in Ids :
    (rt'[id] \notin {rt[id], None} \/ (sess'[id].st = "deleted" /\ sess[id].st # "deleted"))
      => Undisturbed(id)'

\* Whoever waits in stopLocked waits for the process its session runs, if any,
\* so it finds none when it has the lock again; a deleted session has no process
\* and nobody works on it; a running process has the fields of its record.
RecordInv ==
  /\ \A t \in Threads : thr[t].id # None /\ rt[thr[t].id] # None => thr[t].proc = rt[thr[t].id]
  /\ \A id \in Ids : sess[id].st = "deleted" =>
       /\ rt[id] = None /\ Undisturbed(id)
       /\ \A p \in Procs : p[1] = id => proc[p].st # "up"
  /\ \A id \in Ids : rt[id] # None =>
       proc[rt[id]].conf = [room |-> sess[id].room, key |-> sess[id].key]

\* A handle is dropped, or kept with its process and fields, or new and started
\* with the fields of the record.
Handed ==
  \A id \in Ids :
    \/ rt'[id] = None
    \/ /\ rt'[id] = rt[id] /\ proc'[rt[id]].conf = proc[rt[id]].conf
       /\ sess'[id].room = sess[id].room /\ sess'[id].key = sess[id].key
    \/ /\ rt'[id] # rt[id] /\ sess'[id].st # "deleted"
       /\ proc'[rt'[id]].conf = [room |-> sess'[id].room, key |-> sess'[id].key]

\* A process runs only if it ran, or as the new handle of its session.
Upped ==
  \A p \in Procs : proc'[p].st = "up" =>
    proc[p].st = "up" \/ (rt'[p[1]] # None /\ rt'[p[1]] # rt[p[1]])

\* A session is deleted when it has no process.
Removed ==
  \A id \in Ids : sess'[id].st = "deleted" =>
    sess[id].st = "deleted" \/ (sess[id].st = "live" /\ rt[id] = None /\ rt'[id] = None)

\* A thread goes on waiting, or its process is dead, or it starts to wait for
\* the process of a live session, or it waits no longer.
Worked ==
  \A t \in Threads :
    \/ thr'[t].id = None
    \/ /\ thr'[t].id = thr[t].id
       /\ thr'[t].proc = thr[t].proc \/ \A id \in Ids : rt[id] # thr[t].proc
    \/ /\ thr'[t].id \in Ids /\ sess'[thr'[t].id].st = "live"
       /\ thr'[t].proc = rt[thr'[t].id]

RecordEffect == Handed /\ Upped /\ Removed /\ Worked

\* Unhindered steps of that kind keep the invariant.
LEMMA RecordEffectOK ==
  ASSUME TypeOK, TypeOK', Handles, OneTunnel, RecordInv, RecordEffect, Unhindered
  PROVE  RecordInv'
<1>0. (\A p \in Procs : p[1] \in Ids) /\ None \notin Ids /\ None \notin Procs
  BY NoneAssumption DEF Procs
<1>1. ASSUME NEW t \in Threads, thr'[t].id # None, rt'[thr'[t].id] # None
      PROVE  thr'[t].proc = rt'[thr'[t].id]
  <2>1. thr'[t].id \in Ids
    BY <1>1 DEF TypeOK, Works
  <2>2. rt'[thr'[t].id] = rt[thr'[t].id]
    BY <1>1, <2>1 DEF Unhindered, Undisturbed
  <2> QED
    BY <1>1, <2>1, <2>2 DEF RecordEffect, Worked, RecordInv
<1>2. ASSUME NEW id \in Ids, sess'[id].st = "deleted"
      PROVE  /\ rt'[id] = None /\ Undisturbed(id)'
             /\ \A p \in Procs : p[1] = id => proc'[p].st # "up"
  <2>1. CASE sess[id].st = "deleted"
    <3>1. rt[id] = None /\ Undisturbed(id) /\ \A p \in Procs : p[1] = id => proc[p].st # "up"
      BY <2>1 DEF RecordInv
    <3>2. rt'[id] = None
      BY <1>2, <3>1 DEF RecordEffect, Handed
    <3>3. \A t \in Threads : thr'[t].id # id
      BY <1>0, <1>2, <3>1 DEF RecordEffect, Worked, Undisturbed
    <3> QED
      BY <3>1, <3>2, <3>3 DEF RecordEffect, Upped, Undisturbed
  <2>2. CASE sess[id].st # "deleted"
    <3>1. sess[id].st = "live" /\ rt[id] = None /\ rt'[id] = None
      BY <1>2, <2>2 DEF RecordEffect, Removed
    <3>2. Undisturbed(id)'
      BY <1>2, <2>2 DEF Unhindered
    <3>3. \A p \in Procs : p[1] = id => proc[p].st # "up"
      BY <1>0, <3>1 DEF OneTunnel, Alive
    <3> QED
      BY <3>1, <3>2, <3>3 DEF RecordEffect, Upped
  <2> QED
    BY <2>1, <2>2
<1>3. ASSUME NEW id \in Ids, rt'[id] # None
      PROVE  proc'[rt'[id]].conf = [room |-> sess'[id].room, key |-> sess'[id].key]
  BY <1>3 DEF RecordEffect, Handed, RecordInv
<1> QED
  BY <1>1, <1>2, <1>3 DEF RecordInv

\* A thread that has the lock again finds its session live and without process.
LEMMA Returned ==
  ASSUME TypeOK, ThreadOK, RecordInv, NEW t \in Threads, NEW op, op # "idle", Woken(t, op)
  PROVE  thr[t].id \in Ids /\ rt[thr[t].id] = None /\ sess[thr[t].id].st = "live"
<1>1. thr[t].id \in Ids /\ sess[thr[t].id].st # "absent"
  BY DEF Woken, ThreadOK
<1>2. rt[thr[t].id] = None
  BY <1>1, NoneAssumption DEF Woken, RecordInv
<1>3. sess[thr[t].id].st # "deleted"
  BY <1>1 DEF RecordInv, Undisturbed
<1> QED
  BY <1>1, <1>2, <1>3 DEF TypeOK, Sessions

\* What startLocked starts has the fields that are saved,
LEMMA LaunchRecord ==
  ASSUME Handles, NEW up \in SUBSET Ids, NEW files, Launch(up, sess', files),
         \A id \in up : rt[id] = None /\ FreeSlots(id) # {},
         \A id \in Ids : sess'[id].st = "deleted" => sess[id].st = "deleted" /\ id \notin up,
         \A id \in Ids : rt[id] # None => sess'[id].room = sess[id].room /\ sess'[id].key = sess[id].key
  PROVE  Handed /\ Upped /\ Removed
<1>1. \A id \in up : NewProc(id) \in Procs /\ NewProc(id)[1] = id /\ proc[NewProc(id)].st = "down"
  BY NewProcFree
<1>2. /\ \A id \in Ids : rt'[id] = IF id \in up THEN NewProc(id) ELSE rt[id]
      /\ \A p \in Procs : proc'[p] = IF p[1] \in up /\ p = NewProc(p[1])
                                     THEN [st |-> "up", sig |-> "none",
                                           conf |-> [room |-> sess'[p[1]].room, key |-> sess'[p[1]].key]]
                                     ELSE proc[p]
  BY DEF Launch
<1>3. ASSUME NEW id \in up
      PROVE  /\ rt'[id] # rt[id] /\ sess'[id].st # "deleted"
             /\ proc'[rt'[id]].conf = [room |-> sess'[id].room, key |-> sess'[id].key]
  <2>1. rt'[id] = NewProc(id) /\ NewProc(id) \in Procs /\ NewProc(id)[1] = id
    BY <1>1, <1>2, <1>3
  <2>2. proc'[NewProc(id)] = [st |-> "up", sig |-> "none",
                              conf |-> [room |-> sess'[id].room, key |-> sess'[id].key]]
    BY <1>2, <1>3, <2>1
  <2>3. rt'[id] # rt[id] /\ sess'[id].st # "deleted"
    BY <1>3, <2>1, NoneAssumption
  <2> QED
    BY <2>1, <2>2, <2>3
<1>4. ASSUME NEW id \in Ids \ up, rt[id] # None
      PROVE  rt'[id] = rt[id] /\ proc'[rt[id]].conf = proc[rt[id]].conf
  BY <1>2, <1>4 DEF Handles
<1>5. Handed
  <2>1. \A id \in Ids : id \notin up /\ rt[id] = None => rt'[id] = None
    BY <1>2
  <2> QED
    BY <1>3, <1>4, <2>1 DEF Handed
<1>6. Upped
  <2> SUFFICES ASSUME NEW p \in Procs, proc'[p].st = "up", proc[p].st # "up"
               PROVE  rt'[p[1]] # None /\ rt'[p[1]] # rt[p[1]]
    BY DEF Upped
  <2>1. p[1] \in up /\ p = NewProc(p[1])
    BY <1>2
  <2> QED
    BY <1>1, <1>2, <2>1, NoneAssumption
<1> QED
  BY <1>5, <1>6 DEF Removed

\* also in the tail the requests share, for a session whose fields change only
\* while it has no process.
LEMMA StartRecord ==
  ASSUME TypeOK, Handles, NEW id \in Ids, NEW s \in Sessions, s.st = "live",
         rt[id] = None \/ (s.room = sess[id].room /\ s.key = sess[id].key),
         NEW want, StartAndSave(id, s, want)
  PROVE  Handed /\ Upped /\ Removed
<1>1. PICK r \in (IF want THEN StartLocked(id, s) ELSE {"off"}) :
        LET ss == [sess EXCEPT ![id] = [s EXCEPT !.enabled = @ /\ r \notin Refused]] IN
          Commit(ss) /\ Launch({x \in {id} : r = "spawned"}, ss, pidfile)
  BY DEF StartAndSave
<1> DEFINE up == {x \in {id} : r = "spawned"}
<1>2. \A x \in Ids : IF x = id THEN sess'[x].st = s.st /\ sess'[x].room = s.room /\ sess'[x].key = s.key
                     ELSE sess'[x] = sess[x]
  BY <1>1 DEF Commit, TypeOK, Sessions
<1>3. up \in SUBSET Ids /\ \A x \in up : rt[x] = None /\ FreeSlots(x) # {}
  BY <1>1, SpawnedFree
<1>4. Launch(up, sess', pidfile)
  BY <1>1 DEF Commit
<1>5. \A x \in Ids : sess'[x].st = "deleted" => sess[x].st = "deleted" /\ x \notin up
  BY <1>2
<1>6. \A x \in Ids : rt[x] # None => sess'[x].room = sess[x].room /\ sess'[x].key = sess[x].key
  BY <1>2
<1> HIDE DEF up
<1> QED
  BY <1>3, <1>4, <1>5, <1>6, LaunchRecord

\* A step that starts nothing, deletes nothing and keeps the fields.
LEMMA StillRecord ==
  ASSUME TypeOK, \A id \in Ids : rt'[id] \in {rt[id], None},
         \A id \in Ids : rt'[id] # None => proc'[rt[id]].conf = proc[rt[id]].conf,
         \A p \in Procs : proc'[p].st = "up" => proc[p].st = "up",
         \A id \in Ids : Same(sess[id], sess'[id]) \/ (sess'[id].st = sess[id].st /\ rt[id] = None)
  PROVE  Handed /\ Upped /\ Removed
<1>1. \A id \in Ids : sess'[id].st = sess[id].st
  BY DEF Same
<1>2. Handed
  BY DEF Handed, Same
<1> QED
  BY <1>1, <1>2 DEF Upped, Removed

\* stopLocked is such a step, and its thread waits for the session's process.
LEMMA StopLockedRecord ==
  ASSUME TypeOK, NEW t \in Threads, NEW op, NEW id \in Ids, sess[id].st = "live", NEW room, NEW todo,
         NEW ss \in [Ids -> Sessions],
         \A x \in Ids : ss[x].st = sess[x].st /\ ss[x].room = sess[x].room /\ ss[x].key = sess[x].key,
         StopLocked(t, op, id, room, todo, ss)
  PROVE  RecordEffect
<1>1. PICK over : sess' = [ss EXCEPT ![id].over = over]
  BY DEF StopLocked
<1>2. \A x \in Ids : Same(ss[x], sess'[x])
  BY <1>1, OverSame
<1>3. \A x \in Ids : sess'[x].st = sess[x].st /\ sess'[x].room = sess[x].room /\ sess'[x].key = sess[x].key
  BY <1>2 DEF Same
<1>4. \A p \in Procs : proc'[p].st = proc[p].st /\ proc'[p].conf = proc[p].conf
  BY DEF StopLocked, TypeOK, Processes
<1>5. \A u \in Threads : IF u = t THEN thr'[u].id = id /\ thr'[u].proc = rt[id] ELSE thr'[u] = thr[u]
  BY DEF StopLocked, TypeOK
<1>6. Worked
  BY <1>3, <1>5 DEF Worked
<1>7. rt' = rt
  BY DEF StopLocked
<1>8. Handed
  BY <1>3, <1>4, <1>7 DEF Handed, TypeOK
<1> QED
  BY <1>3, <1>4, <1>6, <1>8 DEF RecordEffect, Upped, Removed

\* StopAll's range stops a live session, or nothing changes but main's thread.
LEMMA StopNextRecord ==
  ASSUME TypeOK, NEW todo \in SUBSET Ids, StopNext(todo)
  PROVE  RecordEffect
<1> DEFINE rest == {id \in todo : sess[id].st = "live" /\ rt[id] # None}
<1>0. Main \in Threads /\ sess \in [Ids -> Sessions] /\ \A x \in Ids : Same(sess[x], sess[x])
  BY DEF Threads, TypeOK, Same
<1>1. CASE \E id \in rest : \E passed \in SUBSET (todo \ rest) :
             StopLocked(Main, "stopall", id, None, todo \ (passed \cup {id}), sess)
  BY <1>0, <1>1, StopLockedRecord
<1>2. CASE sess' = sess /\ thr' = [thr EXCEPT ![Main] = Idle] /\ UNCHANGED <<rt, proc>>
  <2>1. \A t \in Threads : thr'[t].id = None \/ thr'[t] = thr[t]
    BY <1>0, <1>2 DEF TypeOK, Idle
  <2> QED
    BY <1>0, <1>2, <2>1, StillRecord DEF RecordEffect, Worked
<1> QED
  BY <1>1, <1>2 DEF StopNext, Commit

\* And so does the monitor's range.
LEMMA MonitorStopRecord ==
  ASSUME TypeOK, NEW todo \in SUBSET Ids, NEW ss \in [Ids -> Sessions],
         \A x \in Ids : ss[x].st = sess[x].st /\ ss[x].room = sess[x].room /\ ss[x].key = sess[x].key,
         MonitorStop(todo, ss)
  PROVE  RecordEffect
<1>1. PICK id \in todo, passed \in SUBSET todo :
        /\ sess[id].st = "live"
        /\ StopLocked(Monitor, "limit", id, None, todo \ (passed \cup {id}), [ss EXCEPT ![id].over = TRUE])
  BY DEF MonitorStop
<1> DEFINE sm == [ss EXCEPT ![id].over = TRUE]
<1>2. sm \in [Ids -> Sessions]
  BY FlagTypes
<1>3. \A x \in Ids : Same(ss[x], sm[x])
  BY OverSame
<1>4. \A x \in Ids : sm[x].st = sess[x].st /\ sm[x].room = sess[x].room /\ sm[x].key = sess[x].key
  BY <1>3 DEF Same
<1>5. Monitor \in Threads
  BY DEF Threads
<1> HIDE DEF sm
<1> QED
  BY <1>1, <1>2, <1>4, <1>5, StopLockedRecord DEF sm

\* Every step is of that kind, because whoever comes out of stopLocked finds no
\* process left to outlive the change of the record.
LEMMA RecordStep ==
  ASSUME TypeOK, ThreadOK, TunnelInv, Handles, RecordInv, [Next]_vars
  PROVE  RecordEffect
<1>0. /\ Monitor \in Threads /\ Main \in Threads /\ Clients \subseteq Threads
      /\ sess \in [Ids -> Sessions] /\ \A x \in Ids : Same(sess[x], sess[x])
  BY DEF Threads, TypeOK, Same
<1>w. ASSUME \A t \in Threads : thr'[t].id = None \/ (thr'[t].id = thr[t].id /\ thr'[t].proc = thr[t].proc)
      PROVE  Worked
  BY <1>w DEF Worked
<1>i. ASSUME NEW t \in Threads, thr' = [thr EXCEPT ![t] = Idle] PROVE Worked
  <2>1. \A u \in Threads : thr'[u].id = None \/ thr'[u] = thr[u]
    BY <1>i DEF TypeOK, Idle
  <2> QED
    BY <1>w, <2>1
<1>u. ASSUME UNCHANGED thr PROVE Worked
  BY <1>u, <1>w
<1>s. ASSUME NEW t \in Threads, NEW op, NEW id \in Ids, Request(id), NEW room,
             StopLocked(t, op, id, room, {}, sess)
      PROVE  RecordEffect
  BY <1>0, <1>s, StopLockedRecord DEF Request
<1>a. ASSUME NEW id \in Ids, sess[id].st = "live", rt[id] = None, NEW room \in Rooms, NEW running,
             ApplyUpdate(id, room, running)
      PROVE  Handed /\ Upped /\ Removed
  <2>1. PICK over \in BOOLEAN :
          StartAndSave(id, [sess[id] EXCEPT !.room = room, !.over = over], running \/ sess[id].enabled)
    BY <1>a DEF ApplyUpdate
  <2>2. /\ [sess[id] EXCEPT !.room = room, !.over = over] \in Sessions
        /\ [sess[id] EXCEPT !.room = room, !.over = over].st = "live"
    BY <1>0, <1>a DEF Sessions
  <2> QED
    BY <1>a, <2>1, <2>2, StartRecord
<1>k. ASSUME NEW id \in Ids, sess[id].st = "live", rt[id] = None, NEW running, ApplyRekey(id, running)
      PROVE  Handed /\ Upped /\ Removed
  <2>1. PICK key \in Keys : StartAndSave(id, [sess[id] EXCEPT !.key = key], running \/ sess[id].enabled)
    BY <1>k DEF ApplyRekey
  <2>2. [sess[id] EXCEPT !.key = key] \in Sessions /\ [sess[id] EXCEPT !.key = key].st = "live"
    BY <1>0, <1>k DEF Sessions
  <2> QED
    BY <1>k, <2>1, <2>2, StartRecord
<1>d. ASSUME NEW id \in Ids, sess[id].st = "live", rt[id] = None, RemoveSession(id)
      PROVE  Handed /\ Upped /\ Removed
  <2>1. \A x \in Ids : x # id => Same(sess[x], sess'[x])
    BY <1>0, <1>d DEF RemoveSession, Commit
  <2>2. rt' = rt /\ proc' = proc
    BY <1>d DEF RemoveSession, TypeOK
  <2>3. Handed
    BY <1>d, <2>1, <2>2 DEF Handed, Same
  <2>4. Removed
    BY <1>d, <2>1, <2>2 DEF Removed, Same
  <2> QED
    BY <2>2, <2>3, <2>4 DEF Upped
<1>o. ASSUME NEW id \in Ids, NEW over, sess' = [sess EXCEPT ![id].over = over], UNCHANGED <<rt, proc>>
      PROVE  Handed /\ Upped /\ Removed
  BY <1>0, <1>o, OverSame, StillRecord
<1>p. ASSUME UNCHANGED <<sess, rt, proc, thr>> PROVE RecordEffect
  BY <1>0, <1>p, <1>u, StillRecord DEF RecordEffect
<1>1. ASSUME NEW id \in Ids, Create(id) PROVE RecordEffect
  <2>1. PICK room \in Rooms, key \in Keys :
          StartAndSave(id, [st |-> "live", enabled |-> TRUE, limited |-> FALSE,
                            over |-> FALSE, room |-> room, key |-> key], TRUE)
    BY <1>1 DEF Create
  <2>2. [st |-> "live", enabled |-> TRUE, limited |-> FALSE,
         over |-> FALSE, room |-> room, key |-> key] \in Sessions
    BY DEF Sessions
  <2>3. rt[id] = None
    BY <1>1 DEF Create, Handles, TunnelInv, Fresh
  <2>4. Handed /\ Upped /\ Removed
    BY <2>1, <2>2, <2>3, StartRecord
  <2>5. PICK todo : thr' = [thr EXCEPT ![Monitor].todo = todo]
    BY <1>1 DEF Create
  <2>6. \A t \in Threads : thr'[t].id = thr[t].id /\ thr'[t].proc = thr[t].proc
    BY <1>0, <2>5 DEF TypeOK, Works
  <2> QED
    BY <1>w, <2>4, <2>6 DEF RecordEffect
<1>2. ASSUME NEW t \in Clients, NEW id \in Ids, Update(t, id) PROVE RecordEffect
  BY <1>0, <1>2, <1>a, <1>s, <1>u DEF Update, Request, RecordEffect
<1>3. ASSUME NEW t \in Clients, UpdateResume(t) PROVE RecordEffect
  <2>1. thr[t].id \in Ids /\ rt[thr[t].id] = None /\ sess[thr[t].id].st = "live"
    BY <1>0, <1>3, Returned DEF UpdateResume
  <2>2. thr[t].room \in Rooms
    BY <1>0, <1>3 DEF UpdateResume, Woken, ThreadOK
  <2> QED
    BY <1>0, <1>3, <1>a, <1>i, <2>1, <2>2 DEF UpdateResume, RecordEffect
<1>4. ASSUME NEW t \in Clients, NEW id \in Ids, Rekey(t, id) PROVE RecordEffect
  BY <1>0, <1>4, <1>k, <1>s, <1>u DEF Rekey, Request, RecordEffect
<1>5. ASSUME NEW t \in Clients, RekeyResume(t) PROVE RecordEffect
  <2>1. thr[t].id \in Ids /\ rt[thr[t].id] = None /\ sess[thr[t].id].st = "live"
    BY <1>0, <1>5, Returned DEF RekeyResume
  <2> QED
    BY <1>0, <1>5, <1>k, <1>i, <2>1 DEF RekeyResume, RecordEffect
<1>6. ASSUME NEW t \in Clients, NEW id \in Ids, ToggleOff(t, id) PROVE RecordEffect
  BY <1>0, <1>6, <1>s DEF ToggleOff
<1>7. ASSUME NEW t \in Clients, ToggleResume(t) PROVE RecordEffect
  <2>1. thr[t].id \in Ids /\ rt[thr[t].id] = None
    BY <1>0, <1>7, Returned DEF ToggleResume
  <2>2. \A x \in Ids : Same(sess[x], sess'[x]) \/ (sess'[x].st = sess[x].st /\ rt[x] = None)
    BY <1>0, <1>7, <2>1 DEF ToggleResume, Commit, Sessions
  <2> QED
    BY <1>0, <1>7, <1>i, <2>2, StillRecord DEF ToggleResume, RecordEffect
<1>8. ASSUME NEW t \in Clients, NEW id \in Ids, Delete(t, id) PROVE RecordEffect
  BY <1>0, <1>8, <1>d, <1>s, <1>u DEF Delete, Request, RecordEffect
<1>9. ASSUME NEW t \in Clients, DeleteResume(t) PROVE RecordEffect
  <2>1. thr[t].id \in Ids /\ rt[thr[t].id] = None /\ sess[thr[t].id].st = "live"
    BY <1>0, <1>9, Returned DEF DeleteResume
  <2> QED
    BY <1>0, <1>9, <1>d, <1>i, <2>1 DEF DeleteResume, RecordEffect
<1>10. ASSUME NEW id \in Ids, ToggleOn(id) PROVE RecordEffect
  <2>1. PICK r \in StartLocked(id, sess[id]) :
          LET ss == [sess EXCEPT ![id].enabled = @ \/ r \notin Refused] IN
            Commit(ss) /\ Launch({x \in {id} : r = "spawned"}, ss, pidfile)
    BY <1>10 DEF ToggleOn
  <2> DEFINE up == {x \in {id} : r = "spawned"}
  <2>2. \A x \in Ids : sess'[x].st = sess[x].st /\ sess'[x].room = sess[x].room /\ sess'[x].key = sess[x].key
    BY <1>0, <2>1 DEF Commit, Sessions
  <2>3. up \in SUBSET Ids /\ \A x \in up : rt[x] = None /\ FreeSlots(x) # {}
    BY <2>1, SpawnedFree
  <2>4. Launch(up, sess', pidfile)
    BY <2>1 DEF Commit
  <2>5. \A x \in Ids : sess'[x].st = "deleted" => sess[x].st = "deleted" /\ x \notin up
    BY <1>10, <2>2 DEF ToggleOn, Request
  <2> HIDE DEF up
  <2>6. Handed /\ Upped /\ Removed
    BY <2>2, <2>3, <2>4, <2>5, LaunchRecord
  <2> QED
    BY <1>10, <1>u, <2>6 DEF ToggleOn, RecordEffect
<1>11. ASSUME NEW id \in Ids, ResetTraffic(id) PROVE RecordEffect
  <2>1. PICK over \in BOOLEAN :
          StartAndSave(id, [sess[id] EXCEPT !.limited = FALSE, !.over = over], sess[id].enabled /\ rt[id] = None)
    BY <1>0, <1>11 DEF ResetTraffic, Sessions
  <2> DEFINE s == [sess[id] EXCEPT !.limited = FALSE, !.over = over]
  <2>2. s \in Sessions /\ s.st = "live" /\ s.room = sess[id].room /\ s.key = sess[id].key
    BY <1>0, <1>11 DEF Sessions, ResetTraffic, Request
  <2> HIDE DEF s
  <2>3. Handed /\ Upped /\ Removed
    BY <2>1, <2>2, StartRecord DEF s
  <2> QED
    BY <1>11, <1>u, <2>3 DEF ResetTraffic, RecordEffect
<1>12. ASSUME NEW id \in Ids, ReadTraffic(id) PROVE RecordEffect
  <2>1. \E over : sess' = [sess EXCEPT ![id].over = over]
    BY <1>12 DEF ReadTraffic
  <2> QED
    BY <1>12, <1>o, <1>u, <2>1 DEF ReadTraffic, RecordEffect
<1>13. CASE SupervisorTick
  <2>1. PICK up \in SUBSET {id \in Attempt : "spawned" \in StartLocked(id, sess[id])} :
          Launch(up, sess, pidfile)
    BY <1>13 DEF SupervisorTick
  <2>2. up \in SUBSET Ids /\ \A x \in up : rt[x] = None /\ FreeSlots(x) # {} /\ sess[x].st = "live"
    BY <2>1, SpawnedFree DEF Attempt, Live
  <2>3. sess' = sess /\ thr' = thr
    BY <1>13 DEF SupervisorTick
  <2>4. Handed /\ Upped /\ Removed
    BY <2>1, <2>2, <2>3, LaunchRecord
  <2> QED
    BY <1>u, <2>3, <2>4 DEF RecordEffect
<1>14. CASE MonitorTick
  <2>1. Live \in SUBSET Ids
    BY DEF Live
  <2> QED
    BY <1>0, <1>14, <2>1, MonitorStopRecord DEF MonitorTick
<1>15. CASE MonitorResume
  <2> DEFINE ss == [sess EXCEPT ![thr[Monitor].id].limited = TRUE]
  <2>1. ss \in [Ids -> Sessions]
    BY <1>0, FlagTypes
  <2>2. \A x \in Ids : ss[x].st = sess[x].st /\ ss[x].room = sess[x].room /\ ss[x].key = sess[x].key
    BY <1>0 DEF Sessions
  <2>3. thr[Monitor].todo \in SUBSET Ids
    BY <1>0 DEF TypeOK, Works
  <2>4. CASE MonitorStop(thr[Monitor].todo, ss)
    BY <2>1, <2>2, <2>3, <2>4, MonitorStopRecord
  <2>5. CASE sess' = ss /\ thr' = [thr EXCEPT ![Monitor] = Idle] /\ UNCHANGED <<rt, proc>>
    <3>1. rt[thr[Monitor].id] = None
      BY <1>0, <1>15, Returned DEF MonitorResume
    <3>2. \A x \in Ids : Same(sess[x], sess'[x]) \/ (sess'[x].st = sess[x].st /\ rt[x] = None)
      BY <1>0, <2>2, <2>5, <3>1
    <3> QED
      BY <1>0, <1>i, <2>5, <3>2, StillRecord DEF RecordEffect
  <2> QED
    BY <1>15, <2>4, <2>5 DEF MonitorResume, Commit
<1>16. ASSUME NEW t \in Threads, StopTimeout(t) PROVE RecordEffect
  <2>1. \A p \in Procs : proc'[p].st = proc[p].st /\ proc'[p].conf = proc[p].conf
    BY <1>16 DEF StopTimeout, TypeOK, Processes
  <2>2. \A id \in Ids : rt'[id] # None => proc'[rt[id]].conf = proc[rt[id]].conf
    BY <1>16, <2>1 DEF StopTimeout, TypeOK
  <2> QED
    BY <1>0, <1>16, <1>u, <2>1, <2>2, StillRecord DEF StopTimeout, RecordEffect
<1>17. ASSUME NEW p \in Procs, Exit(p) PROVE RecordEffect
  <2>1. \A q \in Procs : proc'[q].conf = proc[q].conf /\ (proc'[q].st = "up" => proc[q].st = "up")
    BY <1>17 DEF Exit, TypeOK, Processes
  <2>2. \A id \in Ids : rt'[id] # None => proc'[rt[id]].conf = proc[rt[id]].conf
    BY <1>17, <2>1 DEF Exit, TypeOK
  <2> QED
    BY <1>0, <1>17, <1>u, <2>1, <2>2, StillRecord DEF Exit, RecordEffect
<1>18. ASSUME NEW p \in Procs, ExitLocked(p) PROVE RecordEffect
  <2>1. \A q \in Procs : proc'[q].conf = proc[q].conf /\ (proc'[q].st = "up" => proc[q].st = "up")
    BY <1>18 DEF ExitLocked, TypeOK, Processes
  <2>2. \A id \in Ids : rt'[id] \in {rt[id], None}
    BY <1>18 DEF ExitLocked, TypeOK
  <2>3. \A id \in Ids : rt'[id] # None => proc'[rt[id]].conf = proc[rt[id]].conf
    BY <2>1, <2>2 DEF TypeOK
  <2>4. p[1] \in Ids /\ (sess' = sess \/ \E over : sess' = [sess EXCEPT ![p[1]].over = over])
    BY <1>18 DEF ExitLocked, Procs
  <2>5. \A x \in Ids : Same(sess[x], sess'[x])
    BY <1>0, <2>4, OverSame
  <2> QED
    BY <1>18, <1>u, <2>1, <2>2, <2>3, <2>5, StillRecord DEF ExitLocked, RecordEffect
<1>19. ASSUME NEW p \in Procs, ExitCleanup(p) PROVE RecordEffect
  <2>1. \A id \in Ids : rt[id] # p
    BY <1>19, NoneAssumption DEF ExitCleanup, Handles, Alive
  <2>2. \A q \in Procs : IF q = p THEN proc'[q].st = "down" ELSE proc'[q] = proc[q]
    BY <1>19 DEF ExitCleanup, TypeOK, NoProc
  <2>3. \A id \in Ids : rt'[id] # None => proc'[rt[id]].conf = proc[rt[id]].conf
    BY <1>19, <2>1, <2>2 DEF ExitCleanup, TypeOK
  <2>4. \A t \in Threads : thr'[t].id = thr[t].id /\ (thr'[t].proc = thr[t].proc \/ thr[t].proc = p)
    BY <1>19 DEF ExitCleanup, TypeOK, Works
  <2>5. Worked
    BY <2>1, <2>4 DEF Worked
  <2> QED
    BY <1>0, <1>19, <2>2, <2>3, <2>5, StillRecord DEF ExitCleanup, RecordEffect
<1>20. CASE Restore
  <2> DEFINE wanted == {id \in Live : sess[id].enabled}
  <2> DEFINE ss(up) == [id \in Ids |-> IF id \in wanted \ up THEN [sess[id] EXCEPT !.enabled = FALSE]
                                       ELSE sess[id]]
  <2> DEFINE files == [id \in Ids |-> IF id \in Live THEN None ELSE pidfile[id]]
  <2>1. PICK up \in SUBSET {id \in wanted : "spawned" \in StartLocked(id, sess[id])} :
          sess' = ss(up) /\ Launch(up, ss(up), files)
    BY <1>20 DEF Restore, Commit
  <2>2. \A x \in Ids : sess'[x].st = sess[x].st /\ sess'[x].room = sess[x].room /\ sess'[x].key = sess[x].key
    BY <1>0, <2>1 DEF Sessions
  <2>3. up \in SUBSET Ids /\ \A x \in up : rt[x] = None /\ FreeSlots(x) # {} /\ sess[x].st = "live"
    BY <2>1, SpawnedFree DEF Live
  <2>4. Launch(up, sess', files)
    BY <2>1
  <2> HIDE DEF files, ss, wanted
  <2>5. Handed /\ Upped /\ Removed
    BY <2>2, <2>3, <2>4, LaunchRecord
  <2> QED
    BY <1>20, <1>u, <2>5 DEF Restore, RecordEffect
<1>21. CASE StopAll \/ StopAllResume
  <2>1. Live \in SUBSET Ids /\ thr[Main].todo \in SUBSET Ids
    BY <1>0 DEF Live, TypeOK, Works
  <2> QED
    BY <1>21, <2>1, StopNextRecord DEF StopAll, StopAllResume
<1>22. ASSUME NEW id \in Ids, BackoffElapses(id) PROVE RecordEffect
  BY <1>22, <1>p DEF BackoffElapses
<1>23. CASE Listen \/ Cancel \/ SupervisorReturns \/ MonitorReturns \/ Shutdown \/ Terminated \/ UNCHANGED vars
  BY <1>23, <1>p DEF Listen, Cancel, SupervisorReturns, MonitorReturns, Shutdown, Terminated, vars
<1> QED
  BY <1>1, <1>2, <1>3, <1>4, <1>5, <1>6, <1>7, <1>8, <1>9, <1>10, <1>11, <1>12, <1>13, <1>14, <1>15,
     <1>16, <1>17, <1>18, <1>19, <1>20, <1>21, <1>22, <1>23
     DEF Next, ClientNext, SessionNext, ProcNext, MainNext

\* Nobody waits and nothing runs when fzp starts.
LEMMA RecordInit == Init => RecordInv
BY DEF Init, RecordInv, Idle

\* A stuttering step keeps the invariant.
LEMMA RecordUnchanged == ASSUME RecordInv, UNCHANGED vars PROVE RecordInv'
BY DEF RecordInv, Undisturbed, vars

\* What run records_in_effect refutes is true in every behaviour in which no
\* session is started or deleted while someone else waits to stop it: then, for
\* any number of sessions, requests and processes, a deleted session has no
\* process and a running one has the fields and the key of its record.  So the
\* overtaking of a waiting operation is the only way Delete, Update and Rekey
\* can fail to do what manager.go says of them.
THEOREM RecordsHold == Spec /\ [][Unhindered]_vars => [](DeletedIsGone /\ ConfigInEffect)
<1>1. Init => TypeOK /\ ThreadOK /\ TunnelInv /\ Handles /\ RecordInv
  BY TypeInit, TunnelInit, RecordInit DEF Init, Handles
<1>2. TypeOK /\ ThreadOK /\ TunnelInv /\ Handles /\ RecordInv /\ [Next]_vars /\ [Unhindered]_vars
        => TypeOK' /\ ThreadOK' /\ TunnelInv' /\ Handles' /\ RecordInv'
  <2> SUFFICES ASSUME TypeOK, ThreadOK, TunnelInv, Handles, RecordInv, [Next]_vars, [Unhindered]_vars
               PROVE  TypeOK' /\ ThreadOK' /\ TunnelInv' /\ Handles' /\ RecordInv'
    OBVIOUS
  <2>1. TypeOK' /\ ThreadOK' /\ TunnelInv' /\ Handles'
    BY TypeStep, ThreadStep, TunnelStep, HandlesStep
  <2>2. RecordEffect
    BY RecordStep
  <2>3. RecordInv'
    BY <2>1, <2>2, RecordEffectOK, RecordUnchanged DEF TunnelInv
  <2> QED
    BY <2>1, <2>3
<1>3. TypeOK /\ RecordInv => DeletedIsGone /\ ConfigInEffect
  BY DEF RecordInv, DeletedIsGone, ConfigInEffect, Live, Procs
<1> QED
  BY <1>1, <1>2, <1>3, PTL DEF Spec
===========================================================================
