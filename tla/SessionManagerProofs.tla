----------------------- MODULE SessionManagerProofs -----------------------
(***************************************************************************)
(* Type correctness of SessionManager, and what holds of the threads that   *)
(* wait in stopLocked.  The lemmas about the shared helpers are used by the *)
(* proofs of OneTunnel and SavedState too.                                  *)
(***************************************************************************)
EXTENDS SessionManager, TLAPS

\* What a thread in stopLocked relies on when it has the lock again: the session
\* it works for exists, or did, and an Update has its new fields.
ThreadOK ==
  \A t \in Threads :
    /\ thr[t].op # "idle" => /\ main # "boot"
                             /\ thr[t].id \in Ids
                             /\ sess[thr[t].id].st # "absent"
    /\ thr[t].op = "update" => thr[t].room \in Rooms

---------------------------------------------------------------------------
\* TypeOK in the two groups of variables an operation writes together.
RecordsOK == sess \in [Ids -> Sessions] /\ disk \in [Ids -> Saved \cup {None}]
HandlesOK == /\ rt \in [Ids -> Procs \cup {None}]
             /\ proc \in [Procs -> Processes]
             /\ pidfile \in [Ids -> Procs \cup {None, Stray}]

\* A record keeps its type when one of its flags is set.
LEMMA FlagTypes ==
  ASSUME NEW s \in Sessions, NEW flag \in BOOLEAN
  PROVE  /\ [s EXCEPT !.over = flag] \in Sessions
         /\ [s EXCEPT !.enabled = flag] \in Sessions
         /\ [s EXCEPT !.limited = flag] \in Sessions
BY DEF Sessions

\* What saveLocked writes is a well-formed sessions.json.
LEMMA PersistType ==
  ASSUME NEW ss \in [Ids -> Sessions]
  PROVE  Persist(ss) \in [Ids -> Saved \cup {None}]
BY DEF Persist, Sessions, Saved

\* The process startLocked creates is one that does not exist yet.
LEMMA NewProcFree ==
  ASSUME NEW id \in Ids, FreeSlots(id) # {}
  PROVE  NewProc(id) \in Procs /\ NewProc(id)[1] = id /\ proc[NewProc(id)].st = "down"
<1>1. NewProc(id) \in FreeSlots(id)
  BY DEF NewProc
<1> QED
  BY <1>1 DEF FreeSlots, Procs

\* startLocked spawns only for a session that has no runtime.
LEMMA SpawnedFree ==
  ASSUME NEW id \in Ids, NEW s, "spawned" \in StartLocked(id, s)
  PROVE  rt[id] = None /\ FreeSlots(id) # {}
BY DEF StartLocked

\* Starting processes keeps the types of their handles.
LEMMA LaunchType ==
  ASSUME TypeOK, NEW up \in SUBSET Ids, \A id \in up : FreeSlots(id) # {},
         NEW ss \in [Ids -> Sessions], NEW files \in [Ids -> Procs \cup {None, Stray}],
         Launch(up, ss, files)
  PROVE  HandlesOK'
<1>1. \A id \in up : NewProc(id) \in Procs
  BY NewProcFree
<1>2. rt' \in [Ids -> Procs \cup {None}]
  BY <1>1 DEF Launch, TypeOK
<1>3. pidfile' \in [Ids -> Procs \cup {None, Stray}]
  BY <1>1 DEF Launch, TypeOK
<1>4. \A p \in Procs : p[1] \in Ids
  BY DEF Procs
<1>5. \A id \in Ids : [room |-> ss[id].room, key |-> ss[id].key] \in Confs
  BY DEF Sessions, Confs
<1>6. proc' \in [Procs -> Processes]
  BY <1>4, <1>5 DEF Launch, TypeOK, Processes
<1> QED
  BY <1>2, <1>3, <1>6 DEF HandlesOK

\* So does the tail that Create, Update, Rekey and ResetTraffic share.
LEMMA StartAndSaveType ==
  ASSUME TypeOK, NEW id \in Ids, NEW s \in Sessions, NEW want, StartAndSave(id, s, want)
  PROVE  RecordsOK' /\ HandlesOK'
<1>1. PICK r \in (IF want THEN StartLocked(id, s) ELSE {"off"}) :
        LET ss == [sess EXCEPT ![id] = [s EXCEPT !.enabled = @ /\ r \notin Refused]] IN
          Commit(ss) /\ Launch({x \in {id} : r = "spawned"}, ss, pidfile)
  BY DEF StartAndSave
<1> DEFINE ss == [sess EXCEPT ![id] = [s EXCEPT !.enabled = @ /\ r \notin Refused]]
<1> DEFINE up == {x \in {id} : r = "spawned"}
<1>2. ss \in [Ids -> Sessions]
  BY DEF TypeOK, Sessions
<1>3. up \in SUBSET Ids /\ \A x \in up : FreeSlots(x) # {}
  BY <1>1, SpawnedFree
<1>4. HandlesOK'
  BY <1>1, <1>2, <1>3, LaunchType DEF TypeOK
<1>5. RecordsOK'
  BY <1>1, <1>2, PersistType DEF RecordsOK, Commit
<1> QED
  BY <1>4, <1>5

\* stopLocked up to the unlock keeps the types.
LEMMA StopLockedType ==
  ASSUME TypeOK, NEW t \in Threads, NEW op \in {"update", "rekey", "toggle", "delete", "limit", "stopall"},
         NEW id \in Ids, rt[id] # None, NEW room \in Rooms \cup {None}, NEW todo \in SUBSET Ids,
         NEW ss \in [Ids -> Sessions], StopLocked(t, op, id, room, todo, ss)
  PROVE  sess' \in [Ids -> Sessions] /\ HandlesOK' /\ thr' \in [Threads -> Works]
<1>1. rt[id] \in Procs
  BY DEF TypeOK
<1>2. sess' \in [Ids -> Sessions]
  <2>1. PICK over \in Reading(id, ss[id].over) : sess' = [ss EXCEPT ![id].over = over]
    BY DEF StopLocked
  <2>2. over \in BOOLEAN
    BY <2>1 DEF Reading, Sessions
  <2> QED
    BY <2>1, <2>2 DEF Sessions
<1>3. HandlesOK'
  <2>1. rt' \in [Ids -> Procs \cup {None}] /\ pidfile' \in [Ids -> Procs \cup {None, Stray}]
    BY DEF StopLocked, TypeOK
  <2>2. proc' \in [Procs -> Processes]
    BY <1>1 DEF StopLocked, TypeOK, Processes
  <2> QED
    BY <2>1, <2>2 DEF HandlesOK
<1>4. thr' \in [Threads -> Works]
  BY <1>1 DEF StopLocked, TypeOK, Works
<1> QED
  BY <1>2, <1>3, <1>4

\* A thread that is not in stopLocked has the type of a thread.
LEMMA IdleType == Idle \in Works
BY DEF Idle, Works

\* TypeOK after a step, put together from its parts
LEMMA TypeParts ==
  ASSUME RecordsOK', HandlesOK', thr' \in [Threads -> Works],
         restart' \in [Ids -> {"none", "wait", "due"}],
         main' \in {"boot", "listen", "serve", "drain", "stopall", "exited"},
         ctxDone' \in BOOLEAN, supOn' \in BOOLEAN, monOn' \in BOOLEAN
  PROVE  TypeOK'
BY DEF TypeOK, RecordsOK, HandlesOK

\* The step of monitorTick's range keeps the types.
LEMMA MonitorStopType ==
  ASSUME TypeOK, NEW todo \in SUBSET Ids, NEW ss \in [Ids -> Sessions], MonitorStop(todo, ss)
  PROVE  sess' \in [Ids -> Sessions] /\ HandlesOK' /\ thr' \in [Threads -> Works]
<1>1. PICK id \in todo, passed \in SUBSET todo :
        /\ rt[id] # None
        /\ StopLocked(Monitor, "limit", id, None, todo \ (passed \cup {id}), [ss EXCEPT ![id].over = TRUE])
  BY DEF MonitorStop
<1>2. [ss EXCEPT ![id].over = TRUE] \in [Ids -> Sessions]
  BY DEF Sessions
<1>3. Monitor \in Threads /\ todo \ (passed \cup {id}) \in SUBSET Ids
  BY DEF Threads
<1> QED
  BY <1>1, <1>2, <1>3, StopLockedType

\* The step of StopAll's range keeps the types.
LEMMA StopNextType ==
  ASSUME TypeOK, NEW todo \in SUBSET Ids, StopNext(todo)
  PROVE  /\ RecordsOK' /\ HandlesOK' /\ thr' \in [Threads -> Works]
         /\ main' \in {"stopall", "exited"}
<1> DEFINE rest == {id \in todo : sess[id].st = "live" /\ rt[id] # None}
<1>0. Main \in Threads
  BY DEF Threads
<1>1. CASE \E id \in rest : \E passed \in SUBSET (todo \ rest) :
             /\ StopLocked(Main, "stopall", id, None, todo \ (passed \cup {id}), sess)
             /\ main' = "stopall" /\ UNCHANGED disk
  <2>1. PICK id \in rest, passed \in SUBSET (todo \ rest) :
             /\ StopLocked(Main, "stopall", id, None, todo \ (passed \cup {id}), sess)
             /\ main' = "stopall" /\ UNCHANGED disk
    BY <1>1
  <2>2. todo \ (passed \cup {id}) \in SUBSET Ids /\ sess \in [Ids -> Sessions]
    BY DEF TypeOK
  <2>3. sess' \in [Ids -> Sessions] /\ HandlesOK' /\ thr' \in [Threads -> Works]
    BY <1>0, <2>1, <2>2, StopLockedType
  <2> QED
    BY <2>1, <2>3 DEF RecordsOK, TypeOK
<1>2. CASE Commit(sess) /\ main' = "exited" /\ thr' = [thr EXCEPT ![Main] = Idle] /\ UNCHANGED <<rt, proc, pidfile>>
  BY <1>2, PersistType, IdleType DEF Commit, RecordsOK, HandlesOK, TypeOK
<1> QED
  BY <1>1, <1>2 DEF StopNext

\* Every step of the manager, its processes and run() keeps the types.
LEMMA TypeStep ==
  ASSUME TypeOK, ThreadOK, [Next]_vars
  PROVE  TypeOK'
<1>0. /\ Monitor \in Threads /\ Main \in Threads /\ Clients \subseteq Threads
      /\ sess \in [Ids -> Sessions]
  BY DEF Threads, TypeOK
<1>1. ASSUME NEW id \in Ids, Create(id) PROVE TypeOK'
  <2>1. PICK room \in Rooms, key \in Keys :
          StartAndSave(id, [st |-> "live", enabled |-> TRUE, limited |-> FALSE,
                            over |-> FALSE, room |-> room, key |-> key], TRUE)
    BY <1>1 DEF Create
  <2>2. [st |-> "live", enabled |-> TRUE, limited |-> FALSE,
         over |-> FALSE, room |-> room, key |-> key] \in Sessions
    BY DEF Sessions
  <2>3. RecordsOK' /\ HandlesOK'
    BY <2>1, <2>2, StartAndSaveType
  <2>4. thr' \in [Threads -> Works]
    <3>1. PICK visit \in SUBSET Ids :
            thr' = [thr EXCEPT ![Monitor].todo = IF thr[Monitor].op = "idle" THEN @ ELSE @ \cup visit]
      BY <1>1 DEF Create
    <3>2. thr[Monitor] \in Works /\ thr[Monitor].todo \cup visit \in SUBSET Ids
      BY <1>0 DEF TypeOK, Works
    <3>3. [thr[Monitor] EXCEPT !.todo = IF thr[Monitor].op = "idle" THEN @ ELSE @ \cup visit] \in Works
      BY <3>2 DEF Works
    <3> QED
      BY <1>0, <3>1, <3>3 DEF TypeOK
  <2> QED
    BY <1>1, <2>3, <2>4, TypeParts DEF Create, ctl, TypeOK
<1>2. ASSUME NEW id \in Ids, NEW room \in Rooms, NEW running, ApplyUpdate(id, room, running),
             thr' \in [Threads -> Works]
      PROVE  TypeOK'
  <2>1. PICK over \in BOOLEAN :
          StartAndSave(id, [sess[id] EXCEPT !.room = room, !.over = over], running \/ sess[id].enabled)
    BY <1>2 DEF ApplyUpdate
  <2>2. [sess[id] EXCEPT !.room = room, !.over = over] \in Sessions
    BY <1>0 DEF Sessions
  <2>3. RecordsOK' /\ HandlesOK'
    BY <2>1, <2>2, StartAndSaveType
  <2> QED
    BY <1>2, <2>3, TypeParts DEF ApplyUpdate, ctl, TypeOK
<1>3. ASSUME NEW id \in Ids, NEW running, ApplyRekey(id, running), thr' \in [Threads -> Works]
      PROVE  TypeOK'
  <2>1. PICK key \in Keys : StartAndSave(id, [sess[id] EXCEPT !.key = key], running \/ sess[id].enabled)
    BY <1>3 DEF ApplyRekey
  <2>2. [sess[id] EXCEPT !.key = key] \in Sessions
    BY <1>0 DEF Sessions
  <2>3. RecordsOK' /\ HandlesOK'
    BY <2>1, <2>2, StartAndSaveType
  <2> QED
    BY <1>3, <2>3, TypeParts DEF ApplyRekey, ctl, TypeOK
<1>4. ASSUME NEW t \in Threads, NEW op \in {"update", "rekey", "toggle", "delete"}, NEW id \in Ids,
             NEW room \in Rooms \cup {None}, rt[id] # None,
             StopLocked(t, op, id, room, {}, sess), UNCHANGED <<restart, disk, ctl>>
      PROVE  TypeOK'
  <2>1. sess' \in [Ids -> Sessions] /\ HandlesOK' /\ thr' \in [Threads -> Works]
    <3>1. op \in {"update", "rekey", "toggle", "delete", "limit", "stopall"} /\ {} \in SUBSET Ids
      OBVIOUS
    <3> QED
      BY <1>0, <1>4, <3>1, StopLockedType
  <2> QED
    BY <1>4, <2>1, TypeParts DEF ctl, TypeOK, RecordsOK
<1>5. ASSUME NEW t \in Clients, NEW id \in Ids, Update(t, id) PROVE TypeOK'
  BY <1>0, <1>2, <1>4, <1>5 DEF Update, TypeOK
<1>6. ASSUME NEW t \in Clients, UpdateResume(t) PROVE TypeOK'
  <2>1. thr[t].id \in Ids /\ thr[t].room \in Rooms
    BY <1>0, <1>6 DEF UpdateResume, Woken, ThreadOK
  <2> QED
    BY <1>0, <1>2, <1>6, <2>1, IdleType DEF UpdateResume, TypeOK
<1>7. ASSUME NEW t \in Clients, NEW id \in Ids, Rekey(t, id) PROVE TypeOK'
  BY <1>0, <1>3, <1>4, <1>7 DEF Rekey, TypeOK
<1>8. ASSUME NEW t \in Clients, RekeyResume(t) PROVE TypeOK'
  <2>1. thr[t].id \in Ids
    BY <1>0, <1>8 DEF RekeyResume, Woken, ThreadOK
  <2> QED
    BY <1>0, <1>3, <1>8, <2>1, IdleType DEF RekeyResume, TypeOK
<1>9. ASSUME NEW t \in Clients, NEW id \in Ids, ToggleOff(t, id) PROVE TypeOK'
  BY <1>0, <1>4, <1>9 DEF ToggleOff, TypeOK
<1>10. ASSUME NEW t \in Clients, ToggleResume(t) PROVE TypeOK'
  <2>1. [sess EXCEPT ![thr[t].id].enabled = FALSE] \in [Ids -> Sessions]
    BY <1>0, FlagTypes
  <2>2. RecordsOK'
    BY <1>10, <2>1, PersistType DEF ToggleResume, Commit, RecordsOK
  <2> QED
    BY <1>10, <2>2, IdleType DEF ToggleResume, TypeOK, RecordsOK, ctl
<1>11. ASSUME NEW id \in Ids, ToggleOn(id) PROVE TypeOK'
  <2>1. PICK r \in StartLocked(id, sess[id]) :
          LET ss == [sess EXCEPT ![id].enabled = @ \/ r \notin Refused] IN
            Commit(ss) /\ Launch({x \in {id} : r = "spawned"}, ss, pidfile)
    BY <1>11 DEF ToggleOn
  <2> DEFINE ss == [sess EXCEPT ![id].enabled = @ \/ r \notin Refused]
  <2>2. ss \in [Ids -> Sessions]
    <3>1. (sess[id].enabled \/ r \notin Refused) \in BOOLEAN
      OBVIOUS
    <3> QED
      BY <1>0, <3>1, FlagTypes
  <2>3. {x \in {id} : r = "spawned"} \in SUBSET Ids /\ \A x \in {x \in {id} : r = "spawned"} : FreeSlots(x) # {}
    BY <2>1, SpawnedFree
  <2>4. HandlesOK'
    BY <2>1, <2>2, <2>3, LaunchType DEF TypeOK
  <2>5. RecordsOK'
    BY <2>1, <2>2, PersistType DEF RecordsOK, Commit
  <2> QED
    BY <1>11, <2>4, <2>5, TypeParts DEF ToggleOn, ctl, TypeOK
<1>12. ASSUME NEW id \in Ids, ResetTraffic(id) PROVE TypeOK'
  <2>1. PICK over \in BOOLEAN :
          StartAndSave(id, [sess[id] EXCEPT !.limited = FALSE, !.over = over], sess[id].enabled /\ rt[id] = None)
    BY <1>0, <1>12 DEF ResetTraffic, Sessions
  <2>2. [sess[id] EXCEPT !.limited = FALSE, !.over = over] \in Sessions
    BY <1>0 DEF Sessions
  <2>3. RecordsOK' /\ HandlesOK'
    BY <2>1, <2>2, StartAndSaveType
  <2> QED
    BY <1>12, <2>3, TypeParts DEF ResetTraffic, ctl, TypeOK
<1>13. ASSUME NEW id, RemoveSession(id), thr' \in [Threads -> Works] PROVE TypeOK'
  <2>1. [sess EXCEPT ![id].st = "deleted"] \in [Ids -> Sessions]
    BY <1>0 DEF Sessions
  <2>2. RecordsOK'
    BY <1>13, <2>1, PersistType DEF RemoveSession, Commit, RecordsOK
  <2> QED
    BY <1>13, <2>2 DEF RemoveSession, TypeOK, RecordsOK, ctl
<1>14. ASSUME NEW t \in Clients, NEW id \in Ids, Delete(t, id) PROVE TypeOK'
  BY <1>0, <1>4, <1>13, <1>14 DEF Delete, TypeOK
<1>15. ASSUME NEW t \in Clients, DeleteResume(t) PROVE TypeOK'
  BY <1>0, <1>13, <1>15, IdleType DEF DeleteResume, TypeOK
<1>16. ASSUME NEW id \in Ids, ReadTraffic(id) PROVE TypeOK'
  <2>1. PICK over \in BOOLEAN : sess' = [sess EXCEPT ![id].over = @ \/ over]
    BY <1>0, <1>16 DEF ReadTraffic, Reading, Sessions
  <2>2. sess' = [sess EXCEPT ![id] = [@ EXCEPT !.over = sess[id].over \/ over]]
    BY <2>1
  <2>3. sess[id] \in Sessions /\ (sess[id].over \/ over) \in BOOLEAN
    BY <1>0
  <2>4. [sess[id] EXCEPT !.over = sess[id].over \/ over] \in Sessions
    BY <2>3 DEF Sessions
  <2>5. sess' \in [Ids -> Sessions]
    BY <1>0, <2>2, <2>4
  <2> QED
    BY <1>16, <2>5 DEF ReadTraffic, TypeOK, ctl
<1>17. ASSUME NEW id \in Ids, BackoffElapses(id) PROVE TypeOK'
  BY <1>17 DEF BackoffElapses, TypeOK, ctl
<1>18. CASE SupervisorTick
  <2>1. PICK up \in SUBSET {id \in Attempt : "spawned" \in StartLocked(id, sess[id])} :
          Launch(up, sess, pidfile) /\ disk' = IF up = {} THEN disk ELSE Persist(sess)
    BY <1>18 DEF SupervisorTick
  <2>2. up \in SUBSET Ids /\ \A id \in up : FreeSlots(id) # {}
    BY <2>1, SpawnedFree DEF Attempt, Live
  <2>3. HandlesOK'
    BY <1>0, <2>1, <2>2, LaunchType DEF TypeOK
  <2>4. RecordsOK'
    BY <1>0, <1>18, <2>1, PersistType DEF SupervisorTick, RecordsOK, TypeOK
  <2>5. restart' \in [Ids -> {"none", "wait", "due"}]
    BY <1>18 DEF SupervisorTick, TypeOK
  <2> QED
    BY <1>18, <2>3, <2>4, <2>5, TypeParts DEF SupervisorTick, TypeOK, ctl
<1>19. CASE MonitorTick
  <2>1. Live \in SUBSET Ids
    BY DEF Live
  <2>2. sess' \in [Ids -> Sessions] /\ HandlesOK' /\ thr' \in [Threads -> Works]
    BY <1>0, <1>19, <2>1, MonitorStopType DEF MonitorTick
  <2> QED
    BY <1>19, <2>2, TypeParts DEF MonitorTick, TypeOK, RecordsOK, ctl
<1>20. CASE MonitorResume
  <2> DEFINE ss == [sess EXCEPT ![thr[Monitor].id].limited = TRUE]
  <2>1. ss \in [Ids -> Sessions]
    BY <1>0 DEF Sessions
  <2>2. thr[Monitor].todo \in SUBSET Ids
    BY <1>0 DEF TypeOK, Works
  <2>3. CASE MonitorStop(thr[Monitor].todo, ss) /\ UNCHANGED disk
    <3>1. sess' \in [Ids -> Sessions] /\ HandlesOK' /\ thr' \in [Threads -> Works]
      BY <2>1, <2>2, <2>3, MonitorStopType
    <3> QED
      BY <1>20, <2>3, <3>1, TypeParts DEF MonitorResume, TypeOK, RecordsOK, ctl
  <2>4. CASE Commit(ss) /\ thr' = [thr EXCEPT ![Monitor] = Idle] /\ UNCHANGED <<rt, proc, pidfile>>
    <3>1. RecordsOK'
      BY <2>1, <2>4, PersistType DEF Commit, RecordsOK
    <3> QED
      BY <1>20, <2>4, <3>1, IdleType DEF MonitorResume, TypeOK, RecordsOK, ctl
  <2> QED
    BY <1>20, <2>3, <2>4 DEF MonitorResume
<1>21. ASSUME NEW t \in Threads, StopTimeout(t) PROVE TypeOK'
  <2>1. thr[t].proc \in Procs
    BY <1>21 DEF StopTimeout, TypeOK, Works
  <2>2. proc' \in [Procs -> Processes]
    BY <1>21, <2>1 DEF StopTimeout, TypeOK, Processes
  <2> QED
    BY <1>21, <2>2 DEF StopTimeout, TypeOK, ctl
<1>22. ASSUME NEW p \in Procs, Exit(p) PROVE TypeOK'
  BY <1>22 DEF Exit, TypeOK, Processes, ctl
<1>23. ASSUME NEW p \in Procs, ExitLocked(p) PROVE TypeOK'
  <2>1. proc' \in [Procs -> Processes] /\ rt' \in [Ids -> Procs \cup {None}]
    BY <1>23 DEF ExitLocked, TypeOK, Processes
  <2>2. sess' \in [Ids -> Sessions]
    <3>1. p[1] \in Ids
      BY DEF Procs
    <3>2. sess[p[1]].over \in BOOLEAN
      BY <1>0, <3>1 DEF Sessions
    <3>3. sess' = sess \/ \E over \in BOOLEAN : sess' = [sess EXCEPT ![p[1]].over = over]
      BY <1>23, <3>2 DEF ExitLocked
    <3>4. ASSUME NEW over \in BOOLEAN PROVE [sess[p[1]] EXCEPT !.over = over] \in Sessions
      BY <1>0, <3>1, FlagTypes
    <3> QED
      BY <1>0, <3>3, <3>4
  <2> QED
    BY <1>23, <2>1, <2>2 DEF ExitLocked, TypeOK, ctl
<1>24. ASSUME NEW p \in Procs, ExitCleanup(p) PROVE TypeOK'
  <2>1. proc' \in [Procs -> Processes] /\ pidfile' \in [Ids -> Procs \cup {None, Stray}]
    BY <1>24 DEF ExitCleanup, TypeOK, Processes, NoProc
  <2>2. thr' \in [Threads -> Works]
    <3>1. \A t \in Threads : [thr[t] EXCEPT !.proc = None] \in Works
      BY DEF TypeOK, Works
    <3> QED
      BY <1>24, <3>1 DEF ExitCleanup, TypeOK
  <2> QED
    BY <1>24, <2>1, <2>2 DEF ExitCleanup, TypeOK, ctl
<1>25. CASE Restore
  <2> DEFINE wanted == {id \in Live : sess[id].enabled}
  <2> DEFINE ss(up) == [id \in Ids |-> IF id \in wanted \ up THEN [sess[id] EXCEPT !.enabled = FALSE]
                                       ELSE sess[id]]
  <2> DEFINE files == [id \in Ids |-> IF id \in Live THEN None ELSE pidfile[id]]
  <2>1. PICK up \in SUBSET {id \in wanted : "spawned" \in StartLocked(id, sess[id])} :
          Commit(ss(up)) /\ Launch(up, ss(up), files)
    BY <1>25 DEF Restore
  <2>2. up \in SUBSET Ids /\ \A id \in up : FreeSlots(id) # {}
    BY <2>1, SpawnedFree DEF Live
  <2>3. ss(up) \in [Ids -> Sessions] /\ files \in [Ids -> Procs \cup {None, Stray}]
    <3>1. \A id \in Ids : sess[id] \in Sessions /\ [sess[id] EXCEPT !.enabled = FALSE] \in Sessions
      BY <1>0, FlagTypes
    <3>2. pidfile \in [Ids -> Procs \cup {None, Stray}]
      BY DEF TypeOK
    <3> QED
      BY <3>1, <3>2
  <2>4. HandlesOK'
    BY <2>1, <2>2, <2>3, LaunchType
  <2>5. RecordsOK'
    BY <2>1, <2>3, PersistType DEF RecordsOK, Commit
  <2> QED
    BY <1>25, <2>4, <2>5, TypeParts DEF Restore, TypeOK
<1>26. CASE StopAll
  <2>1. Live \in SUBSET Ids
    BY DEF Live
  <2> QED
    BY <1>26, <2>1, StopNextType, TypeParts DEF StopAll, TypeOK
<1>27. CASE StopAllResume
  <2>1. thr[Main].todo \in SUBSET Ids
    BY <1>0 DEF TypeOK, Works
  <2> QED
    BY <1>27, <2>1, StopNextType, TypeParts DEF StopAllResume, TypeOK
<1>28. CASE Listen \/ Cancel \/ SupervisorReturns \/ MonitorReturns \/ Shutdown
  BY <1>28 DEF Listen, Cancel, SupervisorReturns, MonitorReturns, Shutdown, TypeOK
<1>29. CASE Terminated \/ UNCHANGED vars
  BY <1>29 DEF Terminated, vars, TypeOK
<1> QED
  BY <1>1, <1>5, <1>6, <1>7, <1>8, <1>9, <1>10, <1>11, <1>12, <1>14, <1>15, <1>16, <1>17, <1>18,
     <1>19, <1>20, <1>21, <1>22, <1>23, <1>24, <1>25, <1>26, <1>27, <1>28, <1>29
     DEF Next, ClientNext, SessionNext, ProcNext, MainNext

\* what a step may do to the threads and to the sessions they work on
ThreadEffect ==
  /\ \A t \in Threads :
       \/ thr'[t].op = "idle"
       \/ thr'[t].op = thr[t].op /\ thr'[t].id = thr[t].id /\ thr'[t].room = thr[t].room
       \/ /\ main' # "boot" /\ thr'[t].id \in Ids /\ sess[thr'[t].id].st # "absent"
          /\ thr'[t].op = "update" => thr'[t].room \in Rooms
  /\ \A id \in Ids : sess'[id].st = "absent" => sess[id].st = "absent"
  /\ main' = "boot" => main = "boot"

\* Such a step keeps ThreadOK.
LEMMA ThreadEffectOK == ASSUME ThreadOK, ThreadEffect PROVE ThreadOK'
BY DEF ThreadOK, ThreadEffect

\* The shared tail makes no session absent.
LEMMA StartAndSaveSt ==
  ASSUME TypeOK, NEW id \in Ids, NEW s, s.st # "absent", NEW want, StartAndSave(id, s, want)
  PROVE  \A x \in Ids : sess'[x].st = "absent" => sess[x].st = "absent"
<1>1. PICK r : sess' = [sess EXCEPT ![id] = [s EXCEPT !.enabled = @ /\ r \notin Refused]]
  BY DEF StartAndSave, Commit
<1>2. sess'[id].st = s.st
  BY <1>1 DEF TypeOK
<1> QED
  BY <1>1, <1>2 DEF TypeOK

\* stopLocked puts its thread to work on a session that is there.
LEMMA StopLockedThread ==
  ASSUME TypeOK, NEW t \in Threads, NEW op, NEW id \in Ids, sess[id].st # "absent",
         NEW room, op = "update" => room \in Rooms, NEW todo, NEW ss \in [Ids -> Sessions],
         \A x \in Ids : ss[x].st = sess[x].st,
         main' # "boot", StopLocked(t, op, id, room, todo, ss)
  PROVE  ThreadEffect
<1>1. \A x \in Ids : sess'[x].st = sess[x].st
  BY DEF StopLocked, Sessions
<1>2. \A u \in Threads : IF u = t THEN thr'[u].op = op /\ thr'[u].id = id /\ thr'[u].room = room
                          ELSE thr'[u] = thr[u]
  BY DEF StopLocked, TypeOK
<1> QED
  BY <1>1, <1>2 DEF ThreadEffect

\* And so does monitorTick,
LEMMA MonitorStopThread ==
  ASSUME TypeOK, NEW todo \in SUBSET Ids, NEW ss \in [Ids -> Sessions],
         \A x \in Ids : ss[x].st = sess[x].st, main' # "boot", MonitorStop(todo, ss)
  PROVE  ThreadEffect
<1>1. PICK id \in todo, passed \in SUBSET todo :
        /\ sess[id].st = "live"
        /\ StopLocked(Monitor, "limit", id, None, todo \ (passed \cup {id}), [ss EXCEPT ![id].over = TRUE])
  BY DEF MonitorStop
<1>2. /\ [ss EXCEPT ![id].over = TRUE] \in [Ids -> Sessions]
      /\ \A x \in Ids : [ss EXCEPT ![id].over = TRUE][x].st = sess[x].st
  BY DEF Sessions
<1>3. Monitor \in Threads
  BY DEF Threads
<1> QED
  BY <1>1, <1>2, <1>3, StopLockedThread

\* and StopAll.
LEMMA StopNextThread ==
  ASSUME TypeOK, NEW todo \in SUBSET Ids, StopNext(todo)
  PROVE  ThreadEffect
<1> DEFINE rest == {id \in todo : sess[id].st = "live" /\ rt[id] # None}
<1>0. Main \in Threads /\ sess \in [Ids -> Sessions]
  BY DEF Threads, TypeOK
<1>1. CASE \E id \in rest : \E passed \in SUBSET (todo \ rest) :
             StopLocked(Main, "stopall", id, None, todo \ (passed \cup {id}), sess) /\ main' = "stopall"
  <2>1. PICK id \in rest, passed \in SUBSET (todo \ rest) :
             StopLocked(Main, "stopall", id, None, todo \ (passed \cup {id}), sess) /\ main' = "stopall"
    BY <1>1
  <2> QED
    BY <1>0, <2>1, StopLockedThread
<1>2. CASE sess' = sess /\ main' = "exited" /\ thr' = [thr EXCEPT ![Main] = Idle]
  BY <1>0, <1>2 DEF ThreadEffect, TypeOK, Idle
<1> QED
  BY <1>1, <1>2 DEF StopNext, Commit

\* Every step keeps ThreadOK.
LEMMA ThreadStep ==
  ASSUME TypeOK, ThreadOK, [Next]_vars
  PROVE  ThreadOK'
<1>0. /\ Monitor \in Threads /\ Main \in Threads /\ Clients \subseteq Threads
      /\ sess \in [Ids -> Sessions]
  BY DEF Threads, TypeOK
<1> SUFFICES ThreadEffect
  BY ThreadEffectOK
<1>1. ASSUME NEW t \in Threads, thr' = [thr EXCEPT ![t] = Idle],
             \A x \in Ids : sess'[x].st = "absent" => sess[x].st = "absent", main' = main
      PROVE  ThreadEffect
  BY <1>1 DEF ThreadEffect, Idle, TypeOK
<1>2. ASSUME thr' = thr, \A x \in Ids : sess'[x].st = "absent" => sess[x].st = "absent",
             main' = "boot" => main = "boot"
      PROVE  ThreadEffect
  BY <1>2 DEF ThreadEffect
<1>3. ASSUME NEW t \in Threads, NEW op \in {"rekey", "toggle", "delete"}, NEW id \in Ids,
             Request(id), StopLocked(t, op, id, None, {}, sess), UNCHANGED ctl
      PROVE  ThreadEffect
  BY <1>0, <1>3, StopLockedThread DEF Request, ctl
<1>4. ASSUME NEW id \in Ids, sess[id].st # "absent", NEW room, NEW running, ApplyUpdate(id, room, running)
      PROVE  main' = main /\ \A x \in Ids : sess'[x].st = "absent" => sess[x].st = "absent"
  <2>1. PICK over : StartAndSave(id, [sess[id] EXCEPT !.room = room, !.over = over], running \/ sess[id].enabled)
    BY <1>4 DEF ApplyUpdate
  <2>2. [sess[id] EXCEPT !.room = room, !.over = over].st # "absent"
    BY <1>0, <1>4 DEF Sessions
  <2> QED
    BY <1>4, <2>1, <2>2, StartAndSaveSt DEF ApplyUpdate, ctl
<1>5. ASSUME NEW id \in Ids, sess[id].st # "absent", NEW running, ApplyRekey(id, running)
      PROVE  main' = main /\ \A x \in Ids : sess'[x].st = "absent" => sess[x].st = "absent"
  <2>1. PICK key : StartAndSave(id, [sess[id] EXCEPT !.key = key], running \/ sess[id].enabled)
    BY <1>5 DEF ApplyRekey
  <2>2. [sess[id] EXCEPT !.key = key].st # "absent"
    BY <1>0, <1>5 DEF Sessions
  <2> QED
    BY <1>5, <2>1, <2>2, StartAndSaveSt DEF ApplyRekey, ctl
<1>6. ASSUME NEW id, RemoveSession(id)
      PROVE  main' = main /\ \A x \in Ids : sess'[x].st = "absent" => sess[x].st = "absent"
  BY <1>0, <1>6 DEF RemoveSession, Commit, ctl, Sessions
<1>7. ASSUME NEW id \in Ids, Create(id) PROVE ThreadEffect
  <2>1. PICK room \in Rooms, key \in Keys :
          StartAndSave(id, [st |-> "live", enabled |-> TRUE, limited |-> FALSE,
                            over |-> FALSE, room |-> room, key |-> key], TRUE)
    BY <1>7 DEF Create
  <2>2. \A x \in Ids : sess'[x].st = "absent" => sess[x].st = "absent"
    BY <2>1, StartAndSaveSt
  <2>3. PICK todo : thr' = [thr EXCEPT ![Monitor].todo = todo]
    BY <1>7 DEF Create
  <2>4. \A t \in Threads : thr'[t].op = thr[t].op /\ thr'[t].id = thr[t].id /\ thr'[t].room = thr[t].room
    BY <2>3 DEF TypeOK, Works
  <2> QED
    BY <1>7, <2>2, <2>4 DEF Create, ctl, ThreadEffect
<1>8. ASSUME NEW t \in Clients, NEW id \in Ids, Update(t, id) PROVE ThreadEffect
  <2>1. PICK room \in Rooms :
          \/ StopLocked(t, "update", id, room, {}, sess) /\ UNCHANGED ctl
          \/ ApplyUpdate(id, room, FALSE) /\ UNCHANGED thr
    BY <1>8 DEF Update
  <2>2. sess[id].st # "absent" /\ main = "serve"
    BY <1>8 DEF Update, Request
  <2>3. CASE StopLocked(t, "update", id, room, {}, sess) /\ UNCHANGED ctl
    BY <1>0, <2>2, <2>3, StopLockedThread DEF ctl
  <2>4. CASE ApplyUpdate(id, room, FALSE) /\ UNCHANGED thr
    BY <1>2, <1>4, <2>2, <2>4
  <2> QED
    BY <2>1, <2>3, <2>4
<1>9. ASSUME NEW t \in Clients, UpdateResume(t) PROVE ThreadEffect
  <2>1. thr[t].id \in Ids /\ sess[thr[t].id].st # "absent"
    BY <1>0, <1>9 DEF UpdateResume, Woken, ThreadOK
  <2> QED
    BY <1>0, <1>1, <1>4, <1>9, <2>1 DEF UpdateResume
<1>10. ASSUME NEW t \in Clients, NEW id \in Ids, Rekey(t, id) PROVE ThreadEffect
  <2>1. sess[id].st # "absent"
    BY <1>10 DEF Rekey, Request
  <2> QED
    BY <1>0, <1>2, <1>3, <1>5, <1>10, <2>1 DEF Rekey
<1>11. ASSUME NEW t \in Clients, RekeyResume(t) PROVE ThreadEffect
  <2>1. thr[t].id \in Ids /\ sess[thr[t].id].st # "absent"
    BY <1>0, <1>11 DEF RekeyResume, Woken, ThreadOK
  <2> QED
    BY <1>0, <1>1, <1>5, <1>11, <2>1 DEF RekeyResume
<1>12. ASSUME NEW t \in Clients, NEW id \in Ids, ToggleOff(t, id) PROVE ThreadEffect
  BY <1>0, <1>3, <1>12 DEF ToggleOff
<1>13. ASSUME NEW t \in Clients, ToggleResume(t) PROVE ThreadEffect
  <2>1. \A x \in Ids : sess'[x].st = "absent" => sess[x].st = "absent"
    BY <1>0, <1>13 DEF ToggleResume, Commit, Sessions
  <2> QED
    BY <1>0, <1>1, <1>13, <2>1 DEF ToggleResume, ctl
<1>14. ASSUME NEW id \in Ids, ToggleOn(id) PROVE ThreadEffect
  <2>1. PICK r : sess' = [sess EXCEPT ![id].enabled = @ \/ r \notin Refused]
    BY <1>14 DEF ToggleOn, Commit
  <2>2. \A x \in Ids : sess'[x].st = sess[x].st
    BY <1>0, <2>1 DEF Sessions
  <2> QED
    BY <1>2, <1>14, <2>2 DEF ToggleOn, ctl
<1>15. ASSUME NEW id \in Ids, ResetTraffic(id) PROVE ThreadEffect
  <2>1. PICK over : StartAndSave(id, [sess[id] EXCEPT !.limited = FALSE, !.over = over],
                                 sess[id].enabled /\ rt[id] = None)
    BY <1>15 DEF ResetTraffic
  <2>2. [sess[id] EXCEPT !.limited = FALSE, !.over = over].st # "absent"
    BY <1>0, <1>15 DEF ResetTraffic, Request, Sessions
  <2> QED
    BY <1>2, <1>15, <2>1, <2>2, StartAndSaveSt DEF ResetTraffic, ctl
<1>16. ASSUME NEW t \in Clients, NEW id \in Ids, Delete(t, id) PROVE ThreadEffect
  BY <1>0, <1>2, <1>3, <1>6, <1>16 DEF Delete
<1>17. ASSUME NEW t \in Clients, DeleteResume(t) PROVE ThreadEffect
  BY <1>0, <1>1, <1>6, <1>17 DEF DeleteResume
<1>18. ASSUME NEW id \in Ids, ReadTraffic(id) PROVE ThreadEffect
  <2>1. \A x \in Ids : sess'[x].st = sess[x].st
    BY <1>0, <1>18 DEF ReadTraffic, Sessions
  <2> QED
    BY <1>2, <1>18, <2>1 DEF ReadTraffic, ctl
<1>19. ASSUME NEW id \in Ids, BackoffElapses(id) PROVE ThreadEffect
  BY <1>2, <1>19 DEF BackoffElapses, ctl
<1>20. CASE SupervisorTick
  BY <1>2, <1>20 DEF SupervisorTick, ctl
<1>21. CASE MonitorTick
  <2>1. Live \in SUBSET Ids /\ main' # "boot"
    BY <1>21 DEF Live, MonitorTick, ctl
  <2> QED
    BY <1>0, <1>21, <2>1, MonitorStopThread DEF MonitorTick
<1>22. CASE MonitorResume
  <2> DEFINE ss == [sess EXCEPT ![thr[Monitor].id].limited = TRUE]
  <2>1. ss \in [Ids -> Sessions] /\ \A x \in Ids : ss[x].st = sess[x].st
    BY <1>0 DEF Sessions
  <2>2. thr[Monitor].todo \in SUBSET Ids
    BY <1>0 DEF TypeOK, Works
  <2>3. main' = main /\ main # "boot"
    BY <1>0, <1>22 DEF MonitorResume, ctl, Woken, ThreadOK
  <2>4. CASE MonitorStop(thr[Monitor].todo, ss)
    BY <2>1, <2>2, <2>3, <2>4, MonitorStopThread
  <2>5. CASE sess' = ss /\ thr' = [thr EXCEPT ![Monitor] = Idle]
    BY <1>0, <1>1, <2>1, <2>3, <2>5
  <2> QED
    BY <1>22, <2>4, <2>5 DEF MonitorResume, Commit
<1>23. ASSUME NEW t \in Threads, StopTimeout(t) PROVE ThreadEffect
  BY <1>2, <1>23 DEF StopTimeout, ctl
<1>24. ASSUME NEW p \in Procs, Exit(p) PROVE ThreadEffect
  BY <1>2, <1>24 DEF Exit, ctl
<1>25. ASSUME NEW p \in Procs, ExitLocked(p) PROVE ThreadEffect
  <2>1. sess' = sess \/ \E over : sess' = [sess EXCEPT ![p[1]].over = over]
    BY <1>25 DEF ExitLocked
  <2>2. ASSUME NEW over, sess' = [sess EXCEPT ![p[1]].over = over]
        PROVE  \A x \in Ids : sess'[x].st = sess[x].st
    BY <1>0, <2>2 DEF Sessions
  <2>3. \A x \in Ids : sess'[x].st = sess[x].st
    BY <2>1, <2>2
  <2> QED
    BY <1>2, <1>25, <2>3 DEF ExitLocked, ctl
<1>26. ASSUME NEW p \in Procs, ExitCleanup(p) PROVE ThreadEffect
  <2>1. \A t \in Threads : thr'[t].op = thr[t].op /\ thr'[t].id = thr[t].id /\ thr'[t].room = thr[t].room
    BY <1>26 DEF ExitCleanup, TypeOK, Works
  <2> QED
    BY <1>26, <2>1 DEF ExitCleanup, ctl, ThreadEffect
<1>27. CASE Restore
  <2> DEFINE wanted == {id \in Live : sess[id].enabled}
  <2>1. PICK up \in SUBSET wanted :
          sess' = [id \in Ids |-> IF id \in wanted \ up THEN [sess[id] EXCEPT !.enabled = FALSE] ELSE sess[id]]
    BY <1>27 DEF Restore, Commit
  <2>2. \A x \in Ids : sess'[x].st = sess[x].st
    BY <1>0, <2>1 DEF Sessions
  <2> QED
    BY <1>2, <1>27, <2>2 DEF Restore
<1>28. CASE StopAll
  <2>1. Live \in SUBSET Ids
    BY DEF Live
  <2> QED
    BY <1>28, <2>1, StopNextThread DEF StopAll
<1>29. CASE StopAllResume
  <2>1. thr[Main].todo \in SUBSET Ids
    BY <1>0 DEF TypeOK, Works
  <2> QED
    BY <1>29, <2>1, StopNextThread DEF StopAllResume
<1>30. CASE Listen \/ Cancel \/ SupervisorReturns \/ MonitorReturns \/ Shutdown \/ Terminated \/ UNCHANGED vars
  BY <1>2, <1>30 DEF Listen, Cancel, SupervisorReturns, MonitorReturns, Shutdown, Terminated, vars
<1> QED
  BY <1>7, <1>8, <1>9, <1>10, <1>11, <1>12, <1>13, <1>14, <1>15, <1>16, <1>17, <1>18, <1>19, <1>20,
     <1>21, <1>22, <1>23, <1>24, <1>25, <1>26, <1>27, <1>28, <1>29, <1>30
     DEF Next, ClientNext, SessionNext, ProcNext, MainNext


\* The manager starts well-typed, with nobody in stopLocked.
LEMMA TypeInit == Init => TypeOK /\ ThreadOK
<1> SUFFICES ASSUME Init PROVE TypeOK /\ ThreadOK
  OBVIOUS
<1>1. thr \in [Threads -> Works] /\ \A t \in Threads : thr[t].op = "idle"
  BY IdleType DEF Init, Idle
<1>2. disk \in [Ids -> Saved \cup {None}]
  BY PersistType DEF Init
<1>3. TypeOK
  BY <1>1, <1>2 DEF Init, TypeOK, Processes, NoProc
<1> QED
  BY <1>1, <1>3 DEF ThreadOK

\* Type correctness: in every behaviour, for any number of sessions, requests and
\* process handles, the variables keep their types, and a thread that comes out
\* of stopLocked finds the session it went in for (deleted or not).
THEOREM TypeCorrect == Spec => [](TypeOK /\ ThreadOK)
<1>1. TypeOK /\ ThreadOK /\ [Next]_vars => TypeOK' /\ ThreadOK'
  BY TypeStep, ThreadStep
<1> QED
  BY TypeInit, <1>1, PTL DEF Spec

---------------------------------------------------------------------------
(* sessions.json follows memory.                                            *)

\* the records as sessions.json would hold them
Same(r, s) == /\ s.st = r.st /\ s.enabled = r.enabled /\ s.limited = r.limited
              /\ s.room = r.room /\ s.key = r.key

\* a step that saves, or one that changes nothing a save would show
SaveEffect ==
  \/ disk' = Persist(sess')
  \/ /\ disk' = disk
     /\ \A id \in Ids : Same(sess[id], sess'[id])
     /\ thr[Monitor].op = "limit" => thr'[Monitor].op = "limit"

\* Both kinds of step keep SavedState.
LEMMA SaveEffectOK == ASSUME SavedState, SaveEffect PROVE SavedState'
<1>1. CASE disk' = Persist(sess')
  BY <1>1 DEF SavedState
<1>2. CASE /\ disk' = disk
           /\ \A id \in Ids : Same(sess[id], sess'[id])
           /\ thr[Monitor].op = "limit" => thr'[Monitor].op = "limit"
  <2>1. \A id \in Ids : Persist(sess')[id] = Persist(sess)[id] /\ sess'[id].st = sess[id].st
    BY <1>2 DEF Persist, Same
  <2>2. \A id \in Ids : \/ disk'[id] = Persist(sess')[id]
                        \/ /\ thr'[Monitor].op = "limit" /\ sess'[id].st = "live" /\ disk'[id] # None
                           /\ Persist(sess')[id] = [enabled |-> disk'[id].enabled, limited |-> TRUE,
                                                    room |-> disk'[id].room, key |-> disk'[id].key]
    BY <1>2, <2>1 DEF SavedState
  <2> QED
    BY <2>2 DEF SavedState
<1> QED
  BY <1>1, <1>2 DEF SaveEffect

\* A changed traffic count is not part of the saved record of this model.
LEMMA OverSame ==
  ASSUME NEW ss \in [Ids -> Sessions], NEW x \in Ids, NEW over
  PROVE  \A id \in Ids : Same(ss[id], [ss EXCEPT ![x].over = over][id])
BY DEF Same, Sessions

\* stopLocked changes nothing that a save would show.
LEMMA StopLockedSaves ==
  ASSUME TypeOK, NEW t \in Threads, t # Monitor \/ thr[t].op = "idle", NEW op, NEW id \in Ids, NEW room,
         NEW todo, NEW ss \in [Ids -> Sessions], \A x \in Ids : Same(sess[x], ss[x]),
         disk' = disk, StopLocked(t, op, id, room, todo, ss)
  PROVE  SaveEffect
<1>0. Monitor \in Threads
  BY DEF Threads
<1>1. PICK over : sess' = [ss EXCEPT ![id].over = over]
  BY DEF StopLocked
<1>2. \A x \in Ids : Same(ss[x], sess'[x])
  BY <1>1, OverSame
<1>3. \A x \in Ids : Same(sess[x], sess'[x])
  BY <1>2 DEF Same
<1>4. thr[Monitor].op = "limit" => thr'[Monitor].op = "limit"
  BY <1>0 DEF StopLocked, TypeOK
<1> QED
  BY <1>3, <1>4 DEF SaveEffect

\* the monitor's range: the session it has marked Limited is saved at the end
LEMMA MonitorStopSaves ==
  ASSUME TypeOK, SavedState, NEW todo \in SUBSET Ids, NEW ss \in [Ids -> Sessions],
         \/ \A x \in Ids : Same(sess[x], ss[x])
         \/ /\ thr[Monitor].op = "limit"
            /\ \E x \in Ids : ss = [sess EXCEPT ![x].limited = TRUE],
         disk' = disk, MonitorStop(todo, ss)
  PROVE  SavedState'
<1>1. PICK id \in todo, passed \in SUBSET todo :
        StopLocked(Monitor, "limit", id, None, todo \ (passed \cup {id}), [ss EXCEPT ![id].over = TRUE])
  BY DEF MonitorStop
<1>2. PICK over : sess' = [[ss EXCEPT ![id].over = TRUE] EXCEPT ![id].over = over]
  BY <1>1 DEF StopLocked
<1>3. [ss EXCEPT ![id].over = TRUE] \in [Ids -> Sessions]
  <2>1. [ss[id] EXCEPT !.over = TRUE] \in Sessions
    BY FlagTypes
  <2> QED
    BY <2>1
<1>4. \A x \in Ids : Same(ss[x], sess'[x])
  <2>1. \A x \in Ids : Same(ss[x], [ss EXCEPT ![id].over = TRUE][x])
    BY OverSame
  <2>2. \A x \in Ids : Same([ss EXCEPT ![id].over = TRUE][x], sess'[x])
    BY <1>2, <1>3, OverSame
  <2> QED
    BY <2>1, <2>2 DEF Same
<1>5. thr'[Monitor].op = "limit"
  BY <1>1 DEF StopLocked, TypeOK, Threads
<1>6. CASE \A x \in Ids : Same(sess[x], ss[x])
  <2>1. \A x \in Ids : Same(sess[x], sess'[x])
    BY <1>4, <1>6 DEF Same
  <2> QED
    BY <1>5, <2>1, SaveEffectOK DEF SaveEffect
<1>7. CASE thr[Monitor].op = "limit" /\ \E x \in Ids : ss = [sess EXCEPT ![x].limited = TRUE]
  <2>1. PICK x \in Ids : ss = [sess EXCEPT ![x].limited = TRUE]
    BY <1>7
  <2> SUFFICES ASSUME NEW y \in Ids
               PROVE \/ disk'[y] = Persist(sess')[y]
                     \/ /\ thr'[Monitor].op = "limit" /\ sess'[y].st = "live" /\ disk'[y] # None
                        /\ Persist(sess')[y] = [enabled |-> disk'[y].enabled, limited |-> TRUE,
                                                room |-> disk'[y].room, key |-> disk'[y].key]
    BY DEF SavedState
  <2>0. sess \in [Ids -> Sessions] /\ sess[y] \in Sessions
    BY DEF TypeOK
  <2>2. sess'[y].st = sess[y].st
    <3>1. ss[y].st = sess[y].st
      BY <2>0, <2>1 DEF Sessions
    <3> QED
      BY <1>4, <3>1 DEF Same
  <2>3. CASE y # x
    <3>1. Persist(sess')[y] = Persist(sess)[y]
      BY <1>4, <2>1, <2>3 DEF Persist, Same, TypeOK
    <3> QED
      BY <1>5, <2>2, <3>1 DEF SavedState
  <2>4. CASE y = x /\ sess[y].st = "live"
    <3>1. Persist(sess)[y] = [enabled |-> sess[y].enabled, limited |-> sess[y].limited,
                              room |-> sess[y].room, key |-> sess[y].key]
      BY <2>4 DEF Persist
    <3>2. Persist(sess')[y] = [enabled |-> sess[y].enabled, limited |-> TRUE,
                               room |-> sess[y].room, key |-> sess[y].key]
      <4>1. /\ ss[y].enabled = sess[y].enabled /\ ss[y].limited = TRUE
            /\ ss[y].room = sess[y].room /\ ss[y].key = sess[y].key
        BY <2>0, <2>1, <2>4 DEF Sessions
      <4>2. /\ sess'[y].enabled = sess[y].enabled /\ sess'[y].limited = TRUE
            /\ sess'[y].room = sess[y].room /\ sess'[y].key = sess[y].key
        BY <1>4, <4>1 DEF Same
      <4> QED
        BY <2>2, <2>4, <4>2 DEF Persist
    <3>3. /\ disk[y] # None
          /\ disk[y].enabled = sess[y].enabled /\ disk[y].room = sess[y].room /\ disk[y].key = sess[y].key
      <4>1. CASE disk[y] = Persist(sess)[y]
        <5>1. Persist(sess)[y] \in Saved
          BY <2>0, <3>1 DEF Saved, Sessions
        <5> QED
          BY <3>1, <4>1, <5>1, NoneAssumption
      <4>2. CASE /\ disk[y] # None
                 /\ Persist(sess)[y] = [enabled |-> disk[y].enabled, limited |-> TRUE,
                                        room |-> disk[y].room, key |-> disk[y].key]
        BY <3>1, <4>2
      <4> QED
        BY <4>1, <4>2 DEF SavedState
    <3> QED
      BY <1>5, <2>2, <2>4, <3>2, <3>3
  <2>5. CASE y = x /\ sess[y].st # "live"
    BY <2>2, <2>5 DEF SavedState, Persist
  <2> QED
    BY <2>3, <2>4, <2>5
<1> QED
  BY <1>6, <1>7

\* Create, Update, Rekey and ResetTraffic save what they changed.
LEMMA StartAndSaveSaves ==
  ASSUME NEW id, NEW s, NEW want, StartAndSave(id, s, want)
  PROVE  SaveEffect
BY DEF StartAndSave, Commit, SaveEffect

\* StopAll changes nothing, or saves at its end.
LEMMA StopNextSaves ==
  ASSUME TypeOK, NEW todo \in SUBSET Ids, StopNext(todo)
  PROVE  SaveEffect
<1> DEFINE rest == {id \in todo : sess[id].st = "live" /\ rt[id] # None}
<1>0. Main \in Threads /\ Main # Monitor /\ sess \in [Ids -> Sessions] /\ \A x \in Ids : Same(sess[x], sess[x])
  BY ThreadAssumption DEF Threads, TypeOK, Same
<1>1. CASE \E id \in rest : \E passed \in SUBSET (todo \ rest) :
             StopLocked(Main, "stopall", id, None, todo \ (passed \cup {id}), sess) /\ disk' = disk
  BY <1>0, <1>1, StopLockedSaves
<1>2. CASE Commit(sess)
  BY <1>2 DEF Commit, SaveEffect
<1> QED
  BY <1>1, <1>2 DEF StopNext

\* Every step keeps SavedState.
LEMMA SavedStep ==
  ASSUME TypeOK, ThreadOK, SavedState, [Next]_vars
  PROVE  SavedState'
<1>0. /\ Monitor \in Threads /\ Clients \subseteq Threads /\ Monitor \notin Clients
      /\ sess \in [Ids -> Sessions] /\ \A x \in Ids : Same(sess[x], sess[x])
  BY ThreadAssumption DEF Threads, TypeOK, Same
<1>1. ASSUME NEW id \in Ids, Create(id) PROVE SaveEffect
  BY <1>1, StartAndSaveSaves DEF Create
<1>2. ASSUME NEW t \in Clients, NEW id \in Ids, NEW op, NEW room, disk' = disk,
             StopLocked(t, op, id, room, {}, sess)
      PROVE  SaveEffect
  BY <1>0, <1>2, StopLockedSaves
<1>3. ASSUME NEW t \in Clients, NEW id \in Ids, Update(t, id) PROVE SaveEffect
  BY <1>2, <1>3, StartAndSaveSaves DEF Update, ApplyUpdate
<1>4. ASSUME NEW t \in Clients, UpdateResume(t) PROVE SaveEffect
  BY <1>4, StartAndSaveSaves DEF UpdateResume, ApplyUpdate
<1>5. ASSUME NEW t \in Clients, NEW id \in Ids, Rekey(t, id) PROVE SaveEffect
  BY <1>2, <1>5, StartAndSaveSaves DEF Rekey, ApplyRekey
<1>6. ASSUME NEW t \in Clients, RekeyResume(t) PROVE SaveEffect
  BY <1>6, StartAndSaveSaves DEF RekeyResume, ApplyRekey
<1>7. ASSUME NEW t \in Clients, NEW id \in Ids, ToggleOff(t, id) PROVE SaveEffect
  BY <1>2, <1>7 DEF ToggleOff
<1>8. ASSUME NEW t \in Clients, ToggleResume(t) PROVE SaveEffect
  BY <1>8 DEF ToggleResume, Commit, SaveEffect
<1>9. ASSUME NEW id \in Ids, ToggleOn(id) PROVE SaveEffect
  BY <1>9 DEF ToggleOn, Commit, SaveEffect
<1>10. ASSUME NEW id \in Ids, ResetTraffic(id) PROVE SaveEffect
  BY <1>10, StartAndSaveSaves DEF ResetTraffic
<1>11. ASSUME NEW t \in Clients, NEW id \in Ids, Delete(t, id) PROVE SaveEffect
  BY <1>2, <1>11 DEF Delete, RemoveSession, Commit, SaveEffect
<1>12. ASSUME NEW t \in Clients, DeleteResume(t) PROVE SaveEffect
  BY <1>12 DEF DeleteResume, RemoveSession, Commit, SaveEffect
<1>13. ASSUME NEW x \in Ids, NEW over, sess' = [sess EXCEPT ![x].over = over], disk' = disk, thr' = thr
       PROVE  SaveEffect
  BY <1>0, <1>13, OverSame DEF SaveEffect
<1>14. ASSUME NEW id \in Ids, ReadTraffic(id) PROVE SaveEffect
  <2>1. PICK over : sess' = [sess EXCEPT ![id].over = over]
    BY <1>14 DEF ReadTraffic
  <2> QED
    BY <1>13, <1>14, <2>1 DEF ReadTraffic
<1>15. ASSUME sess' = sess, disk' = disk, thr'[Monitor].op = thr[Monitor].op PROVE SaveEffect
  BY <1>0, <1>15 DEF SaveEffect
<1>16. ASSUME NEW id \in Ids, BackoffElapses(id) PROVE SaveEffect
  BY <1>15, <1>16 DEF BackoffElapses
<1>17. CASE SupervisorTick
  <2>1. sess' = sess /\ thr' = thr /\ (disk' = disk \/ disk' = Persist(sess))
    BY <1>17 DEF SupervisorTick
  <2> QED
    BY <1>15, <2>1, SaveEffectOK DEF SaveEffect
<1>18. CASE MonitorTick
  <2>1. Live \in SUBSET Ids
    BY DEF Live
  <2> QED
    BY <1>0, <1>18, <2>1, MonitorStopSaves DEF MonitorTick
<1>19. CASE MonitorResume
  <2> DEFINE id == thr[Monitor].id
  <2> DEFINE ss == [sess EXCEPT ![id].limited = TRUE]
  <2>1. thr[Monitor].op = "limit" /\ id \in Ids
    BY <1>0, <1>19 DEF MonitorResume, Woken, ThreadOK
  <2>2. ss \in [Ids -> Sessions]
    BY <1>0 DEF Sessions
  <2>3. thr[Monitor].todo \in SUBSET Ids
    BY <1>0 DEF TypeOK, Works
  <2>4. CASE MonitorStop(thr[Monitor].todo, ss) /\ disk' = disk
    <3>1. \E x \in Ids : ss = [sess EXCEPT ![x].limited = TRUE]
      BY <2>1
    <3> QED
      BY <2>1, <2>2, <2>3, <2>4, <3>1, MonitorStopSaves
  <2>5. CASE Commit(ss)
    BY <2>5, SaveEffectOK DEF Commit, SaveEffect
  <2> QED
    BY <1>19, <2>4, <2>5 DEF MonitorResume
<1>20. ASSUME NEW t \in Threads, StopTimeout(t) PROVE SaveEffect
  BY <1>15, <1>20 DEF StopTimeout
<1>21. ASSUME NEW p \in Procs, Exit(p) PROVE SaveEffect
  BY <1>15, <1>21 DEF Exit
<1>22. ASSUME NEW p \in Procs, ExitLocked(p) PROVE SaveEffect
  <2>1. p[1] \in Ids /\ thr' = thr /\ disk' = disk
    BY <1>22 DEF ExitLocked, Procs
  <2>2. sess' = sess \/ \E over : sess' = [sess EXCEPT ![p[1]].over = over]
    BY <1>22 DEF ExitLocked
  <2> QED
    BY <1>13, <1>15, <2>1, <2>2
<1>23. ASSUME NEW p \in Procs, ExitCleanup(p) PROVE SaveEffect
  <2>1. thr'[Monitor].op = thr[Monitor].op
    BY <1>0, <1>23 DEF ExitCleanup, TypeOK, Works
  <2> QED
    BY <1>15, <1>23, <2>1 DEF ExitCleanup
<1>24. CASE Restore
  BY <1>24, SaveEffectOK DEF Restore, Commit, SaveEffect
<1>25. CASE StopAll
  <2>1. Live \in SUBSET Ids
    BY DEF Live
  <2> QED
    BY <1>25, <2>1, StopNextSaves, SaveEffectOK DEF StopAll
<1>26. CASE StopAllResume
  <2>1. Main \in Threads
    BY DEF Threads
  <2>2. thr[Main].todo \in SUBSET Ids
    BY <2>1 DEF TypeOK, Works
  <2> QED
    BY <1>26, <2>2, StopNextSaves, SaveEffectOK DEF StopAllResume
<1>27. CASE Listen \/ Cancel \/ SupervisorReturns \/ MonitorReturns \/ Shutdown \/ Terminated \/ UNCHANGED vars
  BY <1>15, <1>27, SaveEffectOK DEF Listen, Cancel, SupervisorReturns, MonitorReturns, Shutdown, Terminated, vars
<1> QED
  BY <1>1, <1>3, <1>4, <1>5, <1>6, <1>7, <1>8, <1>9, <1>10, <1>11, <1>12, <1>14, <1>16, <1>17, <1>18,
     <1>19, <1>20, <1>21, <1>22, <1>23, <1>24, <1>25, <1>26, <1>27, SaveEffectOK
     DEF Next, ClientNext, SessionNext, ProcNext, MainNext

\* memory is read from sessions.json when fzp starts.
LEMMA SavedInit == Init => SavedState
BY DEF Init, SavedState

\* Whatever overlaps, sessions.json holds what memory holds, up to the Limited
\* flag of a monitor tick that has not saved yet.
THEOREM SavedCorrect == Spec => []SavedState
<1>1. Init => TypeOK /\ ThreadOK /\ SavedState
  BY TypeInit, SavedInit
<1>2. TypeOK /\ ThreadOK /\ SavedState /\ [Next]_vars => TypeOK' /\ ThreadOK' /\ SavedState'
  BY TypeStep, ThreadStep, SavedStep
<1> QED
  BY <1>1, <1>2, PTL DEF Spec
===========================================================================
