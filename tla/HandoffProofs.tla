--------------------------- MODULE HandoffProofs ---------------------------
(***************************************************************************)
(* What holds of Handoff for any number of instances, whatever core each of  *)
(* them embeds as long as releases only get newer, and with any write that   *)
(* fails: types, tunnels that end with their instance, the core the newest   *)
(* instance runs, and sessions.json.                                        *)
(***************************************************************************)
EXTENDS Handoff, TLAPS

USE DEF Instances, Goto, saving, extracted, procs

\* The versions that instances embed, and the values that stand for nothing.
LEMMA CoreTypes ==
  /\ \A i \in Instances : CoreOf[i] \in Versions /\ CoreOf[i] \in Nat \ {0}
  /\ NoImage \in Image
  /\ NoProc \in [st: {"none", "up", "dead"}, sig: BOOLEAN, img: Image]
BY InstanceAssumption, UpgradeAssumption DEF Versions, NoImage, NoProc, Image

\* An instance that ends, and a core process that is started, keep the types.
LEMMA DiesType ==
  ASSUME TypeOK, NEW i \in Instances, Dies(i), mishaps' \subseteq Mishaps
  PROVE  TypeOK'
BY CoreTypes DEF TypeOK, Dies, Steps

\* What startLocked does keeps them too,
LEMMA StartType ==
  ASSUME TypeOK, NEW i \in Instances, Start(i)
  PROVE  /\ proc' \in [Instances -> [st: {"none", "up", "dead"}, sig: BOOLEAN, img: Image]]
         /\ pidfile' \in Instances
BY DEF TypeOK, Start

\* and so does a signal.
LEMMA SignalledType ==
  ASSUME TypeOK, NEW j \in Instances
  PROVE  Signalled(j) \in [Instances -> [st: {"none", "up", "dead"}, sig: BOOLEAN, img: Image]]
BY DEF TypeOK, Signalled

\* A signal changes nothing else of a core process.
LEMMA Signals ==
  ASSUME TypeOK, NEW j \in Instances, proc' = Signalled(j), NEW k \in Instances
  PROVE  proc'[k].st = proc[k].st /\ proc'[k].img = proc[k].img /\ (proc[k].sig => proc'[k].sig)
<1>1. CASE k # j BY <1>1 DEF TypeOK, Signalled
<1>2. CASE k = j
  <2>1. proc'[j] = [proc[j] EXCEPT !.sig = TRUE] BY DEF TypeOK, Signalled
  <2>2. proc[j] \in [st: {"none", "up", "dead"}, sig: BOOLEAN, img: Image] BY DEF TypeOK
  <2> QED BY <1>2, <2>1, <2>2
<1> QED BY <1>1, <1>2

\* The first instance starts well-typed.
LEMMA TypeInit == Init => TypeOK
<1> SUFFICES ASSUME Init PROVE TypeOK
  OBVIOUS
<1>1. CoreOf[1] \in Versions /\ CoreOf[1] \in Nat \ {0} /\ 1..CoreOf[1] \subseteq Versions
  BY InstanceAssumption, UpgradeAssumption DEF Versions
<1>2. sum \in {0} \cup Versions
  BY <1>1 DEF Init, Leftover
<1>3. img \in Image
  <2>1. ASSUME sum # 0, img = [core |-> sum, whole |-> TRUE] PROVE img \in Image
    BY <2>1, <1>2 DEF Image
  <2>2. ASSUME img \in [core: (sum + 1)..CoreOf[1], whole: BOOLEAN] PROVE img \in Image
    <3>1. (sum + 1)..CoreOf[1] \subseteq 1..CoreOf[1] BY <1>1, <1>2 DEF Versions
    <3> QED BY <2>2, <3>1, <1>1 DEF Image
  <2> QED BY <2>1, <2>2, CoreTypes DEF Init, Leftover
<1> QED
  BY <1>2, <1>3, CoreTypes DEF Init, TypeOK, Steps, Booting, Records, Mishaps

\* Every step keeps the types.
LEMMA TypeStep == TypeOK /\ [Next]_vars => TypeOK'
<1> SUFFICES ASSUME TypeOK, [Next]_vars PROVE TypeOK'
  OBVIOUS
<1> USE DEF Steps, Booting, Leaving, Mishaps
<1>1. ASSUME NEW i \in Instances, Check(i) PROVE TypeOK'
  <2>1. [core |-> CoreOf[i], whole |-> FALSE] \in Image BY CoreTypes DEF Image
  <2> QED BY <1>1, <2>1 DEF Check, TypeOK
<1>2. ASSUME NEW i \in Instances, Write(i) PROVE TypeOK'
  <2>1. [img EXCEPT !.whole = TRUE] \in Image BY DEF TypeOK, Image
  <2> QED BY <1>2, <2>1 DEF Write, TypeOK
<1>3. ASSUME NEW i \in Instances, WriteSum(i) PROVE TypeOK'
  <2>1. core' \in [Instances -> BOOLEAN] BY <1>3 DEF WriteSum, TypeOK
  <2>2. sum' \in {0} \cup Versions BY <1>3, CoreTypes DEF WriteSum, TypeOK
  <2> QED BY <1>3, <2>1, <2>2 DEF WriteSum, TypeOK
<1>4. ASSUME NEW i \in Instances, OpenTmp(i) PROVE TypeOK'
  BY <1>4 DEF OpenTmp, Failed, TypeOK
<1>5. ASSUME NEW i \in Instances, WriteTmp(i) PROVE TypeOK'
  <2>1. mem[i] \in Records /\ \A old : Written(i, old) \subseteq Records \cup {"bad"}
    BY DEF TypeOK, Written
  <2>2. disk' \in Records \cup {"empty", "bad"} /\ tmp' \in Records \cup {"none", "empty", "bad"}
    BY <1>5, <2>1 DEF WriteTmp, TypeOK
  <2> QED BY <1>5, <2>2 DEF WriteTmp, Failed, TypeOK
<1>6. ASSUME NEW i \in Instances, RenameTmp(i) PROVE TypeOK'
  <2>1. sv' \in [Instances -> {"idle", "open", "tmp", "disk", "gone", "rename"}]
    BY <1>6 DEF RenameTmp, Failed, TypeOK
  <2> QED BY <1>6, <2>1 DEF RenameTmp, Failed, TypeOK
<1>7. ASSUME NEW i \in Instances, Load(i) \/ Restored(i) \/ Listen(i) PROVE TypeOK'
  <2>1. CASE Load(i)
    <3>1. pc' \in [Instances -> Steps]
      BY <2>1 DEF Load, Goto, TypeOK, Steps, Booting
    <3>2. mem' \in [Instances -> Records] BY <2>1 DEF Load, TypeOK
    <3> QED BY <2>1, <3>1, <3>2 DEF Load, TypeOK
  <2>2. CASE Restored(i) BY <2>2 DEF Restored, TypeOK
  <2>3. CASE Listen(i) BY <2>3 DEF Listen, TypeOK
  <2> QED BY <1>7, <2>1, <2>2, <2>3
<1>8. ASSUME NEW i \in Instances, Reclaim(i) PROVE TypeOK'
  <2>1. proc' = proc \/ (pidfile \in Instances /\ proc' = Signalled(pidfile))
    BY <1>8 DEF Reclaim, TypeOK
  <2>2. proc' \in [Instances -> [st: {"none", "up", "dead"}, sig: BOOLEAN, img: Image]]
    BY <2>1, SignalledType DEF TypeOK
  <2> QED BY <1>8, <2>2 DEF Reclaim, TypeOK
<1>9. ASSUME NEW i \in Instances, Restore(i) PROVE TypeOK'
  BY <1>9, StartType DEF Restore, Save, TypeOK, Records
<1>10. ASSUME NEW i \in Instances, GiveUp(i) \/ Leave(i) PROVE TypeOK'
  BY <1>10, DiesType DEF GiveUp, Leave, TypeOK
<1>11. ASSUME NEW i \in Instances, Killed(i) PROVE TypeOK'
  BY <1>11, DiesType DEF Killed, TypeOK
<1>12. ASSUME NEW i \in Instances, Toggle(i) PROVE TypeOK'
  BY <1>12, StartType DEF Toggle, Save, TypeOK, Records
<1>13. ASSUME NEW i \in Instances, Supervisor(i) PROVE TypeOK'
  BY <1>13, StartType DEF Supervisor, Save, TypeOK
<1>14. ASSUME NEW i \in Instances, StartAnother(i) PROVE TypeOK'
  BY <1>14 DEF StartAnother, TypeOK
<1>15. ASSUME NEW i \in Instances, Cancel(i) \/ Shutdown(i) PROVE TypeOK'
  BY <1>15 DEF Cancel, Shutdown, TypeOK
<1>16. ASSUME NEW i \in Instances, StopAll(i) PROVE TypeOK'
  <2>1. proc' \in [Instances -> [st: {"none", "up", "dead"}, sig: BOOLEAN, img: Image]]
    <3>1. proc' = proc \/ proc' = Signalled(i) BY <1>16 DEF StopAll
    <3> QED BY <3>1, SignalledType DEF TypeOK
  <2>2. pc' \in [Instances -> Steps] BY <1>16 DEF StopAll, TypeOK
  <2>3. UNCHANGED <<stopping, core, mem, saving, pidfile, extracted, wish>> BY <1>16 DEF StopAll
  <2> QED BY <2>1, <2>2, <2>3 DEF TypeOK
<1>17. ASSUME NEW i \in Instances, LastSave(i) PROVE TypeOK'
  BY <1>17 DEF LastSave, Save, TypeOK
<1>18. ASSUME NEW i \in Instances, CoreExits(i) PROVE TypeOK'
  BY <1>18, CoreTypes DEF CoreExits, TypeOK
<1>19. ASSUME NEW i \in Instances, ExitGoroutine(i) PROVE TypeOK'
  BY <1>19, CoreTypes DEF ExitGoroutine, TypeOK
<1>20. CASE UNCHANGED vars \/ Done BY <1>20 DEF vars, Done, TypeOK
<1> QED
  BY <1>1, <1>2, <1>3, <1>4, <1>5, <1>6, <1>7, <1>8, <1>9, <1>10, <1>11, <1>12, <1>13, <1>14,
     <1>15, <1>16, <1>17, <1>18, <1>19, <1>20 DEF Next, Boot, Saves, Stops

\* In every behaviour of the instances every variable keeps its type.
THEOREM HandoffTypes == Spec => []TypeOK
<1> QED BY TypeInit, TypeStep, PTL DEF Spec
---------------------------------------------------------------------------
(* The newest instance                                                     *)

\* Instances are started one after the other, and only the newest is still on
\* its way to its panel.
Ordered ==
  \E k \in Instances :
    /\ \A i \in Instances : pc[i] # "off" <=> i <= k
    /\ \A i \in 1..(k - 1) : pc[i] \in {"serve", "exited"} \cup Leaving

\* The newest instance, as a value.
LEMMA NewestIs ==
  ASSUME NEW k \in Instances, \A i \in Instances : pc[i] # "off" <=> i <= k
  PROVE  Newest = k /\ Started = 1..k
<1>1. Started = 1..k
  BY InstanceAssumption DEF Started
<1>2. k \in Started /\ \A j \in Started : j <= k
  BY <1>1, InstanceAssumption
<1>3. \A i \in Started : (\A j \in Started : j <= i) => i = k
  BY <1>1, <1>2, InstanceAssumption
<1> QED
  BY <1>1, <1>2, <1>3, Zenon DEF Newest

\* What Ordered says, of the newest instance.
LEMMA NewestFacts ==
  ASSUME Ordered
  PROVE  /\ Newest \in Instances /\ pc[Newest] # "off"
         /\ \A i \in Instances : pc[i] # "off" <=> i <= Newest
         /\ \A i \in Instances : i < Newest => pc[i] \in {"serve", "exited"} \cup Leaving
<1>1. PICK k \in Instances :
        /\ \A i \in Instances : pc[i] # "off" <=> i <= k
        /\ \A i \in 1..(k - 1) : pc[i] \in {"serve", "exited"} \cup Leaving
  BY DEF Ordered
<1>2. Newest = k BY <1>1, NewestIs
<1> QED BY <1>1, <1>2, InstanceAssumption

\* A step starts the next instance, or none; and the others only move on.
New(i) ==
  /\ i = Newest /\ i + 1 \in Instances /\ pc[i] \in {"serve", "exited"}
  /\ pc' = [pc EXCEPT ![i + 1] = "check"]
  /\ UNCHANGED <<core, mem, saving, procs, extracted>>

NoNew ==
  \A j \in Instances :
    /\ pc'[j] # "off" <=> pc[j] # "off"
    /\ pc[j] \in {"serve", "exited"} \cup Leaving => pc'[j] \in {"serve", "exited"} \cup Leaving

\* Every step is of one of the two kinds.
LEMMA Starting == TypeOK /\ [Next]_vars => NoNew \/ \E i \in Instances : New(i)
<1> SUFFICES ASSUME TypeOK, [Next]_vars, ~ \E i \in Instances : New(i) PROVE NoNew
  OBVIOUS
<1> USE DEF Leaving
<1>1. ASSUME NEW i \in Instances, Boot(i) PROVE NoNew
  <2>1. CASE Check(i) BY <2>1 DEF Check, TypeOK, NoNew
  <2>2. CASE Write(i) BY <2>2 DEF Write, TypeOK, NoNew
  <2>3. CASE WriteSum(i) BY <2>3 DEF WriteSum, TypeOK, NoNew
  <2>4. CASE Load(i) BY <2>4 DEF Load, TypeOK, NoNew
  <2>5. CASE Reclaim(i) BY <2>5 DEF Reclaim, TypeOK, NoNew
  <2>6. CASE Restore(i) BY <2>6 DEF Restore, TypeOK, NoNew
  <2>7. CASE Restored(i) BY <2>7 DEF Restored, TypeOK, NoNew
  <2>8. CASE Listen(i) BY <2>8 DEF Listen, TypeOK, NoNew
  <2> QED BY <1>1, <2>1, <2>2, <2>3, <2>4, <2>5, <2>6, <2>7, <2>8 DEF Boot
<1>2. ASSUME NEW i \in Instances, Dies(i), pc[i] # "off" PROVE NoNew
  BY <1>2 DEF Dies, TypeOK, NoNew
<1>3. ASSUME NEW i \in Instances, GiveUp(i) \/ Leave(i) \/ Killed(i) PROVE NoNew
  BY <1>2, <1>3 DEF GiveUp, Leave, Killed, Running
<1>4. ASSUME NEW i \in Instances, Saves(i) \/ Toggle(i) \/ Supervisor(i) \/ Cancel(i) \/ CoreExits(i)
      PROVE  UNCHANGED pc
  BY <1>4 DEF Saves, OpenTmp, WriteTmp, RenameTmp, Toggle, Supervisor, Cancel, CoreExits
<1>5. ASSUME NEW i \in Instances, StartAnother(i) PROVE New(i)
  <2>1. i + 1 \in Instances BY <1>5, InstanceAssumption DEF StartAnother
  <2> QED BY <1>5, <2>1 DEF StartAnother, New
<1>6. ASSUME NEW i \in Instances, Shutdown(i) \/ LastSave(i) PROVE NoNew
  BY <1>6 DEF Shutdown, LastSave, TypeOK, NoNew
<1>7. ASSUME NEW i \in Instances, StopAll(i) PROVE NoNew
  BY <1>7 DEF StopAll, TypeOK, NoNew
<1>8. ASSUME NEW i \in Instances, ExitGoroutine(i) PROVE NoNew
  BY <1>8 DEF ExitGoroutine, TypeOK, NoNew
<1>9. ASSUME UNCHANGED pc PROVE NoNew
  BY <1>9 DEF NoNew
<1>10. CASE UNCHANGED vars \/ Done BY <1>9, <1>10 DEF vars, Done
<1> QED
  BY <1>1, <1>3, <1>4, <1>5, <1>6, <1>7, <1>8, <1>9, <1>10 DEF Next, Stops

\* Every step keeps the order, and says which instance is the newest after it.
LEMMA OrderedStep ==
  ASSUME TypeOK, Ordered, [Next]_vars
  PROVE  /\ Ordered'
         /\ \/ NoNew /\ Newest' = Newest
            \/ New(Newest) /\ Newest' = Newest + 1 /\ Newest + 1 \in Instances /\ pc[Newest + 1] = "off"
<1> DEFINE n == Newest
<1> HIDE DEF n
<1>n. /\ n = Newest /\ n \in Instances
      /\ \A i \in Instances : pc[i] # "off" <=> i <= n
      /\ \A i \in Instances : i < n => pc[i] \in {"serve", "exited"} \cup Leaving
  BY NewestFacts DEF n
<1>1. CASE NoNew
  <2>1. \A i \in Instances : pc'[i] # "off" <=> i <= n BY <1>n, <1>1 DEF NoNew
  <2>2. \A i \in 1..(n - 1) : pc'[i] \in {"serve", "exited"} \cup Leaving
    BY <1>n, <1>1, InstanceAssumption DEF NoNew
  <2>3. Ordered' BY <2>1, <2>2, <1>n DEF Ordered
  <2>4. Newest' = n
    <3>1. Started' = Started BY <1>1 DEF NoNew, Started
    <3> QED BY <3>1, <1>n DEF Newest
  <2> QED BY <1>1, <1>n, <2>3, <2>4
<1>2. ASSUME NEW i \in Instances, New(i) PROVE
        /\ Ordered'
        /\ New(Newest) /\ Newest' = Newest + 1 /\ Newest + 1 \in Instances /\ pc[Newest + 1] = "off"
  <2>1. i = n /\ n + 1 \in Instances BY <1>2, <1>n DEF New
  <2>2. \A j \in Instances : pc'[j] # "off" <=> j <= n + 1
    BY <1>2, <1>n, <2>1, InstanceAssumption DEF New, TypeOK
  <2>3. \A j \in 1..((n + 1) - 1) : pc'[j] \in {"serve", "exited"} \cup Leaving
    BY <1>2, <1>n, <2>1, InstanceAssumption DEF New, TypeOK
  <2>4. Ordered' BY <2>1, <2>2, <2>3 DEF Ordered
  <2>5. Started' = 1..(n + 1) BY <2>2, <2>1, InstanceAssumption DEF Started
  <2>6. n + 1 \in Started' /\ \A j \in Started' : j <= n + 1 BY <2>1, <2>5, InstanceAssumption
  <2>7. \A k \in Started' : (\A j \in Started' : j <= k) => k = n + 1
    BY <2>1, <2>5, <2>6, InstanceAssumption
  <2>8. Newest' = n + 1 BY <2>6, <2>7, Zenon DEF Newest
  <2>9. pc[n + 1] = "off" BY <1>n, <2>1, InstanceAssumption
  <2> QED BY <1>2, <1>n, <2>1, <2>4, <2>8, <2>9
<1> QED BY <1>1, <1>2, Starting

\* There is one instance at first.
LEMMA OrderedInit == Init => Ordered
<1> SUFFICES ASSUME Init PROVE Ordered
  OBVIOUS
<1>1. 1 \in Instances /\ \A i \in Instances : pc[i] # "off" <=> i <= 1
  BY InstanceAssumption DEF Init
<1> QED BY <1>1 DEF Ordered

---------------------------------------------------------------------------
(* Tunnels                                                                 *)

\* An instance has no core process before it has restored its sessions, and one
\* that ended collects none; the process it had is told to end.
Tended ==
  \A i \in Instances :
    /\ pc[i] \in {"off"} \cup (Booting \ {"listen"}) => proc[i].st = "none"
    /\ pc[i] = "exited" => proc[i].st # "dead" /\ (proc[i].st = "up" => proc[i].sig)

\* An instance that ends leaves its process told to end.
LEMMA DiesTended ==
  ASSUME TypeOK, Tended, NEW i \in Instances, Dies(i) PROVE Tended'
BY DEF TypeOK, Tended, Dies, NoProc, Booting

\* An instance that goes on, signals a process or not, keeps Tended, if it has
\* no process when it ends.
LEMMA MoveTended ==
  ASSUME TypeOK, Tended, NEW i \in Instances, NEW step, Goto(i, step),
         \A j \in Instances : proc'[j].st = proc[j].st /\ (proc[j].sig => proc'[j].sig),
         step \in {"off", "exited"} \cup (Booting \ {"listen"}) => proc[i].st = "none"
  PROVE  Tended'
<1>1. pc' = [pc EXCEPT ![i] = step] /\ pc \in [Instances -> Steps] BY DEF Goto, TypeOK
<1>2. pc'[i] = step /\ \A j \in Instances \ {i} : pc'[j] = pc[j] BY <1>1
<1> QED BY <1>2 DEF Tended, Booting

\* Every step keeps Tended.
LEMMA TendedStep == TypeOK /\ Ordered /\ Tended /\ [Next]_vars => Tended'
<1> SUFFICES ASSUME TypeOK, Ordered, Tended, [Next]_vars PROVE Tended'
  OBVIOUS
<1> USE DEF Booting, Leaving
<1>1. ASSUME NEW i \in Instances,
             Check(i) \/ Write(i) \/ WriteSum(i) \/ Load(i) \/ Restored(i) \/ Listen(i)
      PROVE  Tended'
  <2>1. UNCHANGED proc BY <1>1 DEF Check, Write, WriteSum, Load, Restored, Listen, procs, saving
  <2>2. CASE Listen(i) BY <2>1, <2>2, MoveTended DEF Listen
  <2>3. CASE ~ Listen(i)
    <3>1. pc[i] \in {"check", "write", "sum", "load", "keep"}
      BY <1>1, <2>3 DEF Check, Write, WriteSum, Load, Restored
    <3>2. \E step : Goto(i, step)
      BY <1>1, <2>3 DEF Check, Write, WriteSum, Load, Restored
    <3> QED BY <2>1, <3>1, <3>2, MoveTended DEF Tended
  <2> QED BY <2>2, <2>3
<1>2. ASSUME NEW i \in Instances, Reclaim(i) PROVE Tended'
  <2>1. proc' = proc \/ (pidfile \in Instances /\ proc' = Signalled(pidfile))
    BY <1>2 DEF Reclaim, TypeOK
  <2>2. \A j \in Instances : proc'[j].st = proc[j].st /\ (proc[j].sig => proc'[j].sig)
    BY <2>1, Signals
  <2> QED BY <1>2, <2>2, MoveTended DEF Reclaim, Tended
<1>3. ASSUME NEW i \in Instances, Restore(i) PROVE Tended'
  <2>1. CASE Start(i) /\ Goto(i, "listen")
    <3>1. pc'[i] = "listen" /\ \A j \in Instances \ {i} : pc'[j] = pc[j]
      BY <2>1 DEF Goto, TypeOK
    <3>2. \A j \in Instances \ {i} : proc'[j] = proc[j]
      BY <2>1 DEF Start, TypeOK
    <3> QED BY <3>1, <3>2 DEF Tended
  <2>2. CASE UNCHANGED proc /\ (Goto(i, "keep") \/ Goto(i, "listen"))
    <3>1. proc[i].st = "none" BY <1>3 DEF Restore, Tended
    <3> QED BY <2>2, <3>1, MoveTended
  <2> QED BY <1>3, <2>1, <2>2 DEF Restore, procs
<1>4. ASSUME NEW i \in Instances, GiveUp(i) \/ Leave(i) \/ Killed(i) PROVE Tended'
  BY <1>4, DiesTended DEF GiveUp, Leave, Killed
<1>5. ASSUME NEW i \in Instances, Saves(i) \/ Cancel(i) PROVE Tended'
  BY <1>5 DEF Saves, OpenTmp, WriteTmp, RenameTmp, Cancel, Tended
<1>6. ASSUME NEW i \in Instances, Toggle(i) \/ Supervisor(i) PROVE Tended'
  <2>1. UNCHANGED pc /\ (Start(i) \/ UNCHANGED proc)
    BY <1>6 DEF Toggle, Supervisor, procs
  <2>2. \A j \in Instances \ {i} : proc'[j] = proc[j] BY <2>1 DEF Start, TypeOK
  <2>3. pc[i] \in {"listen", "serve"} \cup Leaving BY <1>6 DEF Toggle, Supervisor
  <2>4. CASE Start(i) BY <2>1, <2>2, <2>3, <2>4 DEF Tended
  <2>5. CASE UNCHANGED proc BY <2>1, <2>5 DEF Tended
  <2> QED BY <2>1, <2>4, <2>5
<1>8. ASSUME NEW i \in Instances, Shutdown(i) \/ LastSave(i) PROVE Tended'
  <2>1. UNCHANGED proc /\ (Goto(i, "drain") \/ Goto(i, "leave"))
    BY <1>8 DEF Shutdown, LastSave, procs
  <2> QED BY <2>1, MoveTended
<1>9. ASSUME NEW i \in Instances, StopAll(i) PROVE Tended'
  <2>1. \A j \in Instances : proc'[j].st = proc[j].st /\ (proc[j].sig => proc'[j].sig)
    BY <1>9, Signals DEF StopAll
  <2>2. Goto(i, "save") \/ Goto(i, "stop") BY <1>9 DEF StopAll
  <2> QED BY <2>1, <2>2, MoveTended
<1>10. ASSUME NEW i \in Instances, CoreExits(i) PROVE Tended'
  <2>1. UNCHANGED pc /\ \A j \in Instances \ {i} : proc'[j] = proc[j]
    BY <1>10 DEF CoreExits, TypeOK
  <2>2. proc[i].st = "up" /\ proc'[i] = IF Running(i) THEN [proc[i] EXCEPT !.st = "dead"] ELSE NoProc
    BY <1>10 DEF CoreExits, TypeOK
  <2>3. pc[i] \notin {"off"} \cup (Booting \ {"listen"}) BY <2>2 DEF Tended
  <2>4. pc[i] = "exited" => proc'[i].st = "none" BY <2>2 DEF Running, NoProc
  <2> QED BY <2>1, <2>3, <2>4 DEF Tended
<1>11. ASSUME NEW i \in Instances, ExitGoroutine(i) PROVE Tended'
  BY <1>11 DEF ExitGoroutine, NoProc, TypeOK, Tended
<1>7. CASE UNCHANGED vars \/ Done BY <1>7 DEF vars, Done, Tended
<1>12. ASSUME NEW i \in Instances, StartAnother(i) PROVE Tended'
  <2>1. pc' = [pc EXCEPT ![i + 1] = "check"] /\ i = Newest /\ i + 1 \in Instances /\ UNCHANGED proc
    BY <1>12, InstanceAssumption DEF StartAnother
  <2>2. pc[i + 1] = "off" BY <2>1, NewestFacts, InstanceAssumption
  <2> QED BY <2>1, <2>2 DEF TypeOK, Tended
<1> QED
  BY <1>1, <1>2, <1>3, <1>4, <1>5, <1>6, <1>7, <1>8, <1>9, <1>10, <1>11, <1>12
     DEF Next, Boot, Stops

\* However an instance ends, stopped, killed, or because it did not get the port,
\* the core process it had is told to end: no tunnel outlives its instance.
THEOREM TunnelsEnd == Spec => []NoOrphan
<1>1. Init => TypeOK /\ Ordered /\ Tended
  BY TypeInit, OrderedInit DEF Init, Tended, NoProc
<1>2. TypeOK /\ Ordered /\ Tended /\ [Next]_vars => TypeOK' /\ Ordered' /\ Tended'
  BY TypeStep, OrderedStep, TendedStep
<1>3. Tended => NoOrphan BY DEF Tended, NoOrphan
<1> QED BY <1>1, <1>2, <1>3, PTL DEF Spec

---------------------------------------------------------------------------
(* The extracted core                                                      *)

\* The .sha256 names a core that is whole, or an older one than the file holds;
\* it names the newest instance's own when that has set m.corePath.
CoreFiles ==
  /\ \A i \in Instances : pc[i] \in {"off", "check", "write", "sum"} => ~ core[i]
  /\ Leftover(CoreOf[Newest])
  /\ pc[Newest] \in {"write", "sum"} => sum < CoreOf[Newest] /\ img.core = CoreOf[Newest]
  /\ pc[Newest] = "sum" => img.whole
  /\ core[Newest] => sum = CoreOf[Newest]

\* The file that m.corePath of the newest instance names.
LEMMA CoreImage ==
  ASSUME Ordered, CoreFiles, core[Newest]
  PROVE  img = [core |-> CoreOf[Newest], whole |-> TRUE]
<1>1. CoreOf[Newest] \in Nat \ {0} BY NewestFacts, CoreTypes
<1>2. sum = CoreOf[Newest] BY DEF CoreFiles
<1> QED BY <1>1, <1>2 DEF CoreFiles, Leftover

\* A step that writes no core, and one that starts none but from the file.
Calm ==
  /\ UNCHANGED <<core, img, sum>>
  /\ \A i \in Instances : pc'[i] \in {"off", "check", "write", "sum"} => pc'[i] = pc[i]

Kept ==
  \A j \in Instances : proc'[j].st = "up" =>
    \/ proc[j].st = "up" /\ proc'[j].img = proc[j].img
    \/ core[j] /\ proc'[j].img = img

\* Such steps keep the files, and the core that runs.
LEMMA CalmFiles ==
  ASSUME Ordered, CoreFiles, OwnCore, Calm, Kept, Newest' = Newest
  PROVE  CoreFiles' /\ OwnCore'
<1> DEFINE n == Newest
<1> HIDE DEF n
<1>n. n = Newest /\ Newest' = n /\ n \in Instances BY NewestFacts DEF n
<1>1. CoreFiles'
  BY <1>n DEF CoreFiles, Calm, Leftover
<1>2. OwnCore'
  <2>1. core[n] => img = [core |-> CoreOf[n], whole |-> TRUE] BY <1>n, CoreImage
  <2> QED BY <1>n, <2>1 DEF OwnCore, Kept
<1> QED BY <1>1, <1>2

\* The steps that are calm, and keep or start core processes.
LEMMA CalmSteps ==
  ASSUME TypeOK, [Next]_vars, ~ \E i \in Instances : New(i),
         ~ \E i \in Instances : Check(i) \/ Write(i) \/ WriteSum(i)
  PROVE  Calm /\ Kept
<1> USE DEF Leaving
<1>1. ASSUME NEW i \in Instances, Load(i) \/ Restored(i) \/ Listen(i) PROVE Calm /\ Kept
  <2>1. CASE Load(i) BY <2>1 DEF Load, TypeOK, Calm, Kept
  <2>2. CASE Restored(i) BY <2>2 DEF Restored, TypeOK, Calm, Kept
  <2>3. CASE Listen(i) BY <2>3 DEF Listen, TypeOK, Calm, Kept
  <2> QED BY <1>1, <2>1, <2>2, <2>3
<1>2. ASSUME NEW i \in Instances, Reclaim(i) PROVE Calm /\ Kept
  <2>1. proc' = proc \/ (pidfile \in Instances /\ proc' = Signalled(pidfile))
    BY <1>2 DEF Reclaim, TypeOK
  <2>2. \A j \in Instances : proc'[j].st = proc[j].st /\ proc'[j].img = proc[j].img
    BY <2>1, Signals
  <2> QED BY <1>2, <2>2 DEF Reclaim, TypeOK, Calm, Kept
<1>3. ASSUME NEW i \in Instances, Start(i) PROVE Kept
  BY <1>3 DEF Start, CanStart, TypeOK, Kept
<1>4. ASSUME NEW i \in Instances, Restore(i) PROVE Calm /\ Kept
  <2>1. Calm BY <1>4 DEF Restore, TypeOK, Calm
  <2> QED BY <1>3, <1>4, <2>1 DEF Restore, Kept
<1>5. ASSUME NEW i \in Instances, Dies(i) PROVE Calm /\ Kept
  BY <1>5 DEF Dies, NoProc, TypeOK, Calm, Kept
<1>6. ASSUME NEW i \in Instances, Toggle(i) \/ Supervisor(i) PROVE Calm /\ Kept
  BY <1>3, <1>6 DEF Toggle, Supervisor, Calm, Kept
<1>7. ASSUME NEW i \in Instances, Saves(i) \/ Cancel(i) PROVE Calm /\ Kept
  BY <1>7 DEF Saves, OpenTmp, WriteTmp, RenameTmp, Cancel, Calm, Kept
<1>8. ASSUME NEW i \in Instances, StartAnother(i) PROVE FALSE
  <2>1. i + 1 \in Instances BY <1>8, InstanceAssumption DEF StartAnother
  <2> QED BY <1>8, <2>1 DEF StartAnother, New
<1>9. ASSUME NEW i \in Instances, Shutdown(i) \/ LastSave(i) PROVE Calm /\ Kept
  <2>1. CASE Shutdown(i) BY <2>1 DEF Shutdown, TypeOK, Calm, Kept
  <2>2. CASE LastSave(i) BY <2>2 DEF LastSave, TypeOK, Calm, Kept
  <2> QED BY <1>9, <2>1, <2>2
<1>10. ASSUME NEW i \in Instances, StopAll(i) PROVE Calm /\ Kept
  <2>1. \A j \in Instances : proc'[j].st = proc[j].st /\ proc'[j].img = proc[j].img
    BY <1>10, Signals DEF StopAll
  <2> QED BY <1>10, <2>1 DEF StopAll, TypeOK, Calm, Kept
<1>11. ASSUME NEW i \in Instances, CoreExits(i) PROVE Calm /\ Kept
  BY <1>11 DEF CoreExits, NoProc, TypeOK, Calm, Kept
<1>12. ASSUME NEW i \in Instances, ExitGoroutine(i) PROVE Calm /\ Kept
  BY <1>12 DEF ExitGoroutine, NoProc, TypeOK, Calm, Kept
<1>13. CASE UNCHANGED vars \/ Done BY <1>13 DEF vars, Done, Calm, Kept
<1> QED
  BY <1>1, <1>2, <1>4, <1>5, <1>6, <1>7, <1>8, <1>9, <1>10, <1>11, <1>12, <1>13
     DEF Next, Boot, Stops, GiveUp, Leave, Killed

\* Every step does: the others are those of the newest instance's Extract.
LEMMA FilesStep ==
  TypeOK /\ Ordered /\ Tended /\ CoreFiles /\ OwnCore /\ [Next]_vars => CoreFiles' /\ OwnCore'
<1> SUFFICES ASSUME TypeOK, Ordered, Tended, CoreFiles, OwnCore, [Next]_vars PROVE CoreFiles' /\ OwnCore'
  OBVIOUS
<1>k. PICK n \in Instances : n = Newest BY NewestFacts
<1>v. PICK v \in Nat \ {0} : v = CoreOf[n] BY CoreTypes
<1>n. /\ n = Newest /\ n \in Instances /\ v = CoreOf[n] /\ v \in Nat \ {0} /\ sum \in Nat
      /\ \A i \in Instances : pc[i] \in {"check", "write", "sum"} => i = n
  <2>1. \A i \in Instances : i < n \/ i = n \/ i > n BY InstanceAssumption
  <2>2. \A i \in Instances : i > n => ~ (i <= n) BY InstanceAssumption
  <2>3. sum \in Nat BY InstanceAssumption DEF TypeOK, Versions
  <2> QED BY <1>k, <1>v, <2>1, <2>2, <2>3, NewestFacts DEF Leaving
<1>1. ASSUME NEW i \in Instances, New(i) PROVE CoreFiles' /\ OwnCore'
  <2>0. i = n /\ n + 1 \in Instances /\ pc'[n + 1] = "check" BY <1>1, <1>n DEF New, TypeOK
  <2>a. pc[n + 1] = "off" BY <2>0, <1>n, NewestFacts, InstanceAssumption
  <2>1. New(n) /\ Newest' = n + 1 /\ n + 1 \in Instances /\ pc[n + 1] = "off"
    BY <2>0, <2>a, <1>1, <1>n, OrderedStep DEF NoNew
  <2>2. ~ core[n + 1] /\ proc[n + 1].st = "none" BY <2>1 DEF CoreFiles, Tended
  <2>3. \A j \in Instances : pc'[j] \in {"off", "check", "write", "sum"} => ~ core'[j]
    BY <2>1, <2>2 DEF New, TypeOK, CoreFiles
  <2>4. v <= CoreOf[n + 1] /\ CoreOf[n + 1] \in Nat
    BY <1>n, <2>1, UpgradeAssumption, CoreTypes, InstanceAssumption
  <2>5. Leftover(CoreOf[n + 1]) BY <1>n, <2>4 DEF CoreFiles, Leftover
  <2>6. pc'[n + 1] = "check" BY <2>1 DEF New, TypeOK
  <2> QED BY <2>1, <2>2, <2>3, <2>5, <2>6 DEF New, CoreFiles, OwnCore, Leftover
<1>2. CASE ~ \E i \in Instances : New(i)
  <2>1. Newest' = n BY <1>2, <1>n, OrderedStep
  <2>f. ASSUME UNCHANGED proc PROVE OwnCore' BY <1>n, <2>1, <2>f DEF OwnCore
  <2>2. ASSUME NEW i \in Instances, Check(i) PROVE CoreFiles' /\ OwnCore'
    <3>1. i = n /\ pc[n] = "check" /\ ~ core[n] /\ Leftover(v) BY <1>n, <2>2 DEF Check, CoreFiles
    <3>o. OwnCore' BY <2>2, <2>f DEF Check
    <3>2. CASE core' = [core EXCEPT ![n] = TRUE] /\ Goto(n, "load") /\ sum = v /\ UNCHANGED <<img, sum>>
      <4>1. Leftover(v)' BY <3>1, <3>2 DEF Leftover
      <4>2. pc'[n] = "load" /\ sum' = v BY <1>n, <3>2 DEF TypeOK
      <4>3. \A j \in Instances : pc'[j] \in {"off", "check", "write", "sum"} => ~ core'[j]
        BY <1>n, <3>2 DEF TypeOK, CoreFiles
      <4> QED BY <1>n, <2>1, <3>o, <4>1, <4>2, <4>3 DEF CoreFiles
    <3>3. CASE Goto(n, "write") /\ img' = [core |-> v, whole |-> FALSE] /\ UNCHANGED <<core, sum>>
               /\ ~ (sum = v /\ img # NoImage)
      <4>1. sum < v BY <1>n, <3>1, <3>3 DEF Leftover, NoImage
      <4>2. img' \in [core: (sum + 1)..v, whole: BOOLEAN] BY <1>n, <3>3, <4>1
      <4>3. Leftover(v)' BY <1>n, <3>3, <4>1, <4>2 DEF Leftover
      <4>4. pc'[n] = "write" /\ img'.core = v /\ sum' = sum BY <1>n, <3>3 DEF TypeOK
      <4>5. \A j \in Instances : pc'[j] \in {"off", "check", "write", "sum"} => ~ core'[j]
        BY <1>n, <3>1, <3>3 DEF TypeOK, CoreFiles
      <4> QED BY <1>n, <2>1, <3>o, <3>1, <3>3, <4>1, <4>3, <4>4, <4>5 DEF CoreFiles
    <3>4. CASE Goto(n, "load") /\ UNCHANGED <<img, sum, core>>
      <4>1. Leftover(v)' BY <3>1, <3>4 DEF Leftover
      <4>2. pc'[n] = "load" BY <1>n, <3>4 DEF TypeOK
      <4>3. \A j \in Instances : pc'[j] \in {"off", "check", "write", "sum"} => ~ core'[j]
        BY <1>n, <3>4 DEF TypeOK, CoreFiles
      <4> QED BY <1>n, <2>1, <3>o, <3>1, <3>4, <4>1, <4>2, <4>3 DEF CoreFiles
    <3> QED BY <1>n, <2>2, <3>1, <3>2, <3>3, <3>4 DEF Check
  <2>3. ASSUME NEW i \in Instances, Write(i) PROVE CoreFiles' /\ OwnCore'
    <3>1. i = n /\ pc[n] = "write" /\ ~ core[n] /\ sum < v /\ img.core = v /\ img \in Image
      BY <1>n, <2>3 DEF Write, CoreFiles, TypeOK
    <3>2. img'.core = v /\ img' \in Image /\ (pc'[n] = "sum" => img'.whole) /\ UNCHANGED <<sum, core>>
      BY <1>n, <2>3, <3>1 DEF Write, TypeOK, Image
    <3>3. img' \in [core: (sum + 1)..v, whole: BOOLEAN] BY <1>n, <3>1, <3>2 DEF Image
    <3>4. Leftover(v)' BY <1>n, <3>1, <3>2, <3>3 DEF Leftover
    <3>5. \A j \in Instances : pc'[j] \in {"off", "check", "write", "sum"} => ~ core[j]
      BY <1>n, <2>3, <3>1 DEF Write, TypeOK, CoreFiles
    <3> QED BY <1>n, <2>1, <2>3, <2>f, <3>1, <3>2, <3>4, <3>5 DEF Write, CoreFiles
  <2>4. ASSUME NEW i \in Instances, WriteSum(i) PROVE CoreFiles' /\ OwnCore'
    <3>1. i = n /\ pc[n] = "sum" /\ ~ core[n] /\ sum < v /\ img.core = v /\ img.whole /\ img \in Image
      BY <1>n, <2>4 DEF WriteSum, CoreFiles, TypeOK
    <3>2. img = [core |-> v, whole |-> TRUE] BY <3>1 DEF Image
    <3>3. CASE sum' = v /\ core' = [core EXCEPT ![n] = TRUE]
      <4>1. Leftover(v)' BY <1>n, <2>4, <3>2, <3>3 DEF WriteSum, Leftover
      <4> QED BY <1>n, <2>1, <2>4, <2>f, <3>3, <4>1 DEF WriteSum, CoreFiles, TypeOK
    <3>4. CASE sum' = 0 /\ UNCHANGED core
      <4>1. img' \in [core: (sum' + 1)..v, whole: BOOLEAN] BY <1>n, <2>4, <3>2, <3>4 DEF WriteSum
      <4>2. Leftover(v)' BY <1>n, <3>4, <4>1 DEF Leftover
      <4> QED BY <1>n, <2>1, <2>4, <2>f, <3>1, <3>4, <4>2 DEF WriteSum, CoreFiles, TypeOK
    <3> QED BY <1>n, <2>4, <3>1, <3>3, <3>4 DEF WriteSum
  <2>5. CASE ~ \E i \in Instances : Check(i) \/ Write(i) \/ WriteSum(i)
    <3>1. Calm /\ Kept BY <1>2, <2>5, CalmSteps
    <3> QED BY <1>n, <2>1, <3>1, CalmFiles
  <2> QED BY <2>2, <2>3, <2>4, <2>5
<1> QED BY <1>1, <1>2

\* Wherever an extraction fails or is killed, and whatever older core was there
\* before, the newest instance runs the whole core it embeds.
THEOREM CoreIsOwn == Spec => []OwnCore
<1> DEFINE I == TypeOK /\ Ordered /\ Tended /\ CoreFiles /\ OwnCore
<1>1. Init => I
  <2> SUFFICES ASSUME Init PROVE I
    OBVIOUS
  <2>1. Newest = 1
    <3>1. \A i \in Instances : pc[i] # "off" <=> i <= 1 BY InstanceAssumption DEF Init
    <3> QED BY <3>1, NewestIs, InstanceAssumption
  <2>2. CoreFiles /\ OwnCore
    BY <2>1, InstanceAssumption DEF Init, CoreFiles, OwnCore, NoProc
  <2> QED BY <2>2, TypeInit, OrderedInit DEF Init, Tended, NoProc
<1>2. I /\ [Next]_vars => I'
  BY TypeStep, OrderedStep, TendedStep, FilesStep
<1>3. I => OwnCore
  OBVIOUS
<1> HIDE DEF I
<1> QED BY <1>1, <1>2, <1>3, PTL DEF Spec

---------------------------------------------------------------------------
(* sessions.json                                                           *)

\* One save at a time holds the .tmp file, from its truncation to its renaming.
SafeSaves ==
  "collided" \notin mishaps =>
    /\ disk \in Records
    /\ \A i \in Instances :
         /\ sv[i] \in {"idle", "open", "tmp", "rename"}
         /\ sv[i] = "tmp" => tmp = "empty"
         /\ sv[i] = "rename" => tmp \in Records
    /\ \A i, j \in Instances : sv[i] \notin {"idle", "open"} /\ sv[j] \notin {"idle", "open"} => i = j

\* An instance that has not saved yet.
Fresh == {"off"} \cup (Booting \ {"keep", "listen"})

\* The newest instance, once it has read sessions.json, has its record there,
\* in the .tmp file, or still to write.
EditsKept ==
  /\ \A i \in Instances : pc[i] \in Fresh => sv[i] = "idle"
  /\ pc[Newest] \in Knowing =>
       /\ mishaps \subseteq {"killed"} /\ sv[Newest] = "idle" => disk = mem[Newest]
       /\ "collided" \notin mishaps /\ sv[Newest] = "rename" => tmp = mem[Newest]

\* A step that touches no file, and no record but one it saves, or ends.
Still ==
  /\ UNCHANGED <<disk, tmp>> /\ mishaps \subseteq mishaps'
  /\ \A j \in Instances :
       /\ pc'[j] \in Fresh => pc[j] \in Fresh
       /\ \/ sv'[j] = sv[j] /\ mem'[j] = mem[j] /\ (pc'[j] \in Knowing => pc[j] \in Knowing)
          \/ sv'[j] = "open" /\ pc'[j] \notin Fresh
          \/ sv'[j] = "idle" /\ pc'[j] = "exited"

\* An instance that goes on and saves nothing, and has read sessions.json
\* before if it has read it.
LEMMA MoveStill ==
  ASSUME TypeOK, NEW i \in Instances, NEW step, Goto(i, step),
         UNCHANGED <<disk, tmp, mem, sv>>, mishaps \subseteq mishaps',
         step \in Fresh => pc[i] \in Fresh, step \in Knowing => pc[i] \in Knowing
  PROVE  Still
<1>1. pc' = [pc EXCEPT ![i] = step] /\ pc \in [Instances -> Steps] BY DEF Goto, TypeOK
<1>2. pc'[i] = step /\ \A j \in Instances \ {i} : pc'[j] = pc[j] BY <1>1
<1> QED BY <1>2 DEF Still

\* All steps but those of a save, Load, and the start of an instance.
LEMMA StillSteps ==
  ASSUME TypeOK, [Next]_vars, ~ \E i \in Instances : Saves(i) \/ Load(i) \/ New(i)
  PROVE  Still
<1> USE DEF Booting, Leaving, Fresh, Knowing
<1>1. ASSUME NEW i \in Instances, Check(i) \/ Write(i) \/ WriteSum(i) PROVE Still
  <2>1. pc[i] \in Fresh /\ UNCHANGED <<disk, tmp, mem, sv>> /\ mishaps \subseteq mishaps'
    BY <1>1 DEF Check, Write, WriteSum
  <2>2. \E step \in {"load", "write", "sum"} : Goto(i, step)
    BY <1>1 DEF Check, Write, WriteSum
  <2> QED BY <2>1, <2>2, MoveStill
<1>3. ASSUME NEW i \in Instances, Reclaim(i) \/ Restored(i) \/ Listen(i) PROVE Still
  <2>1. CASE Reclaim(i) BY <2>1 DEF Reclaim, TypeOK, Still
  <2>2. CASE Restored(i) BY <2>2 DEF Restored, TypeOK, Still
  <2>3. CASE Listen(i) BY <2>3 DEF Listen, TypeOK, Still
  <2> QED BY <1>3, <2>1, <2>2, <2>3
<1>4. ASSUME NEW i \in Instances, Restore(i) PROVE Still
  <2>1. CASE UNCHANGED <<mem, sv>> /\ Goto(i, "listen") BY <1>4, <2>1 DEF Restore, TypeOK, Still
  <2>2. CASE Save(i) /\ mem' = [mem EXCEPT ![i] = "off"] /\ Goto(i, "keep")
    BY <1>4, <2>2 DEF Restore, Save, TypeOK, Still
  <2> QED BY <1>4, <2>1, <2>2 DEF Restore
<1>5. ASSUME NEW i \in Instances, Dies(i), mishaps \subseteq mishaps' PROVE Still
  BY <1>5 DEF Dies, TypeOK, Still
<1>6. ASSUME NEW i \in Instances, GiveUp(i) \/ Leave(i) \/ Killed(i) PROVE Still
  BY <1>5, <1>6 DEF GiveUp, Leave, Killed
<1>7. ASSUME NEW i \in Instances, Toggle(i) PROVE Still
  BY <1>7 DEF Toggle, Save, TypeOK, Still
<1>8. ASSUME NEW i \in Instances, Supervisor(i) PROVE Still
  BY <1>8 DEF Supervisor, Save, TypeOK, Still
<1>9. ASSUME NEW i \in Instances, StartAnother(i) PROVE FALSE
  <2>1. i + 1 \in Instances BY <1>9, InstanceAssumption DEF StartAnother
  <2> QED BY <1>9, <2>1 DEF StartAnother, New
<1>10. ASSUME NEW i \in Instances, Cancel(i) \/ CoreExits(i) PROVE Still
  BY <1>10 DEF Cancel, CoreExits, Still
<1>11. ASSUME NEW i \in Instances, Shutdown(i) PROVE Still
  BY <1>11, MoveStill DEF Shutdown, saving
<1>12. ASSUME NEW i \in Instances, StopAll(i) PROVE Still
  <2>1. pc[i] = "drain" /\ (Goto(i, "save") \/ Goto(i, "stop"))
    BY <1>12 DEF StopAll
  <2>2. UNCHANGED <<disk, tmp, mem, sv, mishaps>> BY <1>12 DEF StopAll, saving
  <2> QED BY <2>1, <2>2, MoveStill
<1>13. ASSUME NEW i \in Instances, LastSave(i) PROVE Still
  BY <1>13 DEF LastSave, Save, TypeOK, Still
<1>14. ASSUME NEW i \in Instances, ExitGoroutine(i) PROVE Still
  BY <1>14 DEF ExitGoroutine, TypeOK, Still
<1>15. CASE UNCHANGED vars \/ Done BY <1>15 DEF vars, Done, Still
<1> QED
  BY <1>1, <1>3, <1>4, <1>6, <1>7, <1>8, <1>9, <1>10, <1>11, <1>12, <1>13, <1>14, <1>15
     DEF Next, Boot, Stops

\* Every step keeps the saves apart, or they collided.
LEMMA SafeStep == TypeOK /\ SafeSaves /\ [Next]_vars => SafeSaves'
<1> SUFFICES ASSUME TypeOK, SafeSaves, [Next]_vars PROVE SafeSaves'
  OBVIOUS
<1>1. ASSUME NEW i \in Instances, OpenTmp(i) PROVE SafeSaves'
  <2>1. CASE sv' = [sv EXCEPT ![i] = "idle"] /\ UNCHANGED <<tmp, disk>> /\ mishaps \subseteq mishaps'
    BY <2>1 DEF SafeSaves, TypeOK
  <2>2. CASE /\ tmp' = "empty" /\ sv' = [sv EXCEPT ![i] = "tmp"] /\ UNCHANGED disk
             /\ mishaps \subseteq mishaps'
             /\ (\E j \in Instances \ {i} : sv[j] \notin {"idle", "open"}) => "collided" \in mishaps'
    BY <2>2 DEF SafeSaves, TypeOK
  <2> QED BY <1>1, <2>1, <2>2 DEF OpenTmp, Failed
<1>2. ASSUME NEW i \in Instances, WriteTmp(i), "collided" \notin mishaps' PROVE SafeSaves'
  <2>1. "collided" \notin mishaps BY <1>2 DEF WriteTmp, Failed
  <2>2. sv[i] = "tmp" /\ tmp = "empty" /\ \A j \in Instances \ {i} : sv[j] \in {"idle", "open"}
    BY <1>2, <2>1 DEF SafeSaves, WriteTmp
  <2>3. Written(i, tmp) = {mem[i]} /\ mem[i] \in Records BY <2>2 DEF Written, TypeOK
  <2>4. CASE tmp' = mem[i] /\ sv' = [sv EXCEPT ![i] = "rename"] /\ UNCHANGED disk
    BY <2>1, <2>2, <2>3, <2>4 DEF SafeSaves, TypeOK
  <2>5. CASE sv' = [sv EXCEPT ![i] = "idle"] /\ disk' = disk
    BY <2>1, <2>2, <2>5 DEF SafeSaves, TypeOK
  <2> QED BY <1>2, <2>2, <2>3, <2>4, <2>5 DEF WriteTmp, Failed
<1>3. ASSUME NEW i \in Instances, RenameTmp(i), "collided" \notin mishaps' PROVE SafeSaves'
  <2>1. "collided" \notin mishaps BY <1>3 DEF RenameTmp, Failed
  <2>2. sv[i] = "rename" /\ tmp \in Records /\ \A j \in Instances \ {i} : sv[j] \in {"idle", "open"}
    BY <1>3, <2>1 DEF SafeSaves, RenameTmp
  <2>3. disk' \in Records BY <1>3, <2>1, <2>2 DEF RenameTmp, Failed, SafeSaves
  <2>4. \A j \in Instances : sv'[j] \in {"idle", "open"} BY <1>3, <2>2 DEF RenameTmp, Failed, TypeOK
  <2> QED BY <2>3, <2>4 DEF SafeSaves
<1>4. ASSUME NEW i \in Instances, Load(i) \/ New(i) PROVE SafeSaves'
  BY <1>4 DEF Load, New, SafeSaves
<1>5. CASE Still BY <1>5 DEF Still, SafeSaves
<1>6. CASE "collided" \in mishaps' BY <1>6 DEF SafeSaves
<1> QED BY <1>1, <1>2, <1>3, <1>4, <1>5, <1>6, StillSteps DEF Saves

\* Nobody saves at first.
LEMMA SafeInit == Init => SafeSaves
BY DEF Init, SafeSaves

\* Whatever an instance is killed at, and whichever write fails, sessions.json is
\* a list of sessions that the next start reads, unless two instances were
\* writing the .tmp file at the same time.
THEOREM SavesAreWhole == Spec => []SavesWhole
<1>1. TypeOK /\ SafeSaves /\ [Next]_vars => TypeOK' /\ SafeSaves' BY TypeStep, SafeStep
<1>2. SafeSaves => SavesWhole BY DEF SafeSaves, SavesWhole
<1> QED BY TypeInit, SafeInit, <1>1, <1>2, PTL DEF Spec

\* Nobody has an edit at first.
LEMMA EditsInit == Init => EditsKept
<1> SUFFICES ASSUME Init PROVE EditsKept
  OBVIOUS
<1>1. Newest = 1
  <2>1. \A i \in Instances : pc[i] # "off" <=> i <= 1 BY InstanceAssumption DEF Init
  <2> QED BY <2>1, NewestIs, InstanceAssumption
<1> QED BY <1>1, InstanceAssumption DEF Init, EditsKept, Knowing, Leaving

\* Every step keeps the newest instance's edits.
LEMMA EditsStep ==
  TypeOK /\ Ordered /\ SafeSaves /\ EditsKept /\ [Next]_vars => EditsKept'
<1> SUFFICES ASSUME TypeOK, Ordered, SafeSaves, EditsKept, [Next]_vars PROVE EditsKept'
  OBVIOUS
<1>k. PICK n \in Instances : n = Newest BY NewestFacts
<1>f. \A j \in Instances : pc[j] \in Fresh => sv[j] = "idle" BY DEF EditsKept
<1>1. ASSUME NEW i \in Instances, New(i) PROVE EditsKept'
  <2>0. i = n /\ n + 1 \in Instances /\ pc'[n + 1] = "check" BY <1>1, <1>k DEF New, TypeOK
  <2>a. pc[n + 1] = "off" BY <2>0, <1>k, NewestFacts, InstanceAssumption
  <2>1. Newest' = n + 1 BY <2>0, <2>a, <1>k, OrderedStep DEF NoNew
  <2>2. \A j \in Instances : pc'[j] \in Fresh => sv'[j] = "idle"
    BY <1>1, <1>f, <2>0, <2>a DEF New, TypeOK, Fresh
  <2> QED BY <2>0, <2>1, <2>2 DEF EditsKept, Knowing, Leaving
<1>2. CASE ~ \E i \in Instances : New(i)
  <2>n. Newest' = n BY <1>2, <1>k, OrderedStep
  <2>1. CASE Still
    <3>1. \A j \in Instances : pc'[j] \in Fresh => sv'[j] = "idle"
      BY <1>f, <2>1 DEF Still, Fresh, Booting
    <3>2. ASSUME mishaps' \subseteq {"killed"}, sv'[n] = "idle", pc'[n] \in Knowing
          PROVE  disk' = mem'[n]
      <4>1. mishaps \subseteq {"killed"} BY <2>1, <3>2 DEF Still
      <4> QED BY <1>k, <2>1, <3>2, <4>1 DEF Still, EditsKept, Knowing, Leaving
    <3>3. ASSUME "collided" \notin mishaps', sv'[n] = "rename", pc'[n] \in Knowing
          PROVE  tmp' = mem'[n]
      <4>1. "collided" \notin mishaps BY <2>1, <3>3 DEF Still
      <4> QED BY <1>k, <2>1, <3>3, <4>1 DEF Still, EditsKept, Knowing, Leaving
    <3> QED BY <2>n, <3>1, <3>2, <3>3 DEF EditsKept
  <2>2. ASSUME NEW i \in Instances, Load(i) PROVE EditsKept'
    <3>1. pc[i] \in Fresh /\ sv[i] = "idle" BY <1>f, <2>2 DEF Load, Fresh, Booting
    <3>2. \A j \in Instances : pc'[j] \in Fresh => sv'[j] = "idle"
      BY <1>f, <2>2, <3>1 DEF Load, TypeOK
    <3>3. i = n
      <4>1. pc[i] = "load" BY <2>2 DEF Load
      <4>2. i <= n /\ ~ (i < n) BY <1>k, <4>1, NewestFacts DEF Leaving
      <4> QED BY <4>2, InstanceAssumption
    <3>4. ASSUME pc'[n] \in Knowing PROVE disk' = mem'[n] /\ sv'[n] = "idle"
      BY <2>2, <3>1, <3>3, <3>4 DEF Load, Goto, TypeOK, Knowing, Leaving
    <3> QED BY <2>n, <3>2, <3>4 DEF EditsKept
  <2>3. ASSUME NEW i \in Instances, Saves(i) PROVE EditsKept'
    <3>1. /\ UNCHANGED <<pc, mem>> /\ sv[i] # "idle"
          /\ "collided" \in mishaps => "collided" \in mishaps'
      BY <2>3 DEF Saves, OpenTmp, WriteTmp, RenameTmp, Failed
    <3>2. \A j \in Instances : pc'[j] \in Fresh => sv'[j] = "idle"
      <4> SUFFICES ASSUME NEW j \in Instances, pc'[j] \in Fresh PROVE sv'[j] = "idle"
        OBVIOUS
      <4>1. sv[j] = "idle" /\ j # i BY <1>f, <3>1
      <4> QED BY <2>3, <4>1 DEF Saves, OpenTmp, WriteTmp, RenameTmp, Failed, TypeOK
    <3>k. pc[n] \in Knowing =>
            /\ mishaps \subseteq {"killed"} /\ sv[n] = "idle" => disk = mem[n]
            /\ "collided" \notin mishaps /\ sv[n] = "rename" => tmp = mem[n]
      BY <1>k DEF EditsKept
    <3>o. i # n => i < n
      <4>1. pc[i] # "off" BY <1>f, <3>1 DEF Fresh
      <4>2. i <= n BY <1>k, <4>1, NewestFacts
      <4> QED BY <4>2, InstanceAssumption
    <3>3. ASSUME mishaps' \subseteq {"killed"}, pc'[n] \in Knowing, Failed(i) PROVE i # n
      <4>1. Overtaken(i) BY <3>3 DEF Failed
      <4>2. PICK j \in Started : j > i BY <4>1 DEF Overtaken
      <4>3. j \in Instances /\ j <= n BY <1>k, NewestFacts DEF Started
      <4> QED BY <4>2, <4>3, InstanceAssumption
    <3>s. "collided" \notin mishaps' =>
            /\ \A j \in Instances : sv[j] \in {"idle", "open", "tmp", "rename"}
            /\ \A j \in Instances : sv[j] = "tmp" => tmp = "empty"
            /\ \A j \in Instances : sv[j] = "rename" => tmp \in Records
            /\ \A j \in Instances : sv[j] \notin {"idle", "open"} =>
                 \A h \in Instances : h # j => sv[h] \in {"idle", "open"}
      BY <3>1 DEF SafeSaves
    <3>4. ASSUME mishaps' \subseteq {"killed"}, sv'[n] = "idle", pc'[n] \in Knowing
          PROVE  disk' = mem'[n]
      <4>0. pc[n] \in Knowing /\ "collided" \notin mishaps' BY <3>1, <3>4
      <4>1. ASSUME i # n, mishaps \subseteq {"killed"}, disk' = disk PROVE disk' = mem'[n]
        <5>1. sv[n] = "idle"
          <6>1. OpenTmp(i) \/ WriteTmp(i) => sv'[n] = sv[n]
            BY <4>1 DEF OpenTmp, WriteTmp, Failed, TypeOK
          <6>2. RenameTmp(i) => sv'[n] = sv[n] \/ sv'[n] # "idle"
            BY <4>1 DEF RenameTmp, Failed, TypeOK
          <6> QED BY <2>3, <3>4, <6>1, <6>2 DEF Saves
        <5> QED BY <3>1, <3>k, <4>0, <4>1, <5>1
      <4>2. CASE Failed(i) /\ UNCHANGED disk
        <5>1. i # n BY <3>3, <3>4, <4>2
        <5>2. mishaps \subseteq {"killed"} BY <3>4, <4>2 DEF Failed
        <5> QED BY <4>1, <4>2, <5>1, <5>2
      <4>3. CASE OpenTmp(i) /\ ~ Failed(i)
        <5>1. sv' = [sv EXCEPT ![i] = "tmp"] /\ UNCHANGED disk /\ mishaps \subseteq mishaps'
          BY <4>3 DEF OpenTmp
        <5>2. i # n BY <3>4, <5>1 DEF TypeOK
        <5> QED BY <3>4, <4>1, <5>1, <5>2
      <4>4. CASE WriteTmp(i) /\ ~ Failed(i)
        <5>1. sv[i] = "tmp" BY <3>s, <4>0, <4>4 DEF WriteTmp
        <5>2. sv' = [sv EXCEPT ![i] = "rename"] /\ disk' = disk /\ mishaps' = mishaps
          BY <4>4, <5>1 DEF WriteTmp
        <5>3. i # n BY <3>4, <5>2 DEF TypeOK
        <5> QED BY <3>4, <4>1, <5>2, <5>3
      <4>5. CASE RenameTmp(i) /\ ~ Failed(i)
        <5>1. sv[i] = "rename" /\ tmp \in Records BY <3>s, <4>0, <4>5 DEF RenameTmp
        <5>2. disk' = tmp /\ ~ Overtaken(i) BY <3>4, <4>5, <5>1 DEF RenameTmp, Records
        <5>3. n \in Started BY <1>k, NewestFacts DEF Started
        <5>4. i = n BY <3>o, <4>0, <5>2, <5>3, InstanceAssumption DEF Overtaken
        <5>5. "collided" \notin mishaps BY <3>1, <4>0
        <5> QED BY <3>1, <3>k, <4>0, <5>1, <5>2, <5>4, <5>5
      <4>6. Failed(i) => UNCHANGED disk
        <5>1. ASSUME Failed(i), WriteTmp(i) PROVE UNCHANGED disk
          <6>1. sv[i] = "tmp" BY <3>s, <4>0, <5>1 DEF WriteTmp
          <6>2. sv'[i] = "idle" BY <5>1 DEF Failed, TypeOK
          <6> QED BY <5>1, <6>1, <6>2 DEF WriteTmp, TypeOK
        <5>2. ASSUME Failed(i), RenameTmp(i), ~ UNCHANGED disk PROVE FALSE
          <6>1. i # n BY <3>3, <3>4, <5>2
          <6>2. ~ Overtaken(i) BY <3>4, <5>2 DEF RenameTmp
          <6>3. n \in Started BY <1>k, NewestFacts DEF Started
          <6> QED BY <3>o, <4>0, <6>1, <6>2, <6>3, InstanceAssumption DEF Overtaken
        <5> QED BY <2>3, <5>1, <5>2 DEF Saves, OpenTmp
      <4> QED BY <2>3, <4>2, <4>3, <4>4, <4>5, <4>6 DEF Saves
    <3>5. ASSUME "collided" \notin mishaps', sv'[n] = "rename", pc'[n] \in Knowing
          PROVE  tmp' = mem'[n]
      <4>0. pc[n] \in Knowing /\ "collided" \notin mishaps BY <3>1, <3>5
      <4>1. CASE i # n /\ sv[n] = "rename"
        <5>1. sv[i] = "open" BY <3>1, <3>s, <3>5, <4>1
        <5>2. OpenTmp(i) BY <2>3, <5>1 DEF Saves, WriteTmp, RenameTmp
        <5>3. UNCHANGED tmp BY <3>5, <4>1, <5>2 DEF OpenTmp
        <5> QED BY <3>1, <3>k, <4>0, <4>1, <5>3
      <4>2. CASE i # n /\ sv[n] # "rename"
        BY <2>3, <3>5, <4>2 DEF Saves, OpenTmp, WriteTmp, RenameTmp, Failed, TypeOK
      <4>3. CASE i = n
        <5>0. sv'[i] = "rename" /\ ~ Failed(i) BY <3>5, <4>3 DEF Failed, TypeOK
        <5>1. WriteTmp(i)
          <6>1. ~ OpenTmp(i) BY <5>0 DEF OpenTmp, TypeOK
          <6>2. ~ RenameTmp(i) BY <5>0 DEF RenameTmp, TypeOK
          <6> QED BY <2>3, <6>1, <6>2 DEF Saves
        <5>2. sv[i] = "tmp" /\ tmp = "empty" BY <3>s, <3>5, <5>1 DEF WriteTmp
        <5>3. Written(i, tmp) = {mem[i]} BY <5>2 DEF Written
        <5> QED BY <3>1, <4>3, <5>0, <5>1, <5>2, <5>3 DEF WriteTmp
      <4> QED BY <4>1, <4>2, <4>3
    <3> QED BY <2>n, <3>2, <3>4, <3>5 DEF EditsKept
  <2> QED BY <1>2, <2>1, <2>2, <2>3, StillSteps
<1> QED BY <1>1, <1>2

\* What the panel of the newest instance has accepted is in sessions.json once
\* its save is over, whatever was killed before, but while its last save has
\* failed, or an older instance has saved after it or at the same time.
THEOREM EditsAreSaved == Spec => []EditsSaved
<1> DEFINE I == TypeOK /\ Ordered /\ SafeSaves /\ EditsKept
<1>1. Init => I
  BY TypeInit, OrderedInit, SafeInit, EditsInit
<1>2. I /\ [Next]_vars => I'
  BY TypeStep, OrderedStep, SafeStep, EditsStep
<1>3. I => EditsSaved
  BY DEF EditsKept, EditsSaved, LockFree, Knowing
<1> HIDE DEF I
<1> QED BY <1>1, <1>2, <1>3, PTL DEF Spec

---------------------------------------------------------------------------
(* Saving as one step                                                      *)

\* What waits for its renaming is the record that its writer holds.
RenameKeeps ==
  "collided" \notin mishaps => \A i \in Instances : sv[i] = "rename" => tmp = mem[i]

\* What a step other than those of a save and Load does to the saves: nothing,
\* or one begins,
SameMixed == "collided" \in mishaps' <=> "collided" \in mishaps

Quiet == UNCHANGED <<disk, tmp, mem, sv>> /\ SameMixed

Begins(i) ==
  /\ sv[i] = "idle" /\ Save(i)
  /\ \E r \in Records : mem' = [mem EXCEPT ![i] = r]
  /\ UNCHANGED <<disk, tmp>> /\ SameMixed

\* or its writer dies.
Ends(i) == sv' = [sv EXCEPT ![i] = "idle"] /\ UNCHANGED <<disk, tmp, mem>> /\ SameMixed

\* Every step is of one of these kinds.
LEMMA SaveKinds ==
  ASSUME TypeOK, EditsKept, [Next]_vars, ~ \E i \in Instances : Saves(i) \/ Load(i)
  PROVE  Quiet \/ \E i \in Instances : Begins(i) \/ Ends(i)
<1> SUFFICES ASSUME ~ \E i \in Instances : Begins(i) \/ Ends(i) PROVE Quiet
  OBVIOUS
<1>1. ASSUME NEW i \in Instances, Check(i) \/ Write(i) \/ WriteSum(i) PROVE Quiet
  <2>1. UNCHANGED <<disk, tmp, mem, sv>> BY <1>1 DEF Check, Write, WriteSum
  <2>2. mishaps' = mishaps BY <1>1 DEF Check, Write, WriteSum
  <2> QED BY <2>1, <2>2 DEF Quiet, SameMixed
<1>2. ASSUME NEW i \in Instances, Restore(i) PROVE Quiet
  <2>1. CASE UNCHANGED <<mem, sv>> BY <1>2, <2>1 DEF Restore, Quiet, SameMixed
  <2>2. CASE Save(i) /\ mem' = [mem EXCEPT ![i] = "off"]
    <3>1. sv[i] = "idle" BY <1>2 DEF Restore, EditsKept, Fresh, Booting
    <3>2. Begins(i) BY <1>2, <2>2, <3>1 DEF Restore, Begins, SameMixed, Records
    <3> QED BY <3>2
  <2> QED BY <1>2, <2>1, <2>2 DEF Restore
<1>3. ASSUME NEW i \in Instances, Reclaim(i) \/ Restored(i) \/ Listen(i) PROVE Quiet
  BY <1>3 DEF Reclaim, Restored, Listen, Quiet, SameMixed
<1>4. ASSUME NEW i \in Instances, GiveUp(i) \/ Leave(i) \/ Killed(i) PROVE Quiet
  <2>1. Dies(i) /\ (mishaps' = mishaps \/ mishaps' = mishaps \cup {"killed"})
    BY <1>4 DEF GiveUp, Leave, Killed
  <2>2. Ends(i) BY <2>1 DEF Dies, Ends, SameMixed
  <2> QED BY <2>2
<1>5. ASSUME NEW i \in Instances, Toggle(i) PROVE Quiet
  <2>1. \E r \in Records : mem' = [mem EXCEPT ![i] = r] BY <1>5 DEF Toggle, TypeOK, Records
  <2>2. Begins(i) BY <1>5, <2>1 DEF Toggle, LockFree, Begins, SameMixed
  <2> QED BY <2>2
<1>6. ASSUME NEW i \in Instances, Supervisor(i) \/ LastSave(i) PROVE Quiet
  <2>1. mem' = mem /\ LockFree(i) /\ Save(i) /\ UNCHANGED <<disk, tmp, mishaps>>
    BY <1>6 DEF Supervisor, LastSave
  <2>2. mem' = [mem EXCEPT ![i] = mem[i]] /\ mem[i] \in Records BY <2>1 DEF TypeOK
  <2>3. Begins(i) BY <2>1, <2>2 DEF LockFree, Begins, SameMixed
  <2> QED BY <2>3
<1>7. ASSUME NEW i \in Instances,
             StartAnother(i) \/ Cancel(i) \/ CoreExits(i) \/ ExitGoroutine(i)
      PROVE  Quiet
  BY <1>7 DEF StartAnother, Cancel, CoreExits, ExitGoroutine, Quiet, SameMixed
<1>8. ASSUME NEW i \in Instances, Shutdown(i) \/ StopAll(i) PROVE Quiet
  BY <1>8 DEF Shutdown, StopAll, Quiet, SameMixed
<1>9. CASE UNCHANGED vars \/ Done BY <1>9 DEF vars, Done, Quiet, SameMixed
<1> QED
  BY <1>1, <1>2, <1>3, <1>4, <1>5, <1>6, <1>7, <1>8, <1>9 DEF Next, Boot, Stops

\* A save that goes on alone keeps the record it has written.
LEMMA RenameStep ==
  TypeOK /\ SafeSaves /\ EditsKept /\ RenameKeeps /\ [Next]_vars => RenameKeeps'
<1> SUFFICES ASSUME TypeOK, SafeSaves, EditsKept, RenameKeeps, [Next]_vars,
                    "collided" \notin mishaps', NEW j \in Instances, sv'[j] = "rename"
             PROVE  tmp' = mem'[j]
  BY DEF RenameKeeps
<1>1. CASE Quiet BY <1>1 DEF Quiet, SameMixed, RenameKeeps
<1>2. ASSUME NEW i \in Instances, Begins(i) PROVE tmp' = mem'[j]
  <2>1. j # i /\ sv[j] = "rename" /\ mem'[j] = mem[j] BY <1>2 DEF Begins, Save, TypeOK
  <2> QED BY <1>2, <2>1 DEF Begins, SameMixed, RenameKeeps
<1>3. ASSUME NEW i \in Instances, Ends(i) PROVE tmp' = mem'[j]
  <2>1. j # i /\ sv[j] = "rename" BY <1>3 DEF Ends, TypeOK
  <2> QED BY <1>3, <2>1 DEF Ends, SameMixed, RenameKeeps
<1>4. ASSUME NEW i \in Instances, Load(i) PROVE tmp' = mem'[j]
  <2>1. sv[i] = "idle" BY <1>4 DEF Load, EditsKept, Fresh, Booting
  <2>2. j # i /\ sv[j] = "rename" /\ mem'[j] = mem[j] BY <1>4, <2>1 DEF Load, TypeOK
  <2> QED BY <1>4, <2>2 DEF Load, RenameKeeps
<1>5. ASSUME NEW i \in Instances, Saves(i) PROVE tmp' = mem'[j]
  <2>1. "collided" \notin mishaps /\ mem' = mem
    BY <1>5 DEF Saves, OpenTmp, WriteTmp, RenameTmp, Failed
  <2>2. \A h \in Instances \ {i} : sv[i] \notin {"idle", "open"} => sv[h] \in {"idle", "open"}
    BY <2>1 DEF SafeSaves
  <2>3. CASE OpenTmp(i)
    <3>1. j # i /\ sv[j] = "rename" BY <2>3 DEF OpenTmp, Failed, TypeOK
    <3>2. mishaps' # mishaps \cup {"collided"} BY <2>1
    <3>3. tmp' = tmp BY <2>3, <3>1, <3>2 DEF OpenTmp, Failed
    <3> QED BY <2>1, <3>1, <3>3 DEF RenameKeeps
  <2>4. CASE WriteTmp(i)
    <3>1. sv[i] = "tmp" /\ tmp = "empty" BY <2>1, <2>4 DEF WriteTmp, SafeSaves
    <3>2. j = i BY <2>2, <2>4, <3>1 DEF WriteTmp, Failed, TypeOK
    <3>3. sv' = [sv EXCEPT ![i] = "rename"] BY <2>4, <3>2 DEF WriteTmp, Failed, TypeOK
    <3>4. tmp' \in Written(i, tmp) BY <2>4, <3>1, <3>2 DEF WriteTmp, Failed, TypeOK
    <3> QED BY <2>1, <3>1, <3>2, <3>4 DEF Written
  <2>5. CASE RenameTmp(i)
    <3>1. sv[i] = "rename" /\ \A h \in Instances \ {i} : sv[h] \in {"idle", "open"}
      BY <2>2, <2>5 DEF RenameTmp
    <3>2. sv'[j] # "rename" BY <2>5, <3>1 DEF RenameTmp, Failed, TypeOK
    <3> QED BY <3>2
  <2> QED BY <1>5, <2>3, <2>4, <2>5 DEF Saves
<1> QED BY <1>1, <1>2, <1>3, <1>4, <1>5, SaveKinds

\* Whether an instance saves, after a step of its save.
LEMMA SavingIs ==
  ASSUME TypeOK, NEW i \in Instances
  PROVE  /\ sv' = [sv EXCEPT ![i] = "idle"] => Saving' = [Saving EXCEPT ![i] = FALSE]
         /\ \A step \in {"open", "tmp", "rename"} :
              sv' = [sv EXCEPT ![i] = step] => Saving' = [Saving EXCEPT ![i] = TRUE]
BY DEF TypeOK, Saving, LockFree

\* A save that is over, put or not.
LEMMA OverIs ==
  ASSUME TypeOK, NEW i \in Instances, sv[i] # "idle", UNCHANGED mem, SameMixed,
         Saving' = [Saving EXCEPT ![i] = FALSE],
         \/ disk' \in {disk, mem[i]}
         \/ "collided" \in mishaps /\ disk' \in Records \cup {"empty", "bad"}
  PROVE  Atomic!Next
<1>1. Saving[i] BY DEF Saving, LockFree
<1>2. Atomic!Done(i) BY <1>1 DEF Atomic!Done, SameMixed
<1>3. Atomic!Put(i) \/ Atomic!Abandon(i)
  BY <1>2 DEF Atomic!Put, Atomic!Abandon, Atomic!Spoilt
<1> QED BY <1>3 DEF Atomic!Next

\* A step that the file, the records and the writers do not see.
LEMMA UnseenIs ==
  ASSUME UNCHANGED <<disk, mem, Saving>>, SameMixed PROVE UNCHANGED Atomic!vars
BY DEF Atomic!vars, SameMixed

\* Every system call of a save is a step of AtomicFile, or none.
LEMMA AtomicSaves ==
  ASSUME TypeOK, SafeSaves, RenameKeeps, NEW i \in Instances, Saves(i)
  PROVE  Atomic!Next \/ UNCHANGED Atomic!vars
<1>1. CASE OpenTmp(i)
  <2>1. CASE Failed(i) /\ UNCHANGED tmp
    <3>1. Saving' = [Saving EXCEPT ![i] = FALSE] BY <2>1, SavingIs DEF Failed
    <3>2. SameMixed BY <2>1 DEF Failed, SameMixed
    <3> QED BY <1>1, <3>1, <3>2, OverIs DEF OpenTmp
  <2>2. CASE /\ sv' = [sv EXCEPT ![i] = "tmp"]
             /\ mishaps' = mishaps \cup {m \in {"collided"} :
                             \E j \in Instances \ {i} : sv[j] \notin {"idle", "open"}}
    <3>1. Saving[i] /\ Saving' = Saving
      <4>1. Saving' = [Saving EXCEPT ![i] = TRUE] BY <2>2, SavingIs
      <4>2. Saving[i] = TRUE BY <1>1 DEF OpenTmp, Saving, LockFree
      <4> QED BY <4>1, <4>2 DEF Saving
    <3>2. UNCHANGED <<disk, mem>> BY <1>1 DEF OpenTmp
    <3>3. CASE \E j \in Instances \ {i} : sv[j] \notin {"idle", "open"}
      <4>1. \E j \in Instances \ {i} : Saving[j] BY <3>3 DEF Saving, LockFree
      <4>2. "collided" \in mishaps' BY <2>2, <3>3
      <4>3. Atomic!Mix(i) BY <3>1, <3>2, <4>1, <4>2 DEF Atomic!Mix
      <4> QED BY <4>3 DEF Atomic!Next
    <3>4. CASE ~ \E j \in Instances \ {i} : sv[j] \notin {"idle", "open"}
      <4>1. SameMixed BY <2>2, <3>4 DEF SameMixed
      <4> QED BY <3>1, <3>2, <4>1, UnseenIs
    <3> QED BY <3>3, <3>4
  <2> QED BY <1>1, <2>1, <2>2 DEF OpenTmp
<1>2. CASE WriteTmp(i)
  <2>1. SameMixed /\ mem' = mem /\ sv[i] # "idle" BY <1>2 DEF WriteTmp, Failed, SameMixed
  <2>2. "collided" \notin mishaps => sv[i] # "disk" BY DEF SafeSaves
  <2>3. mem[i] \in Records /\ disk \in Records \cup {"empty", "bad"} BY DEF TypeOK
  <2>4. \/ disk' = disk
        \/ "collided" \in mishaps /\ disk' \in Records \cup {"empty", "bad"}
    BY <1>2, <2>2, <2>3 DEF WriteTmp, Written
  <2>5. CASE sv' = [sv EXCEPT ![i] = "idle"]
    <3>1. Saving' = [Saving EXCEPT ![i] = FALSE] BY <2>5, SavingIs
    <3> QED BY <2>1, <2>4, <3>1, OverIs
  <2>6. CASE sv' = [sv EXCEPT ![i] = "rename"]
    <3>1. Saving[i] /\ Saving' = Saving
      <4>1. Saving' = [Saving EXCEPT ![i] = TRUE] BY <2>6, SavingIs
      <4>2. Saving[i] = TRUE BY <2>1 DEF Saving, LockFree
      <4> QED BY <4>1, <4>2 DEF Saving
    <3>2. CASE disk' = disk BY <2>1, <3>1, <3>2, UnseenIs
    <3>3. CASE "collided" \in mishaps /\ disk' \in Records \cup {"empty", "bad"}
      <4>1. Atomic!Spoil(i) BY <2>1, <3>1, <3>3 DEF Atomic!Spoil, Atomic!Spoilt, SameMixed
      <4> QED BY <4>1 DEF Atomic!Next
    <3> QED BY <2>4, <3>2, <3>3
  <2> QED BY <1>2, <2>5, <2>6 DEF WriteTmp, Failed
<1>3. CASE RenameTmp(i)
  <2>1. SameMixed /\ mem' = mem /\ sv[i] = "rename" BY <1>3 DEF RenameTmp, Failed, SameMixed
  <2>2. CASE sv' = [sv EXCEPT ![i] = "idle"] /\ disk' = disk
    <3>1. Saving' = [Saving EXCEPT ![i] = FALSE] BY <2>2, SavingIs
    <3> QED BY <2>1, <2>2, <3>1, OverIs
  <2>3. CASE /\ tmp # "none" /\ disk' = tmp
             /\ sv' = [j \in Instances |-> IF j = i THEN "idle"
                                           ELSE IF sv[j] = "disk" THEN "gone"
                                           ELSE IF sv[j] = "tmp" THEN "disk" ELSE sv[j]]
    <3>1. Saving' = [Saving EXCEPT ![i] = FALSE] BY <2>3 DEF Saving, LockFree
    <3>2. \/ disk' = mem[i]
          \/ "collided" \in mishaps /\ disk' \in Records \cup {"empty", "bad"}
      BY <2>1, <2>3 DEF RenameKeeps, TypeOK
    <3> QED BY <2>1, <3>1, <3>2, OverIs
  <2> QED BY <1>3, <2>2, <2>3 DEF RenameTmp, Failed
<1> QED BY <1>1, <1>2, <1>3 DEF Saves

\* Every step of the instances is a step of AtomicFile, or none.
LEMMA AtomicStep ==
  TypeOK /\ SafeSaves /\ EditsKept /\ RenameKeeps /\ [Next]_vars => [Atomic!Next]_(Atomic!vars)
<1> SUFFICES ASSUME TypeOK, SafeSaves, EditsKept, RenameKeeps, [Next]_vars
             PROVE  Atomic!Next \/ UNCHANGED Atomic!vars
  OBVIOUS
<1>1. CASE Quiet
  <2>1. Saving' = Saving BY <1>1 DEF Quiet, Saving, LockFree
  <2> QED BY <1>1, <2>1, UnseenIs DEF Quiet
<1>2. ASSUME NEW i \in Instances, Begins(i) PROVE Atomic!Next
  <2>1. Saving' = [Saving EXCEPT ![i] = TRUE] BY <1>2, SavingIs DEF Begins, Save
  <2>2. ~ Saving[i] BY <1>2 DEF Begins, Saving, LockFree
  <2>3. UNCHANGED <<disk, "collided" \in mishaps>> BY <1>2 DEF Begins, SameMixed
  <2>4. \E r \in Records : mem' = [mem EXCEPT ![i] = r] BY <1>2 DEF Begins
  <2>5. Atomic!Begin(i) BY <2>1, <2>2, <2>3, <2>4 DEF Atomic!Begin
  <2> QED BY <2>5 DEF Atomic!Next
<1>3. ASSUME NEW i \in Instances, Ends(i) PROVE Atomic!Next \/ UNCHANGED Atomic!vars
  <2>1. Saving' = [Saving EXCEPT ![i] = FALSE] BY <1>3, SavingIs DEF Ends
  <2>2. CASE sv[i] # "idle" BY <1>3, <2>1, <2>2, OverIs DEF Ends
  <2>3. CASE sv[i] = "idle"
    <3>1. Saving' = Saving BY <2>1, <2>3 DEF Saving, LockFree
    <3> QED BY <1>3, <3>1, UnseenIs DEF Ends
  <2> QED BY <2>2, <2>3
<1>4. ASSUME NEW i \in Instances, Load(i) PROVE Atomic!Next \/ UNCHANGED Atomic!vars
  <2>1. sv[i] = "idle" BY <1>4 DEF Load, EditsKept, Fresh, Booting
  <2>2. ~ Saving[i] BY <2>1 DEF Saving, LockFree
  <2>3. UNCHANGED <<disk, Saving>> /\ SameMixed BY <1>4 DEF Load, Saving, LockFree, SameMixed
  <2>4. CASE disk \in Records /\ mem' = [mem EXCEPT ![i] = disk]
    <3>1. Atomic!Load(i) BY <2>2, <2>3, <2>4 DEF Atomic!Load, SameMixed
    <3> QED BY <3>1 DEF Atomic!Next
  <2>5. CASE UNCHANGED mem BY <2>3, <2>5, UnseenIs
  <2> QED BY <1>4, <2>4, <2>5 DEF Load
<1> QED BY <1>1, <1>2, <1>3, <1>4, SaveKinds, AtomicSaves

\* They start with a file that AtomicFile may start with.
LEMMA AtomicInit == Init => Atomic!Init
<1> SUFFICES ASSUME Init PROVE Atomic!Init
  OBVIOUS
<1>1. mem \in [Instances -> Records] BY DEF Init, Records
<1>2. Saving = [i \in Instances |-> FALSE] BY DEF Init, Saving, LockFree
<1>3. disk \in Records \cup {"empty", "bad"} /\ ("collided" \notin mishaps => disk \in Records)
  BY DEF Init, Records
<1> QED BY <1>1, <1>2, <1>3 DEF Atomic!Init

\* The system calls of a save, any of which may fail and any of which its
\* instance may be killed before, implement the one step of AtomicFile: the
\* record held under the lock is put into sessions.json whole, or not at all.
THEOREM SavesAreAtomic == Spec => SavesAtomically
<1> DEFINE I == TypeOK /\ Ordered /\ SafeSaves /\ EditsKept /\ RenameKeeps
<1>1. Init => I
  BY EditsInit, TypeInit, OrderedInit, SafeInit DEF Init, RenameKeeps
<1>2. I /\ [Next]_vars => I'
  BY TypeStep, OrderedStep, SafeStep, EditsStep, RenameStep
<1>3. I /\ [Next]_vars => [Atomic!Next]_(Atomic!vars)
  BY AtomicStep
<1> HIDE DEF I
<1> QED BY <1>1, <1>2, <1>3, AtomicInit, PTL DEF Spec, SavesAtomically, Atomic!Spec
=============================================================================
