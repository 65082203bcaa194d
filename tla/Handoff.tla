------------------------------ MODULE Handoff ------------------------------
(***************************************************************************)
(* Several instances of fzp over one data directory (cmd/fzp/main.go,       *)
(* corebin, store, session.New, Restore and StopAll): another start while    *)
(* one runs, by hand or by an update, and restarts after a crash.            *)
(*                                                                          *)
(* The instances share four files (the extracted core and its .sha256,      *)
(* sessions.json and its .tmp), the pid file, and the port of the panel.    *)
(* One action is one system call on them, or one critical section of m.mu.  *)
(*                                                                          *)
(* Abstractions:                                                            *)
(*  - one session stands for any of them; its record is its enabled flag,   *)
(*    and the only edit is Toggle on a session that does not run (module    *)
(*    SessionManager has the others, and the backoff is in Supervisor)      *)
(*  - pids are not reused; an instance runs one core process at a time       *)
(*  - Linux: a core process gets SIGTERM when its instance dies, and an      *)
(*    update that succeeds starts the old program again (module SelfUpdate); *)
(*    the instance asked to stop is Cancel, as for any other reason          *)
(***************************************************************************)
EXTENDS Naturals

CONSTANTS
  N,         \* bound: how many instances are started, one after the other
  CoreOf,    \* the version of the core that each of them embeds
  DiskFails  \* whether a write may fail

Instances == 1..N

ASSUME InstanceAssumption ==
  N \in Nat \ {0} /\ CoreOf \in [Instances -> Nat \ {0}] /\ DiskFails \in BOOLEAN

\* a later instance is the same release or a newer one
ASSUME UpgradeAssumption == \A i, j \in Instances : i <= j => CoreOf[i] <= CoreOf[j]

VARIABLES
  pc,       \* where run() of each instance is
  stopping, \* its ctx is cancelled
  core,     \* m.corePath is set
  mem,      \* the session's record in m.sessions
  sv,       \* a save: "open" and "rename" are its next step, "tmp", "disk" and
            \* "gone" the name that the file it is writing has by now
  proc,     \* its core process: "dead" until the exit goroutine had its turn
  img, sum, \* the extracted core, and the version its .sha256 names (0: none)
  disk, tmp, \* sessions.json and sessions.json.tmp
  pidfile,  \* whose core process <id>.pid names (0: there is none)
  wish,     \* history: what the user wants of the session
  mishaps   \* history: what went wrong on the way.  "unsaved": the last save
            \* failed; "late": an older instance saved after it

vars == <<pc, stopping, core, mem, sv, proc, img, sum, disk, tmp, pidfile, wish, mishaps>>
saving == <<sv, disk, tmp, mishaps>>
extracted == <<img, sum>>
procs == <<proc, pidfile>>

Booting == {"check", "write", "sum", "load", "reclaim", "restore", "keep", "listen"}
Leaving == {"drain", "stop", "save", "leave"}
Knowing == {"reclaim", "restore", "keep", "listen", "serve"} \cup Leaving
Steps == {"off", "serve", "exited"} \cup Booting \cup Leaving
Versions == 1..CoreOf[N]
Image == [core: {0} \cup Versions, whole: BOOLEAN]
NoImage == [core |-> 0, whole |-> FALSE]
NoProc == [st |-> "none", sig |-> FALSE, img |-> NoImage]
Records == {"on", "off"}
Mishaps == {"killed", "unsaved", "collided", "late"}

Started == {i \in Instances : pc[i] # "off"}
Newest == CHOOSE i \in Started : \A j \in Started : j <= i
Running(i) == pc[i] \notin {"off", "exited"}
Goto(i, step) == pc' = [pc EXCEPT ![i] = step]
LockFree(i) == sv[i] = "idle"

---------------------------------------------------------------------------
(* corebin.Extract                                                         *)

\* mutant: any file with the core's name will do
CheckStat(i) ==
  /\ pc[i] = "check"
  /\ IF img # NoImage THEN Goto(i, "load") /\ core' = [core EXCEPT ![i] = TRUE]
                      ELSE Goto(i, "write") /\ UNCHANGED core
  /\ UNCHANGED <<stopping, mem, saving, procs, extracted, wish>>

\* mutant: without a core of its own the program ends
CheckFatal(i) ==
  /\ pc[i] = "check"
  /\ IF \E j \in Instances : proc[j].st = "up" THEN Goto(i, "exited") /\ UNCHANGED img
     ELSE Goto(i, "write") /\ img' = [core |-> CoreOf[i], whole |-> FALSE]
  /\ UNCHANGED <<stopping, core, mem, saving, procs, sum, wish>>

\* The file is there and its .sha256 is the embedded core's, or it is opened
\* to be overwritten, which Linux refuses (ETXTBSY) while a process runs it.
Check(i) ==
  /\ pc[i] = "check"
  /\ \/ /\ sum = CoreOf[i] /\ img # NoImage
        /\ Goto(i, "load") /\ core' = [core EXCEPT ![i] = TRUE] /\ UNCHANGED img
     \/ /\ ~ (sum = CoreOf[i] /\ img # NoImage)
        /\ \A j \in Instances : proc[j].st # "up"
        /\ Goto(i, "write") /\ img' = [core |-> CoreOf[i], whole |-> FALSE]
        /\ UNCHANGED core
     \/ /\ ~ (sum = CoreOf[i] /\ img # NoImage)
        /\ DiskFails \/ \E j \in Instances : proc[j].st = "up"
        /\ Goto(i, "load") /\ UNCHANGED <<img, core>>
  /\ UNCHANGED <<stopping, mem, saving, procs, sum, wish>>

Write(i) ==
  /\ pc[i] = "write"
  /\ \/ Goto(i, "sum") /\ img' = [img EXCEPT !.whole = TRUE]
     \/ DiskFails /\ Goto(i, "load") /\ UNCHANGED img
  /\ UNCHANGED <<stopping, core, mem, saving, procs, sum, wish>>

WriteSum(i) ==
  /\ pc[i] = "sum" /\ Goto(i, "load")
  /\ \/ sum' = CoreOf[i] /\ core' = [core EXCEPT ![i] = TRUE]
     \/ DiskFails /\ sum' = 0 /\ UNCHANGED core
  /\ UNCHANGED <<stopping, mem, saving, procs, img, wish>>

---------------------------------------------------------------------------
(* writeJSONAtomic, under m.mu of the instance; its errors are ignored      *)

\* a later instance has read the file
Overtaken(i) == \E j \in Started : j > i /\ pc[j] \in Knowing

Failed(i) ==
  /\ DiskFails /\ sv' = [sv EXCEPT ![i] = "idle"]
  /\ mishaps' = IF Overtaken(i) THEN mishaps ELSE mishaps \cup {"unsaved"}

\* mutant: sessions.json itself is truncated and written
OpenInPlace(i) ==
  /\ sv[i] = "open"
  /\ disk' = "empty" /\ sv' = [sv EXCEPT ![i] = "disk"]
  /\ UNCHANGED <<pc, stopping, core, mem, procs, extracted, tmp, wish, mishaps>>

\* O_TRUNC on a name that all instances use
OpenTmp(i) ==
  /\ sv[i] = "open"
  /\ \/ /\ tmp' = "empty" /\ sv' = [sv EXCEPT ![i] = "tmp"]
        /\ mishaps' = mishaps \cup {m \in {"collided"} :
                        \E j \in Instances \ {i} : sv[j] \notin {"idle", "open"}}
     \/ Failed(i) /\ UNCHANGED tmp
  /\ UNCHANGED <<pc, stopping, core, mem, procs, extracted, disk, wish>>

\* what is written over something longer does not replace all of it
Written(i, old) == IF old = "empty" THEN {mem[i]} ELSE {mem[i], "bad"}

WriteTmp(i) ==
  /\ sv[i] \in {"tmp", "disk", "gone"}
  /\ \/ /\ tmp' \in IF sv[i] = "tmp" THEN Written(i, tmp) ELSE {tmp}
        /\ disk' \in IF sv[i] = "disk" THEN Written(i, disk) ELSE {disk}
        /\ sv' = [sv EXCEPT ![i] = "rename"] /\ UNCHANGED mishaps
     \/ /\ Failed(i)
        /\ tmp' = IF sv[i] = "tmp" THEN "bad" ELSE tmp
        /\ disk' = IF sv[i] = "disk" THEN "bad" ELSE disk
  /\ UNCHANGED <<pc, stopping, core, mem, procs, extracted, wish>>

\* mutant: sessions.json is removed to make way for the new one
RenameRemoves(i) ==
  /\ sv[i] = "rename" /\ sv' = [sv EXCEPT ![i] = "idle"]
  /\ disk' = tmp /\ tmp' = "none"
  /\ UNCHANGED <<pc, stopping, core, mem, procs, extracted, wish, mishaps>>

\* the name moves to the file that others may still be writing
RenameTmp(i) ==
  /\ sv[i] = "rename"
  /\ \/ /\ tmp # "none"
        /\ disk' = tmp /\ tmp' = "none"
        /\ sv' = [j \in Instances |-> IF j = i THEN "idle"
                                      ELSE IF sv[j] = "disk" THEN "gone"
                                      ELSE IF sv[j] = "tmp" THEN "disk" ELSE sv[j]]
        /\ mishaps' = IF Overtaken(i) THEN mishaps \cup {"late"} ELSE mishaps \ {"late", "unsaved"}
     \/ /\ tmp = "none" /\ sv' = [sv EXCEPT ![i] = "idle"] /\ UNCHANGED <<disk, tmp, mishaps>>
     \/ Failed(i) /\ UNCHANGED <<disk, tmp>>
  /\ UNCHANGED <<pc, stopping, core, mem, procs, extracted, wish>>

Save(i) == sv' = [sv EXCEPT ![i] = "open"]

---------------------------------------------------------------------------
(* session.New and Restore                                                 *)

\* LoadSessions refuses a file that is no list of sessions, and run() ends
Load(i) ==
  /\ pc[i] = "load"
  /\ \/ /\ disk \in Records /\ Goto(i, "reclaim") /\ mem' = [mem EXCEPT ![i] = disk]
        /\ mishaps' = mishaps \ {"late", "unsaved"}
     \/ disk \notin Records /\ Goto(i, "exited") /\ UNCHANGED <<mem, mishaps>>
  /\ UNCHANGED <<stopping, core, sv, disk, tmp, procs, extracted, wish>>

Signalled(j) == [proc EXCEPT ![j].sig = TRUE]

Reclaim(i) ==
  /\ pc[i] = "reclaim" /\ Goto(i, "restore")
  /\ proc' = IF pidfile # 0 /\ proc[pidfile].st = "up" THEN Signalled(pidfile) ELSE proc
  /\ pidfile' = 0
  /\ UNCHANGED <<stopping, core, mem, saving, extracted, wish>>

\* what startLocked does: without a core, or while the core is being written,
\* nothing starts
CanStart(i) == core[i] /\ img # NoImage /\ \A j \in Instances : pc[j] # "write"

Start(i) ==
  /\ CanStart(i)
  /\ proc' = [proc EXCEPT ![i] = [st |-> "up", sig |-> FALSE, img |-> img]]
  /\ pidfile' = i

Restore(i) ==
  /\ pc[i] = "restore"
  /\ \/ mem[i] = "on" /\ Start(i) /\ Goto(i, "listen") /\ UNCHANGED <<mem, sv>>
     \/ /\ mem[i] = "on" /\ ~ CanStart(i)
        /\ mem' = [mem EXCEPT ![i] = "off"] /\ Save(i) /\ Goto(i, "keep") /\ UNCHANGED procs
     \/ mem[i] = "off" /\ Goto(i, "listen") /\ UNCHANGED <<mem, sv, procs>>
  /\ UNCHANGED <<stopping, core, disk, tmp, mishaps, extracted, wish>>

Restored(i) ==
  /\ pc[i] = "keep" /\ LockFree(i)
  /\ Goto(i, "listen")
  /\ UNCHANGED <<stopping, core, mem, saving, procs, extracted, wish>>

---------------------------------------------------------------------------
(* The panel, the supervisor, and the next instance                        *)

\* mutant: a core process outlives the instance that started it
DiesAlone(i) ==
  /\ Goto(i, "exited") /\ sv' = [sv EXCEPT ![i] = "idle"]
  /\ proc' = [proc EXCEPT ![i] = IF @.st = "dead" THEN NoProc ELSE @]
  /\ UNCHANGED <<stopping, core, mem, disk, tmp, pidfile, extracted, wish>>

\* Pdeathsig
Dies(i) ==
  /\ Goto(i, "exited") /\ sv' = [sv EXCEPT ![i] = "idle"]
  /\ proc' = [proc EXCEPT ![i] = IF @.st = "up" THEN [@ EXCEPT !.sig = TRUE] ELSE NoProc]
  /\ UNCHANGED <<stopping, core, mem, disk, tmp, pidfile, extracted, wish>>

PortTaken == \E j \in Instances : pc[j] = "serve"

Listen(i) ==
  /\ pc[i] = "listen" /\ ~ PortTaken
  /\ Goto(i, "serve")
  /\ UNCHANGED <<stopping, core, mem, saving, procs, extracted, wish>>

\* The attempts of listenWithRetry last 7.5 seconds; an instance that is
\* stopping gives up the port in less than one.
GiveUp(i) ==
  /\ pc[i] = "listen"
  /\ \E j \in Instances : pc[j] = "serve" /\ ~ stopping[j]
  /\ Dies(i) /\ UNCHANGED mishaps

\* mutant: Toggle without its saveLocked
ToggleUnsaved(i) ==
  /\ pc[i] = "serve" /\ LockFree(i) /\ proc[i].st = "none" /\ mem[i] = "off"
  /\ mem' = [mem EXCEPT ![i] = "on"] /\ wish' = "on" /\ Start(i)
  /\ UNCHANGED <<pc, stopping, core, saving, extracted>>

Toggle(i) ==
  /\ pc[i] = "serve" /\ LockFree(i) /\ proc[i].st = "none" /\ mem[i] = "off"
  /\ Save(i)
  /\ \/ Start(i) /\ mem' = [mem EXCEPT ![i] = "on"] /\ wish' = "on"
     \/ ~ CanStart(i) /\ UNCHANGED <<procs, mem, wish>>
  /\ UNCHANGED <<pc, stopping, core, disk, tmp, mishaps, extracted>>

\* the loops return when ctx is cancelled, after a tick that came first
Supervisor(i) ==
  /\ pc[i] \in {"listen", "serve"} \cup Leaving /\ LockFree(i)
  /\ mem[i] = "on" /\ proc[i].st = "none"
  /\ Start(i) /\ Save(i)
  /\ UNCHANGED <<pc, stopping, core, mem, disk, tmp, mishaps, extracted, wish>>

\* by hand or by an update, while the last one serves or after it ended
StartAnother(i) ==
  /\ pc[i] \in {"serve", "exited"} /\ i = Newest /\ i < N
  /\ pc' = [pc EXCEPT ![i + 1] = "check"]
  /\ UNCHANGED <<stopping, core, mem, saving, procs, extracted, wish>>

Cancel(i) ==
  /\ pc[i] \in {"listen", "serve"} /\ ~ stopping[i]
  /\ stopping' = [stopping EXCEPT ![i] = TRUE]
  /\ UNCHANGED <<pc, core, mem, saving, procs, extracted, wish>>

---------------------------------------------------------------------------
(* Shutdown, death, and the core processes                                 *)

\* dash.Run returns and httpSrv.Shutdown closes the listener
Shutdown(i) ==
  /\ pc[i] = "serve" /\ stopping[i]
  /\ Goto(i, "drain")
  /\ UNCHANGED <<stopping, core, mem, saving, procs, extracted, wish>>

StopAll(i) ==
  /\ pc[i] = "drain" /\ LockFree(i)
  /\ \/ proc[i].st = "none" /\ Goto(i, "save") /\ UNCHANGED proc
     \/ proc[i].st # "none" /\ Goto(i, "stop") /\ proc' = Signalled(i)
  /\ UNCHANGED <<stopping, core, mem, saving, pidfile, extracted, wish>>

LastSave(i) ==
  /\ pc[i] = "save" /\ LockFree(i)
  /\ Goto(i, "leave") /\ Save(i)
  /\ UNCHANGED <<stopping, core, mem, disk, tmp, mishaps, procs, extracted, wish>>

Leave(i) == pc[i] = "leave" /\ LockFree(i) /\ Dies(i) /\ UNCHANGED mishaps

Killed(i) == Running(i) /\ Dies(i) /\ mishaps' = mishaps \cup {"killed"}

\* a crash, the answer to SIGTERM, or the SIGKILL of stopLocked
CoreExits(i) ==
  /\ proc[i].st = "up"
  /\ proc' = [proc EXCEPT ![i] = IF Running(i) THEN [@ EXCEPT !.st = "dead"] ELSE NoProc]
  /\ UNCHANGED <<pc, stopping, core, mem, saving, pidfile, extracted, wish>>

\* it removes the pid file by its name, and wakes StopAll
ExitGoroutine(i) ==
  /\ proc[i].st = "dead" /\ LockFree(i)
  /\ proc' = [proc EXCEPT ![i] = NoProc]
  /\ pidfile' = 0
  /\ pc' = [pc EXCEPT ![i] = IF @ = "stop" THEN "save" ELSE @]
  /\ UNCHANGED <<stopping, core, mem, saving, extracted, wish>>

Done == (\A i \in Instances : pc[i] = "exited") /\ UNCHANGED vars

---------------------------------------------------------------------------
\* what earlier instances, the last of them killed at any step, left behind
Leftover(v) ==
  /\ sum \in 0..v
  /\ \/ sum = 0 /\ img = NoImage
     \/ sum # 0 /\ img = [core |-> sum, whole |-> TRUE]
     \/ img \in [core: (sum + 1)..v, whole: BOOLEAN]

Init ==
  /\ pc = [i \in Instances |-> IF i = 1 THEN "check" ELSE "off"]
  /\ stopping = [i \in Instances |-> FALSE] /\ core = [i \in Instances |-> FALSE]
  /\ \/ disk \in Records /\ wish = disk /\ mishaps = {}
     \/ disk = "bad" /\ wish = "on" /\ mishaps = {"collided"}
  /\ tmp = "none"
  /\ mem = [i \in Instances |-> "off"] /\ sv = [i \in Instances |-> "idle"]
  /\ proc = [i \in Instances |-> NoProc] /\ pidfile = 0
  /\ Leftover(CoreOf[1])

Boot(i) == Check(i) \/ Write(i) \/ WriteSum(i) \/ Load(i) \/ Reclaim(i) \/ Restore(i) \/ Restored(i) \/ Listen(i)
Saves(i) == OpenTmp(i) \/ WriteTmp(i) \/ RenameTmp(i)
Stops(i) == Shutdown(i) \/ StopAll(i) \/ LastSave(i) \/ Leave(i)

Next == \E i \in Instances :
  \/ Boot(i) \/ GiveUp(i) \/ Saves(i) \/ Toggle(i) \/ Supervisor(i)
  \/ StartAnother(i) \/ Cancel(i)
  \/ Stops(i) \/ Killed(i) \/ CoreExits(i) \/ ExitGoroutine(i)
  \/ Done

Spec == Init /\ [][Next]_vars

\* Goroutines run, system calls return, and the core that StopAll waits for gets
\* SIGKILL after five seconds.  One that has had SIGTERM only may stay.
Fairness == \A i \in Instances :
  /\ WF_vars(Boot(i)) /\ WF_vars(Saves(i)) /\ WF_vars(Stops(i))
  /\ WF_vars(pc[i] = "stop" /\ CoreExits(i)) /\ WF_vars(ExitGoroutine(i))

FairSpec == Spec /\ Fairness

---------------------------------------------------------------------------
\* Every variable keeps its type.
TypeOK ==
  /\ pc \in [Instances -> Steps]
  /\ stopping \in [Instances -> BOOLEAN] /\ core \in [Instances -> BOOLEAN]
  /\ mem \in [Instances -> Records]
  /\ sv \in [Instances -> {"idle", "open", "tmp", "disk", "gone", "rename"}]
  /\ proc \in [Instances -> [st: {"none", "up", "dead"}, sig: BOOLEAN, img: Image]]
  /\ img \in Image /\ sum \in {0} \cup Versions
  /\ disk \in Records \cup {"empty", "bad"} /\ tmp \in Records \cup {"none", "empty", "bad"}
  /\ pidfile \in {0} \cup Instances
  /\ wish \in Records /\ mishaps \subseteq Mishaps

\* corebin.go:26-28, "It's a no-op if the file already present matches the
\* embedded content": wherever an extraction failed or was killed, and whatever
\* core was there before, the newest instance runs its own core and all of it.
OwnCore ==
  LET n == Newest IN proc[n].st = "up" => proc[n].img = [core |-> CoreOf[n], whole |-> TRUE]

\* store.go:98, "atomically": a crash at any step of a save, or a write that
\* fails, leaves a sessions.json the next start can read, unless two instances
\* were saving at once.
SavesWhole == "collided" \notin mishaps => disk \in Records

Saving == [i \in Instances |-> ~ LockFree(i)]
Atomic == INSTANCE AtomicFile WITH Writers <- Instances, Contents <- Records \cup {"empty", "bad"},
            file <- disk, held <- mem, writing <- Saving, mixed <- "collided" \in mishaps

\* store.go:98, "atomically": the system calls of a save together implement the
\* one step of module AtomicFile, of the record that is held under the lock
\* all the while, whichever fails and whoever is killed between them.
SavesAtomically == Atomic!Spec

\* What the panel has accepted is in sessions.json once the save is over, after
\* a crash and a restart as well, but while its last save has failed, or an
\* older instance has saved after it or at the same time.
EditsSaved ==
  LET n == Newest IN (pc[n] = "serve" /\ LockFree(n) /\ mishaps \subseteq {"killed"}) => disk = mem[n]

\* pdeathsig_linux.go:10: whether an instance stopped, gave up or was killed,
\* the core process it had has been sent SIGTERM.  Nobody sees to it that a
\* core that ignores that ends as well.
NoOrphan == \A i \in Instances : (pc[i] = "exited" /\ proc[i].st = "up") => proc[i].sig

\* An instance that is started while the one before it leaves gets its port.
Succeeding(i) == /\ stopping[i] /\ pc[i] = "serve"
                 /\ i + 1 = Newest /\ pc[i + 1] \in Booting /\ ~ stopping[i + 1]
PanelBack == \A i \in 1..(N - 1) :
  Succeeding(i) ~> (pc[i + 1] = "serve" \/ stopping[i + 1] \/ mishaps \cap {"killed", "collided"} # {})

\* manager.go:24-25, "a restart of fzp itself starts every enabled session
\* fresh": when nothing failed, an enabled session is enabled in the instance
\* that serves next.
KeepsEnabled ==
  LET n == Newest IN (pc[n] = "serve" /\ mishaps = {}) => mem[n] = wish
===========================================================================
