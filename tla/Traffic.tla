------------------------------ MODULE Traffic ------------------------------
(***************************************************************************)
(* The traffic accounting of one session (internal/session, internal/       *)
(* procio): what startLocked, stopLocked, the exit goroutine, ResetTraffic   *)
(* and every reading of the counter do to TrafficB and to the runtime record *)
(* of the process.  SessionManager keeps of all this only whether the total  *)
(* has reached the limit.                                                    *)
(*                                                                          *)
(* One action is one critical section of m.mu, as in SessionManager; the     *)
(* process moves data and logs at any time, between the two system calls of  *)
(* a reading too.  Units: a unit of traffic is counted once in (rchar +      *)
(* wchar) / 2, and so are two bytes of log, hence "logged" counts pairs.     *)
(***************************************************************************)
EXTENDS Integers

CONSTANTS
  LimitB,     \* the limit of the session, 0 for none
  MaxMoved,   \* bound: units moved since the last reset, units moved by one run, and
              \* the total at which no further stop may overlap another
  MaxLogged,  \* bound: units logged by one run
  MaxEarly    \* bound: units a run logs before startLocked takes logBase

ASSUME BoundAssumption ==
  LimitB \in Nat /\ MaxMoved \in Nat /\ MaxLogged \in Nat /\ MaxEarly \in Nat

VARIABLES
  phase,      \* no runtime in m.rt ("off"), its process is alive ("up") or dead ("exited")
  stopping,   \* somebody waits in stopLocked for this process
  moved,      \* what this run tunnelled
  logged,     \* what this run wrote to its log
  base,       \* the part of logged that logBase includes
  ioOffset, lastIO,  \* of the runtime
  trafficB,   \* of the session
  due,        \* what the session moved since its last reset (with each run's base)
  disturbed,  \* history: a reading or a second stop fell into a stop, or a reset
              \* found the process dead
  known,      \* history: the last total a reading gave since the last reset
  late        \* history: since then a stop came between the death of a process and
              \* its harvest, and threw away what was known of its run

vars == <<phase, stopping, moved, logged, base, ioOffset, lastIO, trafficB, due, disturbed, known, late>>
run == <<moved, base, ioOffset>>
seen == <<known, late>>

\* mutant: a difference may be negative
Unclamped(n) == n

Positive(n) == IF n > 0 THEN n ELSE 0

\* what /proc/<pid>/io shows: tunnelled units and log lines alike
Raw == moved + logged

\* the run's part of the total, if the log grows by more between the reading of
\* the counter and the reading of the log's size
Current(offset, more) == Positive(Positive(Raw - (logged + more - base)) - offset)

---------------------------------------------------------------------------
StartRun(early) ==
  /\ phase' = "up"
  /\ moved' = 0 /\ logged' = early /\ base' = early
  /\ ioOffset' = 0

Start ==
  /\ phase = "off" /\ (LimitB = 0 \/ trafficB < LimitB)
  /\ due + MaxEarly <= MaxMoved
  /\ \E early \in 0 .. MaxEarly : StartRun(early) /\ due' = due + early
  /\ lastIO' = 0
  /\ UNCHANGED <<stopping, trafficB, disturbed, seen>>

Move ==
  /\ phase = "up" /\ due < MaxMoved /\ moved < MaxMoved
  /\ moved' = moved + 1 /\ due' = due + 1
  /\ UNCHANGED <<phase, stopping, logged, base, ioOffset, lastIO, trafficB, disturbed, seen>>

Log ==
  /\ phase = "up" /\ logged < MaxLogged
  /\ logged' = logged + 1
  /\ UNCHANGED <<phase, stopping, moved, base, ioOffset, lastIO, trafficB, due, disturbed, seen>>

\* List, Get, Detail and monitorTick: currentTrafficLocked, of a process that
\* can still be read
Read ==
  /\ phase = "up"
  /\ \E more \in 0 .. MaxLogged - logged :
       /\ lastIO' = Current(ioOffset, more)
       /\ logged' = logged + more
  /\ known' = trafficB + lastIO'
  /\ disturbed' = (disturbed \/ stopping)
  /\ UNCHANGED <<phase, stopping, run, trafficB, due, late>>

\* mutant: the delta of the run is not zeroed
StopKeepsDelta ==
  /\ phase = "up"
  /\ lastIO' = Current(ioOffset, 0) /\ trafficB' = trafficB + lastIO'
  /\ stopping' = TRUE /\ disturbed' = (disturbed \/ stopping) /\ known' = trafficB'
  /\ UNCHANGED <<phase, run, logged, due, late>>

\* stopLocked up to the unlock: the total of a dead process is TrafficB alone
Stop ==
  /\ phase # "off" /\ (stopping => trafficB <= MaxMoved)
  /\ \/ /\ phase = "up"
        /\ \E more \in 0 .. MaxLogged - logged :
             /\ trafficB' = trafficB + Current(ioOffset, more)
             /\ logged' = logged + more
        /\ known' = trafficB' /\ UNCHANGED late
     \/ /\ phase = "exited" /\ late' = (late \/ lastIO > 0)
        /\ UNCHANGED <<trafficB, logged, known>>
  /\ lastIO' = 0
  /\ stopping' = TRUE
  /\ disturbed' = (disturbed \/ stopping)
  /\ UNCHANGED <<phase, run, due>>

Exit ==
  /\ phase = "up" /\ phase' = "exited"
  /\ UNCHANGED <<stopping, run, logged, lastIO, trafficB, due, disturbed, seen>>

\* mutant: the run's delta replaces the total
HarvestAssigns ==
  /\ phase = "exited" /\ phase' = "off"
  /\ trafficB' = lastIO
  /\ stopping' = FALSE
  /\ UNCHANGED <<run, logged, lastIO, due, disturbed, seen>>

\* mutant: the run is given up
HarvestForgets ==
  /\ phase = "exited" /\ phase' = "off"
  /\ stopping' = FALSE
  /\ UNCHANGED <<run, logged, lastIO, trafficB, due, disturbed, seen>>

\* the exit goroutine
Harvest ==
  /\ phase = "exited" /\ phase' = "off"
  /\ trafficB' = trafficB + lastIO
  /\ stopping' = FALSE
  /\ UNCHANGED <<run, logged, lastIO, due, disturbed, seen>>

\* The reading of publicLocked ends the operation.  A session that is enabled
\* and has no process is started first.
ResetTraffic ==
  /\ trafficB' = 0
  /\ \/ /\ phase = "up"
        /\ ioOffset' = Raw
        /\ \E more \in 0 .. MaxLogged - logged :
             lastIO' = Current(Raw, more) /\ logged' = logged + more
        /\ due' = 0 /\ known' = lastIO'
        /\ UNCHANGED <<phase, moved, base, disturbed>>
     \/ /\ phase = "exited"
        /\ due' = 0 /\ known' = 0 /\ disturbed' = TRUE
        /\ UNCHANGED <<phase, run, logged, lastIO>>
     \/ /\ phase = "off"
        /\ due' = 0 /\ known' = 0
        /\ UNCHANGED <<phase, run, logged, lastIO, disturbed>>
     \/ /\ phase = "off" /\ MaxEarly <= MaxMoved
        /\ \E early \in 0 .. MaxEarly :
             StartRun(early) /\ lastIO' = early /\ due' = early
        /\ known' = lastIO'
        /\ UNCHANGED disturbed
  /\ late' = FALSE
  /\ UNCHANGED stopping

---------------------------------------------------------------------------
Init ==
  /\ phase = "off" /\ stopping = FALSE
  /\ moved = 0 /\ logged = 0 /\ base = 0 /\ ioOffset = 0 /\ lastIO = 0
  /\ trafficB = 0 /\ due = 0
  /\ disturbed = FALSE /\ known = 0 /\ late = FALSE

Next == Start \/ Move \/ Log \/ Read \/ Stop \/ Exit \/ Harvest \/ ResetTraffic

Spec == Init /\ [][Next]_vars

---------------------------------------------------------------------------
\* Every variable keeps its type; a log is never smaller than its base.
TypeOK ==
  /\ phase \in {"off", "up", "exited"}
  /\ moved \in Nat /\ logged \in Nat /\ base \in Nat /\ ioOffset \in Nat
  /\ lastIO \in Nat /\ trafficB \in Nat /\ due \in Nat
  /\ base <= logged
  /\ stopping \in BOOLEAN /\ disturbed \in BOOLEAN
  /\ known \in Nat /\ late \in BOOLEAN

\* No overcount: as long as no reading and no second stop overlap a stop and no
\* reset meets a dead process, neither the bank nor what the exit goroutine
\* will add to it holds a unit twice, whatever crashes, stops, restarts, resets
\* and races with the log there were.
NoOvercount == ~ disturbed => trafficB + (IF phase = "off" THEN 0 ELSE lastIO) <= due

\* No undercount: what a reading has shown of the session is in the bank, or
\* the exit goroutine will add it, until a reset; the one exception is a stop
\* that finds the process dead and not yet harvested.
NoUndercount == ~ late => trafficB + (IF phase = "off" THEN 0 ELSE lastIO) >= known

\* What makes NoOvercount inductive.  Of a process nobody stops, the counter can
\* never show more than moved + base - ioOffset; of one that is being stopped,
\* the exit goroutine finds nothing to add.
CleanBank ==
  /\ phase = "off" => ~ stopping
  /\ ~ disturbed =>
       /\ trafficB <= due
       /\ phase # "off" /\ stopping => lastIO = 0
       /\ phase # "off" => trafficB + lastIO <= due
       /\ phase = "up" /\ ~ stopping => trafficB + Positive(moved + base - ioOffset) <= due

\* The bank only grows, until a reset empties it: no start, stop or crash takes
\* anything of earlier runs away.
BankGrows == [][trafficB' < trafficB => ResetTraffic]_vars
=============================================================================
