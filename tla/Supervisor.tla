----------------------------- MODULE Supervisor -----------------------------
(***************************************************************************)
(* The supervisor of internal/session with its clock: when it restarts a    *)
(* session that crashes or cannot be started, in seconds and with the       *)
(* intervals of the source.  Module SessionManager has what else goes on    *)
(* meanwhile and lets any time pass.                                        *)
(*                                                                          *)
(* Abstractions:                                                            *)
(*  - one session; a tick comes exactly every loopInterval, and the lock is *)
(*    free then; a stop takes no time                                       *)
(*  - restartState.next is kept as the seconds that are left until then     *)
(***************************************************************************)
EXTENDS Integers

loopInterval == 3
stableAfter == 60
maxBackoff == 300

CONSTANTS  \* bounds, none of which a property depends on
  FailCap,  \* failures counted
  AgeCap,   \* seconds a run is followed
  SinceCap  \* seconds an attempt is remembered

ASSUME CapAssumption ==
  /\ FailCap \in Nat /\ FailCap >= 7    \* backoffFor is constant from there on
  /\ AgeCap \in Nat /\ AgeCap > stableAfter + loopInterval
  /\ SinceCap \in Nat /\ SinceCap >= maxBackoff

VARIABLES
  enabled, limited, \* of the session's record
  age,         \* seconds its process has been running (-1: it is not)
  fails, wait, \* of its entry in m.restart: fails, and the seconds until next;
               \* an entry that is not there is as good as a new one
  cd,      \* seconds until the next tick
  since,   \* history: seconds since the supervisor last tried to start it
  crashes, \* history: attempts of the supervisor in a row, none of which ran
           \* for longer than stableAfter
  stable,  \* history: the last run lasted until a tick saw it that long
  byHand   \* history: Toggle started it, and the supervisor not since

vars == <<enabled, limited, age, fails, wait, cd, since, crashes, stable, byHand>>
record == <<enabled, limited>>
history == <<since, crashes, stable, byHand>>

Running == age >= 0
Wanted == enabled /\ ~ limited
Least(x, y) == IF x < y THEN x ELSE y

\* mutant: the delay is not clipped
backoffForUncapped(n) == 5 * 2^(IF n <= 0 THEN 0 ELSE n - 1)

\* mutant: the first two attempts have the same delay
backoffForLate(n) ==
  IF n > 7 THEN maxBackoff ELSE Least(maxBackoff, 5 * 2^(IF n <= 1 THEN 0 ELSE n - 2))

backoffFor(n) ==
  IF n > 7 THEN maxBackoff ELSE Least(maxBackoff, 5 * 2^(IF n <= 0 THEN 0 ELSE n - 1))

---------------------------------------------------------------------------
\* what a tick does with a session that should run and does not, once next is
\* past: startLocked spawns a process or fails
Attempt ==
  /\ fails' = Least(FailCap, fails + 1)
  /\ wait' = backoffFor(fails')
  /\ age' \in {-1, 0}
  /\ since' = 0 /\ crashes' = Least(FailCap, crashes + 1) /\ stable' = FALSE
  /\ byHand' = FALSE

\* mutant: the failures of a session that became stable are kept
TickKeepsFails ==
  /\ cd = 0 /\ cd' = loopInterval
  /\ \/ ~ Wanted /\ fails' = 0 /\ wait' = 0 /\ UNCHANGED <<age, history>>
     \/ Wanted /\ (Running \/ wait > 0) /\ UNCHANGED <<age, fails, wait, history>>
     \/ Wanted /\ ~ Running /\ wait = 0 /\ Attempt
  /\ UNCHANGED record

\* mutant: next moves on with every tick that finds the session down
TickPostpones ==
  /\ cd = 0 /\ cd' = loopInterval
  /\ \/ ~ Wanted /\ fails' = 0 /\ wait' = 0 /\ UNCHANGED <<age, history>>
     \/ Wanted /\ Running /\ UNCHANGED <<age, fails, wait, history>>
     \/ Wanted /\ ~ Running /\ wait > 0 /\ wait' = backoffFor(fails) /\ UNCHANGED <<age, fails, history>>
     \/ Wanted /\ ~ Running /\ wait = 0 /\ Attempt
  /\ UNCHANGED record

supervisorTick ==
  /\ cd = 0 /\ cd' = loopInterval
  /\ \/ ~ Wanted /\ fails' = 0 /\ wait' = 0 /\ UNCHANGED <<age, history>>
     \/ /\ Wanted /\ Running
        /\ fails' = IF age > stableAfter THEN 0 ELSE fails
        /\ UNCHANGED <<age, wait, history>>
     \/ Wanted /\ ~ Running /\ wait > 0 /\ UNCHANGED <<age, fails, wait, history>>
     \/ Wanted /\ ~ Running /\ wait = 0 /\ Attempt
  /\ UNCHANGED record

Second ==
  /\ cd > 0 /\ cd' = cd - 1
  /\ wait' = IF wait = 0 THEN 0 ELSE wait - 1
  /\ age' = IF Running THEN Least(AgeCap, age + 1) ELSE age
  /\ since' = Least(SinceCap, since + 1)
  /\ crashes' = IF age' > stableAfter THEN 0 ELSE crashes
  /\ stable' = (stable \/ age' = AgeCap)
  /\ UNCHANGED <<enabled, limited, fails, byHand>>

---------------------------------------------------------------------------
\* the process ends on its own
Crash == Running /\ age' = -1 /\ UNCHANGED <<record, fails, wait, cd, history>>

\* startLocked in a request: a fresh process, or disabled when it fails
StartOrDisable ==
  \/ age' = 0 /\ stable' = FALSE /\ UNCHANGED enabled
  \/ age' = -1 /\ enabled' = FALSE /\ UNCHANGED stable

ToggleOff ==
  /\ enabled /\ Running
  /\ enabled' = FALSE /\ age' = -1 /\ crashes' = 0
  /\ UNCHANGED <<limited, fails, wait, cd, since, stable, byHand>>

\* mutant: the entry of a session started by hand stays
ToggleOnKeepsEntry ==
  /\ ~ (enabled /\ Running)
  /\ crashes' = 0
  /\ \/ enabled' = TRUE /\ age' = 0 /\ stable' = FALSE /\ byHand' = TRUE
     \/ UNCHANGED <<enabled, age, stable, byHand>>
  /\ UNCHANGED <<limited, fails, wait, cd, since>>

ToggleOn ==
  /\ ~ (enabled /\ Running)
  /\ fails' = 0 /\ wait' = 0 /\ crashes' = 0
  /\ \/ enabled' = TRUE /\ age' = 0 /\ stable' = FALSE /\ byHand' = TRUE
     \/ UNCHANGED <<enabled, age, stable, byHand>>
  /\ UNCHANGED <<limited, cd, since>>

\* Update and Rekey leave m.restart alone
Edit ==
  /\ enabled \/ Running
  /\ StartOrDisable
  /\ UNCHANGED <<limited, fails, wait, cd, since, crashes, byHand>>

\* monitorTick
Limit ==
  /\ Running /\ limited' = TRUE /\ age' = -1 /\ crashes' = 0
  /\ UNCHANGED <<enabled, fails, wait, cd, since, stable, byHand>>

ResetTraffic ==
  /\ limited' = FALSE
  /\ \/ enabled /\ ~ Running /\ StartOrDisable
     \/ ~ (enabled /\ ~ Running) /\ UNCHANGED <<enabled, age, stable>>
  /\ UNCHANGED <<fails, wait, cd, since, crashes, byHand>>

---------------------------------------------------------------------------
\* Restore has started it, if it is enabled
Init ==
  /\ enabled \in BOOLEAN /\ limited \in BOOLEAN
  /\ age = IF enabled THEN 0 ELSE -1
  /\ fails = 0 /\ wait = 0 /\ cd = loopInterval
  /\ since = SinceCap /\ crashes = 0 /\ stable = FALSE /\ byHand = FALSE

Next ==
  \/ supervisorTick \/ Second \/ Crash
  \/ ToggleOff \/ ToggleOn \/ Edit \/ Limit \/ ResetTraffic

Spec == Init /\ [][Next]_vars

---------------------------------------------------------------------------
\* Every variable keeps its type; the wait never exceeds maxBackoff.
TypeOK ==
  /\ enabled \in BOOLEAN /\ limited \in BOOLEAN /\ stable \in BOOLEAN /\ byHand \in BOOLEAN
  /\ age \in -1..AgeCap /\ cd \in 0..loopInterval
  /\ fails \in 0..FailCap /\ crashes \in 0..FailCap
  /\ wait \in 0..maxBackoff /\ since \in 0..SinceCap

Attempts == cd = 0 /\ since > 0 /\ since' = 0

\* 5 seconds after the first attempt, twice as long after each that failed, but
\* 300 at most
Delay(n) == IF n <= 6 THEN <<5, 10, 20, 40, 80, 160>>[n] ELSE 300

\* loops.go:22-24, "a growing backoff so a permanently broken config doesn't
\* spin": however crashes, edits, limits and resets fall between the ticks, the
\* supervisor does not try a session that keeps failing before its delay is over.
Spaced == [][(Attempts /\ crashes > 0) => since >= Delay(crashes)]_vars

\* A session that should run is tried again at the latest maxBackoff after the
\* last attempt, at the first tick that finds it down.
NotForgotten ==
  [][(cd = 0 /\ cd' # 0 /\ Wanted /\ ~ Running /\ since >= maxBackoff) => since' = 0]_vars

\* loops.go:10, "running this long resets its failure count": the attempt after
\* a stable run is treated as the first.
StableForgets == [][(Attempts /\ stable) => wait' = backoffFor(1)]_vars

\* manager.go:244, "manual restart - backoff counter starts fresh": a session
\* the user has started by hand is tried again by the first tick after a crash.
FreshStart ==
  [][(cd = 0 /\ cd' # 0 /\ Wanted /\ ~ Running /\ byHand) => since' = 0]_vars
=============================================================================
