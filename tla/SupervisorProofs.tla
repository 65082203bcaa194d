-------------------------- MODULE SupervisorProofs --------------------------
(***************************************************************************)
(* The supervisor's delays, for every value of the bounds that keeps       *)
(* CapAssumption: no attempt of a session that keeps failing comes too     *)
(* early, none is forgotten, and a stable run or a start by hand clears the *)
(* count.  The four action properties follow from the invariant ClockInv.   *)
(***************************************************************************)
EXTENDS Supervisor, TLAPS

\* m.restart counts at least the attempts that failed in a row while the
\* session should run; what ends such a row is seen by both.
CountsAgree ==
  /\ limited => crashes = 0
  /\ age > stableAfter => crashes = 0
  /\ Wanted => fails >= crashes

\* What has passed of the delay and what is left of it make up the delay.
DelayKept == (Wanted /\ crashes > 0) => since + wait >= Delay(crashes)

\* next is at most maxBackoff after the attempt that set it.
WaitBounded == wait > 0 => since + wait <= maxBackoff

\* age - (loopInterval - cd) is the age the last tick saw: had it been a stable
\* one, that tick has reset fails.
StableSeen ==
  /\ (Running /\ age - (loopInterval - cd) > stableAfter) => fails = 0
  /\ stable => fails = 0

\* Toggle has deleted the entry, and only the supervisor makes a new one.
FreshByHand == byHand => wait = 0

ClockInv == TypeOK /\ CountsAgree /\ DelayKept /\ WaitBounded /\ StableSeen /\ FreshByHand

---------------------------------------------------------------------------
(* The delays                                                              *)

\* backoffFor's shifts and cap give the delays of the table.
LEMMA DelayValues ==
  ASSUME NEW n \in 1..FailCap
  PROVE  Delay(n) \in 5..maxBackoff /\ backoffFor(n) = Delay(n)
<1>1. CASE n < 7
  <2>1. backoffFor(n) = Least(300, 5 * 2^(n - 1))
    BY <1>1 DEF backoffFor, maxBackoff
  <2>2. CASE n = 1
    <3>1. 2^0 = 1 /\ n - 1 = 0
      BY <2>2
    <3> QED
      BY <2>1, <2>2, <3>1 DEF Least, maxBackoff, Delay
  <2>3. CASE n = 2
    <3>1. 2^1 = 2 /\ n - 1 = 1
      BY <2>3
    <3> QED
      BY <2>1, <2>3, <3>1 DEF Least, maxBackoff, Delay
  <2>4. CASE n = 3
    <3>1. 2^2 = 4 /\ n - 1 = 2
      BY <2>4
    <3> QED
      BY <2>1, <2>4, <3>1 DEF Least, maxBackoff, Delay
  <2>5. CASE n = 4
    <3>1. 2^3 = 8 /\ n - 1 = 3
      BY <2>5
    <3> QED
      BY <2>1, <2>5, <3>1 DEF Least, maxBackoff, Delay
  <2>6. CASE n = 5
    <3>1. 2^4 = 16 /\ n - 1 = 4
      BY <2>6
    <3> QED
      BY <2>1, <2>6, <3>1 DEF Least, maxBackoff, Delay
  <2>7. CASE n = 6
    <3>1. 2^5 = 32 /\ n - 1 = 5
      BY <2>7
    <3> QED
      BY <2>1, <2>7, <3>1 DEF Least, maxBackoff, Delay
  <2> QED
    BY <1>1, <2>2, <2>3, <2>4, <2>5, <2>6, <2>7
<1>2. CASE n = 7
  <2>1. 2^6 = 64
    OBVIOUS
  <2> QED
    BY <1>2, <2>1 DEF backoffFor, Least, maxBackoff, Delay
<1>3. CASE n > 7
  BY <1>3 DEF backoffFor, maxBackoff, Delay
<1> QED
  BY <1>1, <1>2, <1>3, CapAssumption

\* It does not shrink as failures add up.
LEMMA DelayGrows ==
  ASSUME NEW m \in 1..FailCap, NEW n \in m..FailCap
  PROVE  Delay(m) <= Delay(n)
<1>1. CASE m > 6
  BY <1>1, CapAssumption DEF Delay
<1>2. CASE m <= 6 /\ n > 6
  BY <1>2, DelayValues DEF Delay, maxBackoff
<1>3. CASE n <= 6
  <2>1. m \in 1..6 /\ n \in m..6
    BY <1>3, CapAssumption
  <2>2. m = 1 \/ m = 2 \/ m = 3 \/ m = 4 \/ m = 5 \/ m = 6
    BY <2>1
  <2>3. n = 1 \/ n = 2 \/ n = 3 \/ n = 4 \/ n = 5 \/ n = 6
    BY <2>1
  <2> QED
    BY <2>1, <2>2, <2>3 DEF Delay
<1> QED
  BY <1>1, <1>2, <1>3, CapAssumption

---------------------------------------------------------------------------
(* ClockInv is inductive.                                                  *)

Flags == enabled \in BOOLEAN /\ limited \in BOOLEAN /\ stable \in BOOLEAN /\ byHand \in BOOLEAN

LEMMA ClockInit == Init => ClockInv
<1> SUFFICES ASSUME Init PROVE ClockInv
  OBVIOUS
<1> USE DEF Init
<1>1. TypeOK
  <2>1. Flags
    BY DEF Flags
  <2>2. age \in -1..AgeCap /\ cd \in 0..loopInterval /\ since \in 0..SinceCap
    BY CapAssumption DEF loopInterval, stableAfter, maxBackoff
  <2> QED
    BY <2>1, <2>2, CapAssumption DEF TypeOK, Flags, maxBackoff
<1>2. CountsAgree
  BY DEF CountsAgree, stableAfter
<1>3. DelayKept /\ WaitBounded
  BY DEF DelayKept, WaitBounded
<1>4. StableSeen
  BY DEF StableSeen
<1>5. FreshByHand
  BY DEF FreshByHand
<1> QED
  BY <1>1, <1>2, <1>3, <1>4, <1>5 DEF ClockInv

\* An attempt starts the next delay, one failure further.
LEMMA AttemptStep ==
  ASSUME ClockInv, cd = 0, cd' = loopInterval, Wanted, ~ Running, wait = 0, Attempt,
         UNCHANGED record
  PROVE  ClockInv'
<1>1. fails' \in 1..FailCap /\ crashes' \in 1..fails'
  BY CapAssumption DEF ClockInv, TypeOK, CountsAgree, Attempt, Least
<1>2. wait' = Delay(fails') /\ wait' \in 5..maxBackoff
  BY <1>1, DelayValues DEF Attempt
<1>3. Delay(crashes') <= wait'
  <2>1. crashes' \in 1..FailCap /\ fails' \in crashes'..FailCap
    BY <1>1, CapAssumption
  <2> QED
    BY <1>2, <2>1, DelayGrows
<1>4. TypeOK'
  <2>1. Flags'
    BY DEF ClockInv, TypeOK, Flags, Attempt, record
  <2>2. age' \in -1..AgeCap /\ cd' \in 0..loopInterval /\ since' \in 0..SinceCap
    BY CapAssumption DEF Attempt, loopInterval, stableAfter, maxBackoff
  <2> QED
    BY <1>1, <1>2, <2>1, <2>2, CapAssumption DEF TypeOK, Flags, maxBackoff
<1>5. CountsAgree'
  <2>1. ~ limited'
    BY DEF Wanted, record
  <2>2. ~ (age' > stableAfter)
    BY DEF Attempt, stableAfter
  <2>3. fails' >= crashes'
    BY <1>1, CapAssumption
  <2> QED
    BY <2>1, <2>2, <2>3 DEF CountsAgree
<1>6. DelayKept'
  BY <1>2, <1>3 DEF DelayKept, Attempt, maxBackoff
<1>7. WaitBounded' /\ FreshByHand'
  BY <1>2 DEF WaitBounded, FreshByHand, Attempt, maxBackoff
<1>8. StableSeen'
  <2>1. ~ stable'
    BY DEF Attempt
  <2>2. age' = -1 \/ age' = 0
    BY DEF Attempt
  <2>3. cd' \in Int /\ cd' = 3
    BY DEF loopInterval
  <2>4. ~ (age' - (3 - cd') > 60)
    BY <2>2, <2>3
  <2> QED
    BY <2>1, <2>4 DEF StableSeen, loopInterval, stableAfter
<1> QED
  BY <1>4, <1>5, <1>6, <1>7, <1>8 DEF ClockInv

LEMMA TickStep == ClockInv /\ supervisorTick => ClockInv'
<1> SUFFICES ASSUME ClockInv, supervisorTick PROVE ClockInv'
  OBVIOUS
<1> USE DEF supervisorTick, ClockInv, record, history
<1>1. CASE ~ Wanted /\ fails' = 0 /\ wait' = 0 /\ UNCHANGED <<age, history>>
  BY <1>1, CapAssumption
     DEF TypeOK, CountsAgree, DelayKept, WaitBounded, StableSeen, FreshByHand,
         Running, Wanted, loopInterval, maxBackoff
<1>2. CASE /\ Wanted /\ Running
           /\ fails' = IF age > stableAfter THEN 0 ELSE fails
           /\ UNCHANGED <<age, wait, history>>
  BY <1>2, CapAssumption
     DEF TypeOK, CountsAgree, DelayKept, WaitBounded, StableSeen, FreshByHand,
         Running, Wanted, loopInterval, stableAfter
<1>3. CASE Wanted /\ ~ Running /\ wait > 0 /\ UNCHANGED <<age, fails, wait, history>>
  BY <1>3
     DEF TypeOK, CountsAgree, DelayKept, WaitBounded, StableSeen, FreshByHand,
         Running, Wanted, loopInterval
<1>4. CASE Wanted /\ ~ Running /\ wait = 0 /\ Attempt
  BY <1>4, AttemptStep
<1> QED
  BY <1>1, <1>2, <1>3, <1>4

\* A second moves every clock by one, and what is capped is capped above all
\* that anything is compared with.
LEMMA SecondStep == ClockInv /\ Second => ClockInv'
<1> SUFFICES ASSUME ClockInv, Second PROVE ClockInv'
  OBVIOUS
<1> USE DEF Second, ClockInv
<1>1. TypeOK'
  BY CapAssumption DEF TypeOK, Running, Least, loopInterval, stableAfter, maxBackoff
<1>2. CountsAgree'
  BY CapAssumption DEF TypeOK, CountsAgree, Wanted, Running, Least, stableAfter
<1>3. DelayKept'
  <2> SUFFICES ASSUME Wanted, crashes' > 0 PROVE since' + wait' >= Delay(crashes)
    BY DEF DelayKept, Wanted
  <2>1. crashes \in 1..FailCap /\ crashes' = crashes
    BY DEF TypeOK
  <2>2. since + wait >= Delay(crashes)
    BY <2>1 DEF DelayKept
  <2>3. Delay(crashes) \in 5..300
    BY <2>1, DelayValues DEF maxBackoff
  <2> HIDE DEF ClockInv
  <2>4. since \in 0..SinceCap /\ wait \in 0..maxBackoff
    BY DEF ClockInv, TypeOK
  <2> QED
    BY <2>2, <2>3, <2>4, CapAssumption DEF Least, maxBackoff
<1>4. WaitBounded' /\ FreshByHand'
  BY CapAssumption DEF TypeOK, WaitBounded, FreshByHand, Least, maxBackoff
<1>5. StableSeen'
  <2>1. (Running' /\ age' - (loopInterval - cd') > stableAfter) => fails' = 0
    BY CapAssumption DEF TypeOK, StableSeen, Running, Least, loopInterval, stableAfter
  <2>2. age' = AgeCap => Running' /\ age' - (loopInterval - cd') > stableAfter
    BY CapAssumption DEF TypeOK, Running, loopInterval, stableAfter
  <2> QED
    BY <2>1, <2>2 DEF StableSeen
<1> QED
  BY <1>1, <1>2, <1>3, <1>4, <1>5

\* What the other actions do: the clocks go on, a process is gone or new, and a
\* row of failures goes on unless they end it.
AsideClocks ==
  /\ UNCHANGED <<cd, since>>
  /\ UNCHANGED <<fails, wait>> \/ (fails' = 0 /\ wait' = 0 /\ crashes' = 0)
  /\ crashes' = 0 \/ UNCHANGED crashes
  /\ age' = -1 \/ age' = 0 \/ UNCHANGED age

\* They make a session wanted or limited only together with a new row, and let
\* it count as started by hand only with a new entry.
AsideWanted == /\ crashes' = 0 \/ (Wanted' => Wanted)
               /\ crashes' = 0 \/ (limited' => limited)
AsideSeen == (stable' => stable) /\ (wait' = 0 \/ (byHand' => byHand))

Aside == AsideClocks /\ AsideWanted /\ AsideSeen /\ Flags'

LEMMA AsideStep == ClockInv /\ Aside => ClockInv'
<1> SUFFICES ASSUME ClockInv, Aside PROVE ClockInv'
  OBVIOUS
<1>1. TypeOK /\ AsideClocks /\ AsideWanted /\ AsideSeen
  BY DEF ClockInv, Aside
<1>2. TypeOK'
  <2>1. Flags'
    BY DEF Aside
  <2> QED
    BY <1>1, <2>1, CapAssumption DEF TypeOK, Flags, AsideClocks, maxBackoff
<1>3. CountsAgree'
  <2>1. limited' => crashes' = 0
    BY <1>1 DEF ClockInv, CountsAgree, AsideClocks, AsideWanted
  <2>2. age' > stableAfter => crashes' = 0
    BY <1>1 DEF ClockInv, CountsAgree, AsideClocks, stableAfter
  <2>3. Wanted' => fails' >= crashes'
    BY <1>1 DEF ClockInv, TypeOK, CountsAgree, AsideClocks, AsideWanted
  <2> QED
    BY <2>1, <2>2, <2>3 DEF CountsAgree
<1>4. DelayKept'
  <2> SUFFICES ASSUME Wanted', crashes' > 0 PROVE since' + wait' >= Delay(crashes')
    BY DEF DelayKept
  <2>1. Wanted /\ UNCHANGED <<since, wait, crashes>>
    BY <1>1 DEF AsideClocks, AsideWanted
  <2> QED
    BY <2>1 DEF ClockInv, DelayKept
<1>5. WaitBounded' /\ FreshByHand'
  BY <1>1 DEF ClockInv, TypeOK, WaitBounded, FreshByHand, AsideClocks, AsideSeen
<1>6. StableSeen'
  <2>1. (Running' /\ age' - (loopInterval - cd') > stableAfter) => fails' = 0
    BY <1>1 DEF ClockInv, TypeOK, StableSeen, AsideClocks, Running, loopInterval, stableAfter
  <2>2. stable' => fails' = 0
    BY <1>1 DEF ClockInv, StableSeen, AsideClocks, AsideSeen
  <2> QED
    BY <2>1, <2>2 DEF StableSeen
<1> QED
  BY <1>2, <1>3, <1>4, <1>5, <1>6 DEF ClockInv

LEMMA OthersStep ==
  ASSUME ClockInv, Crash \/ ToggleOff \/ ToggleOn \/ Edit \/ Limit \/ ResetTraffic
  PROVE  ClockInv'
<1>1. Flags /\ (limited => crashes = 0)
  BY DEF Flags, ClockInv, TypeOK, CountsAgree
<1>2. ASSUME Crash PROVE Aside
  <2>1. AsideClocks
    BY <1>1, <1>2 DEF AsideClocks, Crash, record, history
  <2>2. AsideWanted
    BY <1>1, <1>2 DEF AsideWanted, Wanted, Flags, Crash, record, history
  <2>3. AsideSeen
    BY <1>1, <1>2 DEF AsideSeen, Flags, Crash, record, history
  <2>4. Flags'
    BY <1>1, <1>2 DEF Flags, Crash, record, history
  <2> QED
    BY <2>1, <2>2, <2>3, <2>4 DEF Aside
<1>3. ASSUME ToggleOff PROVE Aside
  <2>1. AsideClocks
    BY <1>1, <1>3 DEF AsideClocks, ToggleOff
  <2>2. AsideWanted
    BY <1>1, <1>3 DEF AsideWanted, Wanted, Flags, ToggleOff
  <2>3. AsideSeen
    BY <1>1, <1>3 DEF AsideSeen, Flags, ToggleOff
  <2>4. Flags'
    BY <1>1, <1>3 DEF Flags, ToggleOff
  <2> QED
    BY <2>1, <2>2, <2>3, <2>4 DEF Aside
<1>4. ASSUME ToggleOn PROVE Aside
  <2>1. AsideClocks
    BY <1>1, <1>4 DEF AsideClocks, ToggleOn
  <2>2. AsideWanted
    BY <1>1, <1>4 DEF AsideWanted, Wanted, Flags, ToggleOn
  <2>3. AsideSeen
    BY <1>1, <1>4 DEF AsideSeen, Flags, ToggleOn
  <2>4. Flags'
    BY <1>1, <1>4 DEF Flags, ToggleOn
  <2> QED
    BY <2>1, <2>2, <2>3, <2>4 DEF Aside
<1>5. ASSUME Edit PROVE Aside
  <2>1. AsideClocks
    BY <1>1, <1>5 DEF AsideClocks, Edit, StartOrDisable
  <2>2. AsideWanted
    BY <1>1, <1>5 DEF AsideWanted, Wanted, Flags, Edit, StartOrDisable
  <2>3. AsideSeen
    BY <1>1, <1>5 DEF AsideSeen, Flags, Edit, StartOrDisable
  <2>4. Flags'
    BY <1>1, <1>5 DEF Flags, Edit, StartOrDisable
  <2> QED
    BY <2>1, <2>2, <2>3, <2>4 DEF Aside
<1>6. ASSUME Limit PROVE Aside
  <2>1. AsideClocks
    BY <1>1, <1>6 DEF AsideClocks, Limit
  <2>2. AsideWanted
    BY <1>1, <1>6 DEF AsideWanted, Wanted, Flags, Limit
  <2>3. AsideSeen
    BY <1>1, <1>6 DEF AsideSeen, Flags, Limit
  <2>4. Flags'
    BY <1>1, <1>6 DEF Flags, Limit
  <2> QED
    BY <2>1, <2>2, <2>3, <2>4 DEF Aside
<1>7. ASSUME ResetTraffic PROVE Aside
  <2>1. AsideClocks
    BY <1>1, <1>7 DEF AsideClocks, ResetTraffic, StartOrDisable
  <2>2. AsideWanted
    BY <1>1, <1>7 DEF AsideWanted, Wanted, Flags, ResetTraffic, StartOrDisable
  <2>3. AsideSeen
    BY <1>1, <1>7 DEF AsideSeen, Flags, ResetTraffic, StartOrDisable
  <2>4. Flags'
    BY <1>1, <1>7 DEF Flags, ResetTraffic, StartOrDisable
  <2> QED
    BY <2>1, <2>2, <2>3, <2>4 DEF Aside
<1> QED
  BY <1>2, <1>3, <1>4, <1>5, <1>6, <1>7, AsideStep

LEMMA ClockStep == ClockInv /\ [Next]_vars => ClockInv'
<1>1. ClockInv /\ UNCHANGED vars => ClockInv'
  BY DEF vars, ClockInv, TypeOK, CountsAgree, DelayKept, WaitBounded, StableSeen, FreshByHand,
         Running, Wanted
<1> QED
  BY <1>1, TickStep, SecondStep, OthersStep DEF Next

LEMMA ClockInvariant == Spec => []ClockInv
BY ClockInit, ClockStep, PTL DEF Spec

---------------------------------------------------------------------------
(* What follows from it.                                                   *)

\* Every variable keeps its type, and no wait exceeds maxBackoff.
THEOREM TypeCorrect == Spec => []TypeOK
<1>1. ClockInv => TypeOK
  BY DEF ClockInv
<1> QED
  BY <1>1, ClockInvariant, PTL

\* Only Attempt sets since back.
LEMMA OnlyAttempts ==
  ASSUME ClockInv, [Next]_vars, Attempts
  PROVE  Wanted /\ ~ Running /\ wait = 0 /\ Attempt
<1>1. since # since' /\ cd = 0
  BY DEF ClockInv, TypeOK, Attempts
<1>2. ~ Second
  BY <1>1 DEF Second
<1>3. ~ (Crash \/ ToggleOff \/ ToggleOn \/ Edit \/ Limit \/ ResetTraffic \/ UNCHANGED vars)
  BY <1>1 DEF Crash, ToggleOff, ToggleOn, Edit, Limit, ResetTraffic, vars, history
<1>4. supervisorTick
  BY <1>2, <1>3 DEF Next
<1> QED
  BY <1>1, <1>4 DEF supervisorTick, history

\* Whatever crashes, edits, limits and resets fall between the ticks, a session
\* that keeps failing is not tried again before its delay is over.
THEOREM DelaysKept == Spec => Spaced
<1>1. ClockInv /\ [Next]_vars => [(Attempts /\ crashes > 0) => since >= Delay(crashes)]_vars
  <2> SUFFICES ASSUME ClockInv, [Next]_vars, Attempts, crashes > 0
               PROVE  since >= Delay(crashes)
    OBVIOUS
  <2>1. Wanted /\ wait = 0
    BY OnlyAttempts
  <2>2. since + wait >= Delay(crashes)
    BY <2>1 DEF ClockInv, DelayKept
  <2> QED
    BY <2>1, <2>2 DEF ClockInv, TypeOK
<1> QED
  BY <1>1, ClockInvariant, PTL DEF Spec, Spaced

\* A tick that finds a session down that should run, and no wait left, tries it.
LEMMA TickTries ==
  ASSUME ClockInv, [Next]_vars, cd = 0, cd' # 0, Wanted, ~ Running, wait = 0
  PROVE  since' = 0
<1>1. ~ Second
  BY DEF Second
<1>2. ~ (Crash \/ ToggleOff \/ ToggleOn \/ Edit \/ Limit \/ ResetTraffic \/ UNCHANGED vars)
  BY DEF Crash, ToggleOff, ToggleOn, Edit, Limit, ResetTraffic, vars
<1>3. supervisorTick
  BY <1>1, <1>2 DEF Next
<1> QED
  BY <1>3 DEF supervisorTick, Attempt

\* A session that should run is tried again at the latest maxBackoff after the
\* last attempt, at the first tick that finds it down.
THEOREM NoneForgotten == Spec => NotForgotten
<1>1. ClockInv /\ [Next]_vars =>
        [(cd = 0 /\ cd' # 0 /\ Wanted /\ ~ Running /\ since >= maxBackoff) => since' = 0]_vars
  <2> SUFFICES ASSUME ClockInv, [Next]_vars,
                      cd = 0, cd' # 0, Wanted, ~ Running, since >= maxBackoff
               PROVE  since' = 0
    OBVIOUS
  <2>1. wait = 0
    BY CapAssumption DEF ClockInv, TypeOK, WaitBounded, maxBackoff
  <2> QED
    BY <2>1, TickTries
<1> QED
  BY <1>1, ClockInvariant, PTL DEF Spec, NotForgotten

\* The attempt after a stable run is treated as the first.
THEOREM StableRunsForget == Spec => StableForgets
<1>1. ClockInv /\ [Next]_vars => [(Attempts /\ stable) => wait' = backoffFor(1)]_vars
  <2> SUFFICES ASSUME ClockInv, [Next]_vars, Attempts, stable PROVE wait' = backoffFor(1)
    OBVIOUS
  <2>1. fails = 0 /\ Attempt
    BY OnlyAttempts DEF ClockInv, StableSeen
  <2>2. fails' = 1
    BY <2>1, CapAssumption DEF Attempt, Least
  <2> QED
    BY <2>1, <2>2 DEF Attempt
<1> QED
  BY <1>1, ClockInvariant, PTL DEF Spec, StableForgets

\* A session the user has started is tried again by the first tick after a crash.
THEOREM StartsFresh == Spec => FreshStart
<1>1. ClockInv /\ [Next]_vars =>
        [(cd = 0 /\ cd' # 0 /\ Wanted /\ ~ Running /\ byHand) => since' = 0]_vars
  BY TickTries DEF ClockInv, FreshByHand
<1> QED
  BY <1>1, ClockInvariant, PTL DEF Spec, FreshStart
=============================================================================
