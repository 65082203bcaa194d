--------------------------- MODULE TrafficProofs ---------------------------
(***************************************************************************)
(* For every limit and every bound: the variables of Traffic keep their     *)
(* types, and nothing is counted twice as long as nothing overlaps a stop.  *)
(***************************************************************************)
EXTENDS Traffic, TLAPS

Inv == TypeOK /\ CleanBank

\* The counter of a run never shows more than what the process moved since its
\* offset was taken, however much it logs between the two system calls.
LEMMA CurrentBounds ==
  ASSUME TypeOK, NEW offset \in Nat, NEW more \in Nat
  PROVE  /\ Current(offset, more) \in Nat
         /\ Current(offset, more) <= Positive(moved + base - offset)
         /\ offset >= moved + logged => Current(offset, more) = 0
<1> USE DEF TypeOK
<1>1. Raw - (logged + more - base) = moved + base - more BY DEF Raw
<1> QED BY <1>1 DEF Current, Positive

\* A step that changes no variable but the ghost ones keeps the types; each
\* action keeps them.
LEMMA TypeStep == TypeOK /\ [Next]_vars => TypeOK'
<1> SUFFICES ASSUME TypeOK, [Next]_vars PROVE TypeOK'
  OBVIOUS
<1> USE BoundAssumption DEF TypeOK
<1>1. CASE Start BY <1>1 DEF Start, StartRun, seen, TypeOK
<1>2. CASE Move BY <1>2 DEF Move, seen, TypeOK
<1>3. CASE Log BY <1>3 DEF Log, seen, TypeOK
<1>4. CASE Read
  <2>1. PICK more \in 0 .. MaxLogged - logged :
          lastIO' = Current(ioOffset, more) /\ logged' = logged + more /\ known' = trafficB + lastIO'
    BY <1>4 DEF Read
  <2>2. ioOffset \in Nat /\ more \in Nat BY DEF TypeOK
  <2>3. lastIO' \in Nat BY <2>1, <2>2, CurrentBounds
  <2> QED BY <1>4, <2>1, <2>2, <2>3 DEF Read, run, TypeOK
<1>5. CASE Stop
  <2>1. CASE phase = "up"
    <3>1. PICK more \in 0 .. MaxLogged - logged :
            /\ trafficB' = trafficB + Current(ioOffset, more) /\ logged' = logged + more
            /\ known' = trafficB' /\ UNCHANGED late
      BY <1>5, <2>1 DEF Stop
    <3>2. Current(ioOffset, more) \in Nat BY CurrentBounds, more \in Nat
    <3> QED BY <1>5, <3>1, <3>2 DEF Stop, run, TypeOK
  <2>2. CASE phase # "up"
    <3>1. late' \in BOOLEAN BY <1>5, <2>2, Zenon DEF Stop
    <3> QED BY <1>5, <2>2, <3>1 DEF Stop, run, TypeOK
  <2> QED BY <2>1, <2>2
<1>6. CASE Exit BY <1>6 DEF Exit, run, seen, TypeOK
<1>7. CASE Harvest
  <2>1. stopping' \in BOOLEAN BY <1>7, Zenon DEF Harvest
  <2> QED BY <1>7, <2>1 DEF Harvest, run, seen
<1>8. CASE ResetTraffic
  <2>0. late' \in BOOLEAN BY <1>8, Zenon DEF ResetTraffic
  <2>1. CASE phase = "up"
    <3>1. PICK more \in 0 .. MaxLogged - logged : lastIO' = Current(Raw, more) /\ logged' = logged + more
      BY <1>8, <2>1 DEF ResetTraffic
    <3>2. Raw \in Nat BY DEF Raw
    <3>3. lastIO' \in Nat BY <3>1, <3>2, CurrentBounds
    <3> QED BY <1>8, <2>0, <2>1, <3>1, <3>2, <3>3 DEF ResetTraffic, TypeOK
  <2>2. CASE phase # "up"
    <3>1. disturbed' \in BOOLEAN BY <1>8, Zenon DEF ResetTraffic
    <3> QED BY <1>8, <2>0, <2>2, <3>1 DEF ResetTraffic, StartRun, run
  <2> QED BY <2>1, <2>2
<1>9. CASE UNCHANGED vars BY <1>9 DEF vars, TypeOK
<1> QED BY <1>1, <1>2, <1>3, <1>4, <1>5, <1>6, <1>7, <1>8, <1>9 DEF Next

\* Every action keeps the bank clean.
LEMMA BankStep == Inv /\ [Next]_vars => CleanBank'
<1> SUFFICES ASSUME Inv, [Next]_vars PROVE CleanBank'
  OBVIOUS
<1> USE BoundAssumption DEF Inv, TypeOK
<1>1. CASE Start BY <1>1 DEF Start, StartRun, CleanBank, Positive
<1>2. CASE Move BY <1>2 DEF Move, CleanBank, Positive
<1>3. CASE Log BY <1>3 DEF Log, CleanBank, Positive
<1>4. CASE Read
  <2>1. PICK more \in 0 .. MaxLogged - logged : lastIO' = Current(ioOffset, more)
    BY <1>4 DEF Read
  <2>2. lastIO' \in Nat /\ lastIO' <= Positive(moved + base - ioOffset) BY <2>1, CurrentBounds
  <2>3. Positive(moved + base - ioOffset) \in Nat BY DEF Positive
  <2> QED BY <1>4, <2>2, <2>3 DEF Read, run, CleanBank
<1>5. CASE Stop
  <2>1. CASE phase = "up"
    <3>1. PICK more \in 0 .. MaxLogged - logged : trafficB' = trafficB + Current(ioOffset, more)
      BY <1>5, <2>1 DEF Stop
    <3>2. /\ Current(ioOffset, more) \in Nat
          /\ Current(ioOffset, more) <= Positive(moved + base - ioOffset)
      BY CurrentBounds
    <3>3. Positive(moved + base - ioOffset) \in Nat BY DEF Positive
    <3>4. ~ disturbed' => trafficB' <= due BY <1>5, <2>1, <3>1, <3>2, <3>3 DEF Stop, CleanBank
    <3> QED BY <1>5, <2>1, <3>1, <3>2, <3>4 DEF Stop, run, CleanBank
  <2>2. CASE phase # "up" BY <1>5, <2>2 DEF Stop, run, CleanBank
  <2> QED BY <2>1, <2>2
<1>6. CASE Exit BY <1>6 DEF Exit, run, CleanBank
<1>7. CASE Harvest BY <1>7 DEF Harvest, run, CleanBank
<1>8. CASE ResetTraffic
  <2>1. CASE phase = "up"
    <3>1. PICK more \in 0 .. MaxLogged - logged : lastIO' = Current(Raw, more)
      BY <1>8, <2>1 DEF ResetTraffic
    <3>2. Raw \in Nat /\ Raw = moved + logged BY DEF Raw
    <3>3. lastIO' = 0 BY <3>1, <3>2, CurrentBounds
    <3> QED BY <1>8, <2>1, <3>2, <3>3 DEF ResetTraffic, CleanBank, Positive
  <2>2. CASE phase # "up" BY <1>8, <2>2 DEF ResetTraffic, StartRun, run, CleanBank, Positive
  <2> QED BY <2>1, <2>2
<1>9. CASE UNCHANGED vars BY <1>9 DEF vars, CleanBank
<1> QED BY <1>1, <1>2, <1>3, <1>4, <1>5, <1>6, <1>7, <1>8, <1>9 DEF Next

\* Every action keeps what a reading has shown.
LEMMA KeptStep == TypeOK /\ NoUndercount /\ [Next]_vars => NoUndercount'
<1> SUFFICES ASSUME TypeOK, NoUndercount, [Next]_vars PROVE NoUndercount'
  OBVIOUS
<1> USE BoundAssumption DEF TypeOK, NoUndercount
<1>1. CASE Start BY <1>1 DEF Start, StartRun, seen
<1>2. CASE Move BY <1>2 DEF Move, seen
<1>3. CASE Log BY <1>3 DEF Log, seen
<1>4. CASE Read
  <2>1. PICK more \in 0 .. MaxLogged - logged : lastIO' = Current(ioOffset, more)
    BY <1>4 DEF Read
  <2>2. lastIO' \in Nat BY <2>1, CurrentBounds
  <2> QED BY <1>4, <2>2 DEF Read
<1>5. CASE Stop
  <2>1. CASE phase = "up"
    <3>1. PICK more \in 0 .. MaxLogged - logged : trafficB' = trafficB + Current(ioOffset, more)
      BY <1>5, <2>1 DEF Stop
    <3>2. Current(ioOffset, more) \in Nat BY CurrentBounds
    <3> QED BY <1>5, <2>1, <3>1, <3>2 DEF Stop
  <2>2. CASE phase # "up"
    <3>1. ~ late' => ~ late /\ ~ (lastIO > 0) BY <1>5, <2>2, Zenon DEF Stop
    <3>2. /\ phase = "exited" /\ phase' = phase
          /\ trafficB' = trafficB /\ known' = known /\ lastIO' = 0
      BY <1>5, <2>2 DEF Stop
    <3> QED BY <3>1, <3>2
  <2> QED BY <2>1, <2>2
<1>6. CASE Exit BY <1>6 DEF Exit, seen
<1>7. CASE Harvest BY <1>7 DEF Harvest, seen
<1>8. CASE ResetTraffic
  <2>1. CASE phase = "up"
    <3>1. lastIO' \in Nat
      <4>1. PICK more \in 0 .. MaxLogged - logged : lastIO' = Current(Raw, more)
        BY <1>8, <2>1 DEF ResetTraffic
      <4> QED BY <4>1, Raw \in Nat, CurrentBounds DEF Raw
    <3>2. trafficB' = 0 /\ phase' = "up" BY <1>8, <2>1 DEF ResetTraffic
    <3>3. known' = lastIO' BY <1>8, <2>1 DEF ResetTraffic
    <3>4. lastIO' >= known' BY <3>1, <3>3
    <3> QED BY <3>1, <3>2, <3>4
  <2>2. CASE phase # "up"
    <3>1. trafficB' = 0 /\ lastIO' \in Nat
      BY <1>8, <2>2 DEF ResetTraffic, StartRun, run
    <3>2. known' = 0 \/ (known' = lastIO' /\ phase' = "up")
      BY <1>8, <2>2 DEF ResetTraffic, StartRun, run
    <3> QED BY <3>1, <3>2
  <2> QED BY <2>1, <2>2
<1>9. CASE UNCHANGED vars BY <1>9 DEF vars
<1> QED BY <1>1, <1>2, <1>3, <1>4, <1>5, <1>6, <1>7, <1>8, <1>9 DEF Next

\* The types and the clean bank hold at first.
LEMMA AccountInit == Init => Inv /\ NoUndercount
<1> SUFFICES ASSUME Init PROVE Inv /\ NoUndercount
  OBVIOUS
<1>1. stopping \in BOOLEAN /\ disturbed \in BOOLEAN /\ late \in BOOLEAN /\ ~ stopping BY Zenon DEF Init
<1> QED BY <1>1 DEF Init, Inv, TypeOK, CleanBank, NoUndercount

\* In every behaviour of the accounting, whatever the limit, the variables keep
\* their types: no reading and no offset ever makes the traffic negative.
THEOREM TrafficTypes == Spec => []TypeOK
<1>1. Init => TypeOK BY AccountInit DEF Inv
<1> QED BY <1>1, TypeStep, PTL DEF Spec

\* In every behaviour of the accounting, whatever the limit: without an overlap
\* the bank and the run's delta together never exceed what the session moved
\* (startLocked, stopLocked, the exit goroutine, ResetTraffic).
THEOREM NothingCountedTwice == Spec => []NoOvercount
<1>1. Inv /\ [Next]_vars => Inv' BY TypeStep, BankStep DEF Inv
<1>2. Inv => NoOvercount
  <2> SUFFICES ASSUME Inv PROVE NoOvercount
    OBVIOUS
  <2> QED BY DEF Inv, TypeOK, CleanBank, NoOvercount
<1>3. Init => Inv BY AccountInit
<1> QED BY <1>1, <1>2, <1>3, PTL DEF Spec

\* In every behaviour of the accounting, whatever overlaps: what a reading has
\* shown is kept by crashes, stops and harvests until the next reset, but for a
\* stop that finds the process dead (currentTrafficLocked, stopLocked).
THEOREM NothingForgotten == Spec => []NoUndercount
<1>1. Init => TypeOK /\ NoUndercount BY AccountInit DEF Inv
<1>2. TypeOK /\ NoUndercount /\ [Next]_vars => (TypeOK /\ NoUndercount)'
  BY TypeStep, KeptStep
<1> QED BY <1>1, <1>2, PTL DEF Spec

\* A step never takes anything of the bank away, unless it is a reset.
LEMMA BankGrowsStep ==
  TypeOK /\ [Next]_vars => [trafficB' < trafficB => ResetTraffic]_vars
<1> SUFFICES ASSUME TypeOK, Next, ~ ResetTraffic PROVE ~ (trafficB' < trafficB)
  OBVIOUS
<1> USE DEF TypeOK
<1>1. CASE Start BY <1>1 DEF Start
<1>2. CASE Move BY <1>2 DEF Move
<1>3. CASE Log BY <1>3 DEF Log
<1>4. CASE Read BY <1>4 DEF Read
<1>5. CASE Stop
  <2>1. CASE phase = "up"
    <3>1. PICK more \in 0 .. MaxLogged - logged : trafficB' = trafficB + Current(ioOffset, more)
      BY <1>5, <2>1 DEF Stop
    <3>2. Current(ioOffset, more) \in Nat BY CurrentBounds, BoundAssumption
    <3> QED BY <3>1, <3>2
  <2>2. CASE phase # "up" BY <1>5, <2>2 DEF Stop
  <2> QED BY <2>1, <2>2
<1>6. CASE Exit BY <1>6 DEF Exit
<1>7. CASE Harvest BY <1>7 DEF Harvest
<1> QED BY <1>1, <1>2, <1>3, <1>4, <1>5, <1>6, <1>7 DEF Next

\* In every behaviour of the accounting no start, stop or crash takes anything of
\* earlier runs out of the bank.
THEOREM BankNeverShrinks == Spec => BankGrows
<1>1. Init => TypeOK BY AccountInit DEF Inv
<1> QED BY <1>1, TypeStep, BankGrowsStep, PTL DEF Spec, BankGrows
=============================================================================
