----------------------------- MODULE AtomicFile -----------------------------
(***************************************************************************)
(* What saving sessions.json promises to several writers that may die: each *)
(* save puts the record its writer holds into the file, in one step and     *)
(* complete, or leaves the file as it was.  The writer's record does not    *)
(* change meanwhile.  The promise is void once two of them have overlapped.  *)
(***************************************************************************)
CONSTANTS
  Writers,
  Records,  \* what a writer may hold and a reader accepts
  Contents  \* what a file may hold

VARIABLES
  file,
  held,     \* the record of each writer
  writing,  \* whether it is saving
  mixed     \* two writers have been saving at the same time

vars == <<file, held, writing, mixed>>

Load(i) ==
  /\ ~ writing[i] /\ file \in Records
  /\ held' = [held EXCEPT ![i] = file]
  /\ UNCHANGED <<file, writing, mixed>>

\* an edit, or none, and its save
Begin(i) ==
  /\ ~ writing[i] /\ writing' = [writing EXCEPT ![i] = TRUE]
  /\ \E r \in Records : held' = [held EXCEPT ![i] = r]
  /\ UNCHANGED <<file, mixed>>

Done(i) == writing[i] /\ writing' = [writing EXCEPT ![i] = FALSE] /\ UNCHANGED <<held, mixed>>
Spoilt == mixed /\ file' \in Contents

Put(i) == Done(i) /\ (file' = held[i] \/ Spoilt)

\* the save fails, or its writer dies
Abandon(i) == Done(i) /\ (file' = file \/ Spoilt)

Mix(i) ==
  /\ writing[i] /\ \E j \in Writers \ {i} : writing[j]
  /\ mixed' = TRUE /\ UNCHANGED <<file, held, writing>>

Spoil(i) == writing[i] /\ Spoilt /\ UNCHANGED <<held, writing, mixed>>

Init ==
  /\ file \in Contents /\ mixed \in BOOLEAN /\ (~ mixed => file \in Records)
  /\ held \in [Writers -> Records] /\ writing = [i \in Writers |-> FALSE]

Next == \E i \in Writers : Load(i) \/ Begin(i) \/ Put(i) \/ Abandon(i) \/ Mix(i) \/ Spoil(i)

Spec == Init /\ [][Next]_vars
=============================================================================
