------------------------------ MODULE Install ------------------------------
(***************************************************************************)
(* What a self-update promises: the machine always has a whole executable, *)
(* it is replaced in one step and only by a verified release newer than the *)
(* program that runs.  Only after that is an instance started, of what was  *)
(* installed or, where the path of a program follows its file, of the old   *)
(* program again; and only after that does this one leave.                  *)
(***************************************************************************)
CONSTANTS
  First,  \* the program that runs
  Newer,  \* the releases that are newer
  None

VARIABLES installed, started, leaving, follows

Init == installed = First /\ started = None /\ leaving = FALSE /\ follows \in BOOLEAN

Replace == installed' \in Newer /\ UNCHANGED <<started, leaving, follows>>

Start ==
  /\ installed \in Newer
  /\ started' = IF follows THEN First ELSE installed
  /\ UNCHANGED <<installed, leaving, follows>>

Leave == started # None /\ leaving' = TRUE /\ UNCHANGED <<installed, started, follows>>

Next == Replace \/ Start \/ Leave

vars == <<installed, started, leaving, follows>>

Spec == Init /\ [][Next]_vars
=============================================================================
