----------------------------- MODULE MCHandoff -----------------------------
(* Instances of Handoff for TLC: the second start brings a new core. *)
EXTENDS Handoff
Cores == <<2, 3>>

\* the user wants the session
OnSpec == Init /\ wish = "on" /\ [][Next]_vars
=============================================================================
