----------------------------- MODULE MCSession -----------------------------
(* Small instances of SessionManager for TLC. *)
EXTENDS SessionManager, TLC
CONSTANTS a, b, r1, r2, k1, k2, c1, c2

\* the first run of fzp: no sessions.json yet
FirstRun == Init /\ Live = {}
FirstSpec == FirstRun /\ [][Next]_vars

\* the two requests differ in nothing but their name
ClientSymmetry == Permutations({c1, c2})
=============================================================================
