------------------------------ MODULE MCUpdate ------------------------------
(* Small instances of SelfUpdate for TLC. *)
EXTENDS SelfUpdate
CONSTANTS web, console, i1, i2, i3, i4

\* v1.1 runs; a maintenance release of 1.0 may be the latest one, and a tag
\* may have more numbers than a version
Fzp11 == <<1, 1>>
Tags == {<<1, 0, 9>>, <<1, 1, 1>>, <<2>>}
OneTag == {<<1, 2>>}
=============================================================================
