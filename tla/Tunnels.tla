------------------------------ MODULE Tunnels ------------------------------
(***************************************************************************)
(* What the session manager promises of its tunnels and of sessions.json:  *)
(*  - a core process is started for a session that sessions.json holds when *)
(*    it starts, with the room and the key stored there, and only when no   *)
(*    other one of that session runs; until it ends it keeps them           *)
(*  - a session leaves sessions.json only by being deleted, and never comes *)
(*    back; its processes are then outside the promise                      *)
(*  - nothing is started or stored once fzp has exited                      *)
(***************************************************************************)
CONSTANTS
  Ids, Slots,   \* sessions, and process handles of each
  Rooms, Keys,  \* what a process is started with
  None

Procs == Ids \X Slots
Saved == [enabled: BOOLEAN, limited: BOOLEAN, room: Rooms, key: Keys]
Confs == [room: Rooms, key: Keys]

VARIABLES
  saved,    \* the record sessions.json holds of each session, or None
  removed,  \* the sessions that were deleted
  core,     \* the room and key each running process was started with, or None
  ended     \* fzp has exited

vars == <<saved, removed, core, ended>>

RunsNone(id) == \A p \in Procs : p[1] = id => core[p] = None

\* sessions.json is written, perhaps with what it held before
Save ==
  /\ saved' \in [Ids -> Saved \cup {None}]
  /\ \A id \in Ids : saved'[id] = None => saved[id] = None \/ id \in removed'
  /\ \A id \in removed' : saved'[id] = None

Write == ~ ended /\ Save /\ UNCHANGED <<removed, core, ended>>

\* processes of different sessions are started, and the records saved
Open(up) ==
  /\ ~ ended /\ Save
  /\ \A p \in up : RunsNone(p[1]) /\ saved'[p[1]] # None
  /\ \A p, q \in up : p[1] = q[1] => p = q
  /\ core' = [p \in Procs |->
                IF p \in up THEN [room |-> saved'[p[1]].room, key |-> saved'[p[1]].key]
                ELSE core[p]]
  /\ UNCHANGED <<removed, ended>>

\* a process ends, whatever ends it
Close(p) ==
  /\ core[p] # None
  /\ core' = [core EXCEPT ![p] = None]
  /\ UNCHANGED <<saved, removed, ended>>

Remove(id) ==
  /\ ~ ended /\ removed' = removed \cup {id} /\ Save
  /\ core' = [p \in Procs |-> IF p[1] = id THEN None ELSE core[p]]
  /\ UNCHANGED ended

End == ~ ended /\ ended' = TRUE /\ Save /\ UNCHANGED <<removed, core>>

Init ==
  /\ saved \in [Ids -> Saved \cup {None}] /\ removed = {}
  /\ core = [p \in Procs |-> None] /\ ended = FALSE

Next ==
  \/ Write \/ End
  \/ \E up \in SUBSET Procs : Open(up)
  \/ \E p \in Procs : Close(p)
  \/ \E id \in Ids : Remove(id)

Spec == Init /\ [][Next]_vars
=============================================================================
