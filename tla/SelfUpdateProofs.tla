-------------------------- MODULE SelfUpdateProofs --------------------------
(***************************************************************************)
(* For any number of calls of Apply, on every system, the variables of      *)
(* SelfUpdate keep their types.  For calls that do not overlap, whatever    *)
(* fails and wherever the program dies: a whole program is left, nothing    *)
(* but a verified release newer than the running one takes the place of an  *)
(* executable, what one call installed no later one disturbs, and an        *)
(* update is the one step that Install promises.                            *)
(***************************************************************************)
EXTENDS SelfUpdate, TLAPS

Versions == Newer \cup {Running, None}
Dirs == [Paths -> Inodes \cup {None}]
Tmps == [Releases -> Inodes \cup {None}]

\* What Checked says of a known release: available only if it is newer.
LEMMA CheckedAvailable ==
  ASSUME NEW i \in Checked, i.available
  PROVE  i.latest \in Newer
<1>1. i # Unknown BY DEF Unknown
<1>2. PICK tag \in Releases : i \in check(tag) BY <1>1 DEF Checked
<1>3. PICK known \in BOOLEAN : i = [latest |-> tag, available |-> newer(tag, Running), sha256 |-> known]
  BY <1>2 DEF check
<1> QED BY <1>3 DEF Newer

\* A release is no None.
LEMMA NewerFacts == Newer \subseteq Releases /\ None \notin Newer \cup {Running}
BY VersionAssumption DEF Newer

\* The path of a call, and the one after it, are names of the model.
LEMMA PathType ==
  ASSUME TypeOK, NEW a \in Appliers
  PROVE  path[a] \in Paths /\ path[a] + 1 \in Paths /\ path[a] \in Nat /\ path[a] # path[a] + 1
BY SystemAssumption DEF TypeOK, Paths

\* What a call at work wants has a name for its download.
LEMMA WantType ==
  ASSUME TypeOK, NEW a \in Appliers, pc[a] # "idle"
  PROVE  want[a] \in Releases /\ want[a] \in Newer /\ tmp[want[a]] \in Inodes \cup {None}
BY NewerFacts DEF TypeOK

\* The clean-up of a failed call keeps the type of tmp.
LEMMA DiscardType ==
  ASSUME TypeOK, NEW a \in Appliers, Discard(a)
  PROVE  tmp' \in Tmps
BY DEF Discard, TypeOK, Tmps

\* Removing a name, or failing to, keeps the type of dir.
LEMMA RemoveType ==
  ASSUME TypeOK, NEW p \in Paths, Remove(p)
  PROVE  dir' \in Dirs
BY DEF Remove, TypeOK, Dirs

\* Renaming keeps the types of dir and of the program's own path.
LEMMA MoveType ==
  ASSUME TypeOK, NEW p \in Paths, NEW q \in Paths, Move(p, q)
  PROVE  dir' \in Dirs /\ self' \in Paths
BY DEF Move, TypeOK, Dirs

\* The step a call goes to.
LEMMA GotoType ==
  ASSUME TypeOK, NEW a \in Appliers, NEW s \in Steps, Goto(a, s)
  PROVE  pc' \in [Appliers -> Steps]
BY DEF Goto, TypeOK

\* No step of a call makes it idle, so it keeps the release it wants.
LEMMA WantKept ==
  ASSUME TypeOK, NEW a \in Appliers, pc[a] # "idle", NEW s, Goto(a, s), want' = want
  PROVE  \A b \in Appliers : pc'[b] = "idle" \/ want'[b] # None
BY DEF Goto, TypeOK

\* A step of a call keeps the types if it keeps those of the files.
LEMMA CallTypes ==
  ASSUME TypeOK, NEW a \in Appliers, pc[a] # "idle", NEW s \in Steps, Goto(a, s),
         dir' \in Dirs, tmp' \in Tmps, self' \in Paths, content' \in [Inodes -> Versions],
         writer' \in [Inodes -> Appliers \cup {None}], fd' \in [Appliers -> Inodes \cup {None}],
         launched' \in Versions, UNCHANGED <<path, want, system, info, stopping, alive>>
  PROVE  TypeOK'
<1>1. pc' \in [Appliers -> Steps] BY GotoType
<1>2. \A b \in Appliers : pc'[b] = "idle" \/ want'[b] # None BY WantKept
<1>3. stopping' \in BOOLEAN /\ alive' \in BOOLEAN BY Zenon DEF TypeOK
<1> QED BY <1>1, <1>2, <1>3 DEF TypeOK, Dirs, Tmps, Versions

\* Every action keeps the types.
LEMMA TypeStep == TypeOK /\ [Next]_vars => TypeOK'
<1> SUFFICES ASSUME TypeOK, [Next]_vars PROVE TypeOK'
  OBVIOUS
<1>t. /\ dir \in Dirs /\ tmp \in Tmps /\ self \in Paths /\ content \in [Inodes -> Versions]
      /\ writer \in [Inodes -> Appliers \cup {None}] /\ fd \in [Appliers -> Inodes \cup {None}]
      /\ launched \in Versions
  BY DEF TypeOK, Dirs, Tmps, Versions
<1>s. \A s \in {"open", "copy", "chmod", "clear", "aside", "swap", "restore", "drop", "relaunch",
                "failed", "done"} : s \in Steps
  BY DEF Steps, AtRest
<1>1. CASE Refresh
  <2>1. info' \in Checked /\ UNCHANGED <<system, stopping, launched>> /\ alive' = alive
    BY <1>1, Zenon DEF Refresh
  <2> QED BY <1>1, <2>1 DEF Refresh, files, calls, TypeOK
<1>2. ASSUME NEW a \in Appliers, Apply(a) PROVE TypeOK'
  <2>1. info.latest \in Newer /\ info.latest # None BY <1>2, CheckedAvailable, NewerFacts DEF Apply, TypeOK
  <2>2. self \in 0 .. Depth - 1
    BY <1>2, SystemAssumption DEF Apply, runningExecutable, TypeOK, Paths
  <2>3. path' \in [Appliers -> 0 .. Depth - 1] BY <1>2, <2>2 DEF Apply, runningExecutable, TypeOK
  <2>4. pc' \in [Appliers -> Steps] BY <1>2, <1>s, GotoType DEF Apply
  <2>5. /\ want' \in [Appliers -> Newer \cup {None}]
        /\ \A b \in Appliers : pc'[b] = "idle" \/ want'[b] # None
    BY <1>2, <2>1 DEF Apply, Goto, TypeOK
  <2>6. stopping' \in BOOLEAN /\ alive' \in BOOLEAN BY <1>2, Zenon DEF Apply, env, TypeOK
  <2> QED BY <1>2, <2>3, <2>4, <2>5, <2>6 DEF Apply, files, env, TypeOK
<1>3. ASSUME NEW a \in Appliers, Open(a) PROVE TypeOK'
  <2>1. pc[a] # "idle" BY <1>3 DEF Open, At
  <2>2. CASE Goto(a, "failed") /\ UNCHANGED <<files, fd>>
    BY <1>3, <1>t, <1>s, <2>1, <2>2, CallTypes DEF Open, files, env
  <2>3. ASSUME NEW i \in IF tmp[want[a]] = None THEN Free ELSE {tmp[want[a]]},
               Goto(a, "copy"),
               fd' = [fd EXCEPT ![a] = i],
               tmp' = [tmp EXCEPT ![want[a]] = i],
               content' = [content EXCEPT ![i] = None],
               writer' = [writer EXCEPT ![i] = a],
               UNCHANGED <<dir, self>>
        PROVE  TypeOK'
    <3>1. i \in Inodes BY <2>1, <2>3, WantType DEF Free
    <3>2. tmp' \in Tmps /\ fd' \in [Appliers -> Inodes \cup {None}] BY <1>t, <2>3, <3>1 DEF Tmps
    <3>3. content' \in [Inodes -> Versions] BY <1>t, <2>3 DEF Versions
    <3>4. writer' \in [Inodes -> Appliers \cup {None}] BY <1>t, <2>3
    <3> QED BY <1>3, <1>t, <1>s, <2>1, <2>3, <3>2, <3>3, <3>4, CallTypes DEF Open, env
  <2> QED BY <1>3, <2>2, <2>3 DEF Open
<1>4. ASSUME NEW a \in Appliers, Copy(a) PROVE TypeOK'
  <2>1. pc[a] # "idle" BY <1>4 DEF Copy, At
  <2>2. fd' \in [Appliers -> Inodes \cup {None}] BY <1>4, <1>t DEF Copy
  <2>3. CASE /\ Goto(a, "chmod") /\ UNCHANGED tmp
             /\ content' = IF writer[fd[a]] = a THEN [content EXCEPT ![fd[a]] = want[a]] ELSE content
    <3>1. content' \in [Inodes -> Versions] BY <1>t, <2>1, <2>3, WantType DEF Versions
    <3> QED BY <1>4, <1>t, <1>s, <2>1, <2>2, <2>3, <3>1, CallTypes DEF Copy, env
  <2>4. CASE Goto(a, "failed") /\ Discard(a) /\ UNCHANGED content
    BY <1>4, <1>t, <1>s, <2>1, <2>2, <2>4, DiscardType, CallTypes DEF Copy, env
  <2> QED BY <1>4, <2>3, <2>4 DEF Copy
<1>5. ASSUME NEW a \in Appliers, Chmod(a) PROVE TypeOK'
  <2>1. pc[a] # "idle" BY <1>5 DEF Chmod, At
  <2>2. tmp' \in Tmps BY <1>5, <1>t, DiscardType DEF Chmod
  <2>3. CASE Goto(a, "clear") BY <1>5, <1>t, <1>s, <2>1, <2>2, <2>3, CallTypes DEF Chmod, env
  <2>4. CASE Goto(a, "failed") BY <1>5, <1>t, <1>s, <2>1, <2>2, <2>4, CallTypes DEF Chmod, env
  <2> QED BY <1>5, <2>3, <2>4 DEF Chmod
<1>6. ASSUME NEW a \in Appliers, ClearOld(a) PROVE TypeOK'
  <2>1. pc[a] # "idle" BY <1>6 DEF ClearOld, At
  <2>2. dir' \in Dirs BY <1>6, PathType, RemoveType DEF ClearOld
  <2> QED BY <1>6, <1>t, <1>s, <2>1, <2>2, CallTypes DEF ClearOld, env
<1>7. ASSUME NEW a \in Appliers, MoveAside(a) PROVE TypeOK'
  <2>1. pc[a] # "idle" BY <1>7 DEF MoveAside, At
  <2>2. CASE Goto(a, "swap") /\ Move(path[a], path[a] + 1) /\ UNCHANGED tmp
    <3>1. dir' \in Dirs /\ self' \in Paths BY <2>2, PathType, MoveType
    <3> QED BY <1>7, <1>t, <1>s, <2>1, <2>2, <3>1, CallTypes DEF MoveAside, env
  <2>3. CASE Goto(a, "failed") /\ Discard(a) /\ UNCHANGED <<dir, self>>
    BY <1>7, <1>t, <1>s, <2>1, <2>3, DiscardType, CallTypes DEF MoveAside, env
  <2> QED BY <1>7, <2>2, <2>3 DEF MoveAside
<1>8. ASSUME NEW a \in Appliers, Swap(a) PROVE TypeOK'
  <2>1. pc[a] # "idle" BY <1>8 DEF Swap, At
  <2>2. CASE /\ MaySwap(a) /\ Goto(a, "drop")
             /\ dir' = [dir EXCEPT ![path[a]] = tmp[want[a]]]
             /\ tmp' = [tmp EXCEPT ![want[a]] = None]
    <3>1. dir' \in Dirs /\ tmp' \in Tmps BY <1>t, <2>1, <2>2, WantType DEF Dirs, Tmps
    <3> QED BY <1>8, <1>t, <1>s, <2>1, <2>2, <3>1, CallTypes DEF Swap, env
  <2>3. CASE Goto(a, "restore") /\ UNCHANGED <<dir, tmp>>
    BY <1>8, <1>t, <1>s, <2>1, <2>3, CallTypes DEF Swap, env
  <2> QED BY <1>8, <2>2, <2>3 DEF Swap
<1>9. ASSUME NEW a \in Appliers, Restore(a) PROVE TypeOK'
  <2>1. pc[a] # "idle" BY <1>9 DEF Restore, At
  <2>2. dir' \in Dirs /\ self' \in Paths BY <1>9, <1>t, PathType, MoveType DEF Restore
  <2> QED BY <1>9, <1>t, <1>s, <2>1, <2>2, CallTypes DEF Restore, env
<1>10. ASSUME NEW a \in Appliers, DropOld(a) PROVE TypeOK'
  <2>1. pc[a] # "idle" BY <1>10 DEF DropOld, At
  <2>2. dir' \in Dirs BY <1>10, PathType, RemoveType DEF DropOld
  <2> QED BY <1>10, <1>t, <1>s, <2>1, <2>2, CallTypes DEF DropOld, env
<1>11. ASSUME NEW a \in Appliers, Relaunch(a) PROVE TypeOK'
  <2>1. pc[a] # "idle" BY <1>11 DEF Relaunch, At
  <2>2. CASE /\ Starts(dir[self]) /\ Goto(a, "done") /\ launched' = content[dir[self]]
    <3>1. launched' \in Versions BY <1>t, <2>2 DEF Starts, Whole, Dirs
    <3> QED BY <1>11, <1>t, <1>s, <2>1, <2>2, <3>1, CallTypes DEF Relaunch, files
  <2>3. CASE Goto(a, "failed") /\ UNCHANGED launched
    BY <1>11, <1>t, <1>s, <2>1, <2>3, CallTypes DEF Relaunch, files
  <2> QED BY <1>11, <2>2, <2>3 DEF Relaunch, runningExecutable
<1>12. ASSUME NEW a \in Appliers, AskShutdown(a) PROVE TypeOK'
  <2>1. stopping' \in BOOLEAN /\ alive' \in BOOLEAN BY <1>12, Zenon DEF AskShutdown, TypeOK
  <2> QED BY <1>12, <2>1 DEF AskShutdown, files, calls, TypeOK
<1>13. CASE Exit
  <2>1. stopping' \in BOOLEAN /\ alive' \in BOOLEAN BY <1>13, Zenon DEF Exit, TypeOK
  <2> QED BY <1>13, <2>1 DEF Exit, files, calls, TypeOK
<1>14. CASE UNCHANGED vars
  <2>1. stopping' \in BOOLEAN /\ alive' \in BOOLEAN BY <1>14, Zenon DEF vars, env, TypeOK
  <2> QED BY <1>14, <2>1 DEF vars, files, calls, env, TypeOK
<1> QED BY <1>1, <1>2, <1>3, <1>4, <1>5, <1>6, <1>7, <1>8, <1>9, <1>10, <1>11, <1>12, <1>13, <1>14
        DEF Next, Step, Exited

\* The states Apply may start from are well-typed.
LEMMA TypeInit == Init => TypeOK
<1> SUFFICES ASSUME Init PROVE TypeOK
  OBVIOUS
<1>1. dir \in Dirs /\ self \in Paths BY InodeAssumption, SystemAssumption DEF Init, Dirs, Paths
<1>2. tmp \in Tmps BY DEF Init, Tmps
<1>3. info \in Checked BY DEF Init, Checked
<1>4. stopping \in BOOLEAN /\ alive \in BOOLEAN BY Zenon DEF Init
<1>5. path \in [Appliers -> 0 .. Depth - 1] BY SystemAssumption DEF Init
<1> QED BY <1>1, <1>2, <1>3, <1>4, <1>5 DEF Init, TypeOK, Steps, AtRest, Dirs, Tmps

\* However many calls of Apply run at once, and whatever fails, every variable
\* keeps its type.
THEOREM UpdateTypes == Spec => []TypeOK
<1> QED BY TypeInit, TypeStep, PTL DEF Spec

---------------------------------------------------------------------------
(* One call at a time                                                      *)

\* The program's own path: never another one but on Linux, where it leads to
\* the file that runs, or nowhere, and what it left behind is an update.
SelfKept ==
  /\ system # "linux" => self = 0
  /\ system = "linux" =>
       /\ dir[self] \in {Original, None}
       /\ \A p \in Paths : dir[p] = Original => p = self
       /\ \A p \in Paths : p < self /\ dir[p] # None => content[dir[p]] \in Later

\* What Windows does not let go of.
InUseKept == system = "windows" => Original \in {dir[0], dir[1]}

\* A download has one name.
TmpKept == \A r \in Releases : tmp[r] # None =>
  /\ tmp[r] # Original
  /\ \A p \in Paths : tmp[r] # dir[p]
  /\ \A s \in Releases : tmp[s] = tmp[r] => s = r

\* The executables are whole and verified.
FilesKept ==
  /\ content[Original] = Running
  /\ \A p \in Paths : dir[p] # None => content[dir[p]] \in Later \cup {Running}

HasLowest == \E p \in Paths : IsLowest(dir, p)

Kept == SelfKept /\ InUseKept /\ TmpKept /\ FilesKept /\ HasLowest

\* What a call has in hand at each of its steps.
OneCall(a) ==
  /\ pc[a] = "copy" <=> fd[a] # None
  /\ pc[a] = "copy" => fd[a] = tmp[want[a]] /\ writer[fd[a]] = a
  /\ pc[a] \notin AtRest => want[a] \in Later
  /\ pc[a] \in {"chmod", "clear", "aside", "swap"} => tmp[want[a]] # None /\ content[tmp[want[a]]] = want[a]
  /\ pc[a] \in {"open", "copy", "chmod", "clear", "aside"} => path[a] = self /\ dir[self] # None
  /\ pc[a] \in {"swap", "restore"} => dir[path[a]] = None /\ dir[path[a] + 1] # None
  /\ pc[a] \in {"drop", "relaunch"} => dir[path[a]] # None /\ content[dir[path[a]]] \in Later
  /\ pc[a] \in {"swap", "restore", "drop", "relaunch"} =>
       self = IF system = "linux" THEN path[a] + 1 ELSE path[a]
  /\ pc[a] = "done" => launched # None

OneCallInv == Kept /\ \A a \in Appliers : OneCall(a)

StaysStep == Settled => dir'[0] = dir[0] /\ content'[dir[0]] = content[dir[0]]

StepGoal == OneCallInv' /\ [Promise!Next]_(Promise!vars) /\ StaysStep

\* A tag that newer accepts comes after the running version.
LEMMA NewerIsLater ==
  ASSUME NEW tag \in Releases, newer(tag, Running)
  PROVE  tag \in Later
<1> DEFINE v == parseVersion(tag)
           w == parseVersion(Running)
<1>1. PICK i \in 1 .. 3 : v[i] > w[i] /\ \A j \in 1 .. i - 1 : v[j] = w[j] BY DEF newer
<1>2. Len(tag) \in 1 .. 3 /\ Len(Running) \in 1 .. 3 BY DEF newer, Parses
<1> HIDE DEF v, w
<1>3. After(v, w)
  <2>1. CASE i = 1
    <3>1. v[1] > w[1] BY <1>1, <2>1
    <3> QED BY <3>1 DEF After
  <2>2. CASE i = 2
    <3>1. v[1] = w[1] /\ v[2] > w[2] BY <1>1, <2>2
    <3> QED BY <3>1 DEF After
  <2>3. CASE i = 3
    <3>1. v[1] = w[1] /\ v[2] = w[2] /\ v[3] > w[3] BY <1>1, <2>3
    <3> QED BY <3>1 DEF After
  <2> QED BY <2>1, <2>2, <2>3
<1> QED BY <1>2, <1>3 DEF Later, v, w

\* A later version is neither the running one nor none.
LEMMA LaterFacts == Later \subseteq Releases /\ None \notin Later /\ Running \notin Later /\ Running # None
<1>1. Running \notin Later
  <2> DEFINE w == parseVersion(Running)
  <2>1. w \in [1 .. 3 -> Nat] BY VersionAssumption DEF parseVersion
  <2> HIDE DEF w
  <2>2. ~ After(w, w) BY <2>1 DEF After
  <2> QED BY <2>2 DEF Later, w
<1> QED BY <1>1, VersionAssumption DEF Later

\* There is one first name in use at most, and Lowest is it.
LEMMA LowestIs ==
  ASSUME NEW d, NEW q \in Paths, IsLowest(d, q)
  PROVE  Lowest(d) = q
<1>1. \A p \in Paths : IsLowest(d, p) => p = q BY SystemAssumption DEF IsLowest, Paths
<1> QED BY <1>1 DEF Lowest

\* The first name in use where one of two neighbours is.
LEMMA LowestAt ==
  ASSUME NEW d, NEW e, NEW k \in Paths, k + 1 \in Paths, NEW l \in Paths, IsLowest(d, l),
         d[k] # None \/ d[k + 1] # None, e[k] # None \/ e[k + 1] # None,
         \A r \in Paths \ {k, k + 1} : e[r] = d[r]
  PROVE  IsLowest(e, IF l < k THEN l ELSE IF e[k] # None THEN k ELSE k + 1)
<1>1. k \in Nat /\ l \in Nat /\ Paths \subseteq Nat BY DEF Paths
<1>2. l <= k + 1 BY <1>1 DEF IsLowest
<1>3. CASE l < k BY <1>1, <1>3 DEF IsLowest
<1>4. CASE ~ (l < k)
  <2>1. \A r \in Paths : r < k => d[r] = None BY <1>1, <1>4 DEF IsLowest
  <2>2. \A r \in Paths : r < k => e[r] = None BY <1>1, <2>1
  <2> QED BY <1>1, <1>4, <2>2 DEF IsLowest
<1> QED BY <1>3, <1>4

\* The steps of Install in the terms of SelfUpdate.
LEMMA PromiseSteps ==
  ASSUME UNCHANGED system
  PROVE  /\ UNCHANGED <<Installed, launched, stopping>> => [Promise!Next]_(Promise!vars)
         /\ Installed' \in Later /\ UNCHANGED <<launched, stopping>> => [Promise!Next]_(Promise!vars)
         /\ /\ Installed \in Later /\ launched' = IF system = "linux" THEN Running ELSE Installed
            /\ UNCHANGED <<Installed, stopping>>
            => [Promise!Next]_(Promise!vars)
         /\ launched # None /\ stopping' = TRUE /\ UNCHANGED <<Installed, launched>>
            => [Promise!Next]_(Promise!vars)
<1>1. (system = "linux")' <=> (system = "linux") OBVIOUS
<1> QED BY <1>1, Zenon DEF Promise!Next, Promise!vars, Promise!Replace, Promise!Start, Promise!Leave

\* While one call runs, the others are at rest and stay there.
LEMMA OthersKept ==
  ASSUME TypeOK, OneAtATime, NEW a \in Appliers, pc[a] \notin AtRest, \A b \in Appliers : OneCall(b),
         NEW s, Goto(a, s), \A b \in Appliers \ {a} : fd'[b] = fd[b],
         launched # None => launched' # None
  PROVE  \A b \in Appliers \ {a} : OneCall(b)'
<1> SUFFICES ASSUME NEW b \in Appliers \ {a} PROVE OneCall(b)'
  OBVIOUS
<1>1. pc[b] \in AtRest BY DEF OneAtATime
<1>2. pc'[b] = pc[b] /\ fd'[b] = fd[b] BY DEF Goto, TypeOK
<1>3. fd[b] = None /\ (pc[b] = "done" => launched # None) BY <1>1 DEF OneCall, AtRest
<1> QED BY <1>1, <1>2, <1>3 DEF OneCall, AtRest

\* A step that leaves the names and their contents alone keeps what is kept.
LEMMA SameFiles ==
  ASSUME TypeOK, Kept, UNCHANGED <<dir, self, system>>,
         content' \in [Inodes -> Versions], tmp' \in Tmps,
         \A p \in Paths : dir[p] # None => content'[dir[p]] = content[dir[p]],
         content'[Original] = content[Original], TmpKept'
  PROVE  Kept' /\ Installed' = Installed /\ StaysStep
<1>1. SelfKept' /\ InUseKept' BY DEF Kept, SelfKept, InUseKept
<1>2. FilesKept' BY DEF Kept, FilesKept
<1>3. HasLowest' BY DEF Kept, HasLowest, IsLowest
<1>4. Installed' = Installed
  <2>1. PICK q \in Paths : IsLowest(dir, q) BY DEF Kept, HasLowest
  <2>2. Lowest(dir) = q BY <2>1, LowestIs
  <2>3. dir[q] # None BY <2>1 DEF IsLowest
  <2> QED BY <2>2, <2>3 DEF Installed, Lowest
<1>5. StaysStep BY SystemAssumption DEF StaysStep, Settled, Paths
<1> QED BY <1>1, <1>2, <1>3, <1>4, <1>5 DEF Kept

\* A step that rearranges two neighbouring names of executables keeps what is
\* kept, and what is installed was or is one of the two if it changes at all.
FirstOf(d, k) == IF d[k] # None THEN d[k] ELSE d[k + 1]
LEMMA TwoNames ==
  ASSUME TypeOK, Kept, NEW k \in Paths, k + 1 \in Paths, UNCHANGED content,
         \A r \in Paths \ {k, k + 1} : dir'[r] = dir[r],
         dir[k] # None \/ dir[k + 1] # None, dir'[k] # None \/ dir'[k + 1] # None,
         \A p \in {k, k + 1} : dir'[p] # None => content[dir'[p]] \in Later \cup {Running},
         SelfKept', InUseKept', TmpKept'
  PROVE  /\ Kept'
         /\ \/ Installed' = Installed
            \/ Installed = content[FirstOf(dir, k)] /\ Installed' = content[FirstOf(dir', k)]
<1>1. FilesKept' BY DEF Kept, FilesKept
<1>2. PICK l \in Paths : IsLowest(dir, l) BY DEF Kept, HasLowest
<1> DEFINE at(d) == IF l < k THEN l ELSE IF d[k] # None THEN k ELSE k + 1
<1>3. at(dir) \in Paths /\ at(dir') \in Paths OBVIOUS
<1>4. IsLowest(dir, at(dir)) BY <1>2, LowestAt
<1>5. IsLowest(dir', at(dir')) BY <1>2, LowestAt
<1>6. HasLowest' BY <1>3, <1>5 DEF HasLowest, IsLowest
<1>7. Lowest(dir) = at(dir) /\ Lowest(dir') = at(dir') BY <1>3, <1>4, <1>5, LowestIs
<1>8. Installed = content[dir[at(dir)]] /\ Installed' = content[dir'[at(dir')]]
  BY <1>7 DEF Installed
<1>9. CASE l < k
  <2>1. dir'[l] = dir[l] BY <1>9 DEF Paths
  <2> QED BY <1>1, <1>6, <1>8, <1>9, <2>1 DEF Kept
<1>10. CASE ~ (l < k) BY <1>1, <1>6, <1>8, <1>10 DEF Kept, FirstOf
<1> QED BY <1>9, <1>10

\* A download that is discarded, or not.
LEMMA DiscardKeeps ==
  ASSUME TypeOK, TmpKept, NEW a \in Appliers, Discard(a) \/ UNCHANGED tmp, UNCHANGED dir
  PROVE  TmpKept' /\ tmp' \in Tmps
<1>1. tmp' \in Tmps BY DiscardType DEF TypeOK, Tmps
<1>2. \A r \in Releases : tmp'[r] \in {tmp[r], None} BY DEF Discard, TypeOK
<1>3. TmpKept' BY <1>2 DEF TmpKept
<1> QED BY <1>1, <1>3

\* A step of a call has reached the goal once its own part is shown.
LEMMA CallGoal ==
  ASSUME TypeOK, OneAtATime, OneCallInv, NEW a \in Appliers, pc[a] \notin AtRest, NEW s, Goto(a, s),
         \A b \in Appliers \ {a} : fd'[b] = fd[b], launched # None => launched' # None,
         Kept', OneCall(a)', [Promise!Next]_(Promise!vars), StaysStep
  PROVE  StepGoal
<1>1. \A b \in Appliers \ {a} : OneCall(b)' BY OthersKept DEF OneCallInv
<1> QED BY <1>1 DEF StepGoal, OneCallInv

\* A download begins in a file that has no other name.
LEMMA OpenKeeps ==
  ASSUME TypeOK, OneAtATime, OneCallInv, NEW a \in Appliers, Open(a)
  PROVE  StepGoal
<1>1. pc[a] = "open" /\ pc[a] \notin AtRest BY DEF Open, At, AtRest
<1>2. OneCall(a) /\ Kept BY DEF OneCallInv
<1>3. UNCHANGED <<dir, self, system, path, want, launched, stopping>> BY DEF Open, env, files
<1>4. CASE Goto(a, "failed") /\ UNCHANGED <<files, fd>>
  <2>1. TmpKept' /\ content' = content /\ tmp' = tmp BY <1>2, <1>4, <1>3 DEF Kept, TmpKept, files
  <2>2. Kept' /\ Installed' = Installed /\ StaysStep
    BY <1>2, <1>3, <2>1, SameFiles DEF TypeOK, Versions, Tmps
  <2>3. [Promise!Next]_(Promise!vars) BY <1>3, <2>2, PromiseSteps
  <2>4. OneCall(a)'
    <3>1. pc'[a] = "failed" /\ fd'[a] = None BY <1>1, <1>2, <1>4 DEF Goto, TypeOK, OneCall
    <3> QED BY <3>1 DEF OneCall, AtRest
  <2> QED BY <1>1, <1>3, <1>4, <2>2, <2>3, <2>4, CallGoal
<1>5. ASSUME NEW i \in IF tmp[want[a]] = None THEN Free ELSE {tmp[want[a]]},
             Goto(a, "copy"),
             fd' = [fd EXCEPT ![a] = i],
             tmp' = [tmp EXCEPT ![want[a]] = i],
             content' = [content EXCEPT ![i] = None],
             writer' = [writer EXCEPT ![i] = a]
      PROVE  StepGoal
  <2>1. want[a] \in Releases /\ tmp[want[a]] \in Inodes \cup {None} BY <1>1, WantType DEF AtRest
  <2>2. i \in Inodes /\ i # None BY <2>1, <1>5, InodeAssumption DEF Free
  <2>3. /\ i # Original /\ \A p \in Paths : i # dir[p]
        /\ \A r \in Releases \ {want[a]} : tmp[r] # i
    <3>1. CASE tmp[want[a]] = None BY <3>1, <1>5 DEF Free, Named
    <3>2. CASE tmp[want[a]] # None BY <3>2, <1>2, <1>5, <2>1 DEF Kept, TmpKept
    <3> QED BY <3>1, <3>2
  <2>4. TmpKept' BY <1>2, <1>3, <1>5, <2>1, <2>2, <2>3 DEF Kept, TmpKept, TypeOK
  <2>5. content' \in [Inodes -> Versions] /\ tmp' \in Tmps
    BY <1>5, <2>1, <2>2 DEF TypeOK, Versions, Tmps
  <2>6. /\ \A p \in Paths : dir[p] # None => content'[dir[p]] = content[dir[p]]
        /\ content'[Original] = content[Original]
    BY <1>5, <2>3, InodeAssumption DEF TypeOK
  <2>7. Kept' /\ Installed' = Installed /\ StaysStep BY <1>2, <1>3, <2>4, <2>5, <2>6, SameFiles
  <2>8. [Promise!Next]_(Promise!vars) BY <1>3, <2>7, PromiseSteps
  <2>9. OneCall(a)'
    <3>1. pc'[a] = "copy" /\ fd'[a] = i /\ tmp'[want[a]] = i /\ writer'[i] = a
      BY <1>5, <2>1, <2>2 DEF Goto, TypeOK
    <3>2. want[a] \in Later /\ path[a] = self /\ dir[self] # None BY <1>1, <1>2 DEF OneCall, AtRest
    <3> QED BY <1>3, <2>2, <3>1, <3>2 DEF OneCall, AtRest
  <2>10. \A b \in Appliers \ {a} : fd'[b] = fd[b] BY <1>5 DEF TypeOK
  <2> QED BY <1>1, <1>3, <1>5, <2>7, <2>8, <2>9, <2>10, CallGoal
<1> QED BY <1>4, <1>5 DEF Open

\* A download that is the only one holds what was received.
LEMMA CopyKeeps ==
  ASSUME TypeOK, OneAtATime, OneCallInv, NEW a \in Appliers, Copy(a)
  PROVE  StepGoal
<1>1. pc[a] = "copy" /\ pc[a] \notin AtRest BY DEF Copy, At, AtRest
<1>2. OneCall(a) /\ Kept BY DEF OneCallInv
<1>3. UNCHANGED <<dir, self, system, path, want, launched, stopping>> BY DEF Copy, env
<1>4. want[a] \in Releases /\ want[a] \in Newer BY <1>1, WantType DEF AtRest
<1>5. fd'[a] = None /\ \A b \in Appliers \ {a} : fd'[b] = fd[b] BY DEF Copy, TypeOK
<1>6. fd[a] = tmp[want[a]] /\ fd[a] # None /\ fd[a] \in Inodes /\ writer[fd[a]] = a
  BY <1>1, <1>2 DEF OneCall, TypeOK
<1>7. CASE Goto(a, "chmod") /\ content' = [content EXCEPT ![fd[a]] = want[a]] /\ UNCHANGED tmp
  <2>1. TmpKept' /\ tmp' \in Tmps BY <1>2, <1>3, <1>7 DEF Kept, TmpKept, TypeOK, Tmps
  <2>2. content' \in [Inodes -> Versions] BY <1>4, <1>7 DEF TypeOK, Versions
  <2>3. /\ \A p \in Paths : dir[p] # None => content'[dir[p]] = content[dir[p]]
        /\ content'[Original] = content[Original]
    BY <1>2, <1>4, <1>6, <1>7, InodeAssumption DEF Kept, TmpKept, TypeOK
  <2>4. Kept' /\ Installed' = Installed /\ StaysStep BY <1>2, <1>3, <2>1, <2>2, <2>3, SameFiles
  <2>5. [Promise!Next]_(Promise!vars) BY <1>3, <2>4, PromiseSteps
  <2>6. OneCall(a)'
    <3>1. pc'[a] = "chmod" /\ tmp'[want[a]] # None /\ content'[tmp'[want[a]]] = want[a]
      BY <1>6, <1>7 DEF Goto, TypeOK
    <3>2. want[a] \in Later /\ path[a] = self /\ dir[self] # None BY <1>1, <1>2 DEF OneCall, AtRest
    <3> QED BY <1>3, <1>5, <3>1, <3>2 DEF OneCall, AtRest
  <2> QED BY <1>1, <1>3, <1>5, <1>7, <2>4, <2>5, <2>6, CallGoal
<1>8. CASE Goto(a, "failed") /\ Discard(a) /\ UNCHANGED content
  <2>1. TmpKept' /\ tmp' \in Tmps BY <1>2, <1>3, <1>8, DiscardKeeps DEF Kept
  <2>2. Kept' /\ Installed' = Installed /\ StaysStep
    BY <1>2, <1>3, <1>8, <2>1, SameFiles DEF TypeOK, Versions
  <2>3. [Promise!Next]_(Promise!vars) BY <1>3, <2>2, PromiseSteps
  <2>4. OneCall(a)'
    <3>1. pc'[a] = "failed" BY <1>8 DEF Goto, TypeOK
    <3> QED BY <1>5, <3>1 DEF OneCall, AtRest
  <2> QED BY <1>1, <1>3, <1>5, <1>8, <2>2, <2>3, <2>4, CallGoal
<1> QED BY <1>6, <1>7, <1>8 DEF Copy

\* The bits of the download change nothing else.
LEMMA ChmodKeeps ==
  ASSUME TypeOK, OneAtATime, OneCallInv, NEW a \in Appliers, Chmod(a)
  PROVE  StepGoal
<1>1. pc[a] = "chmod" /\ pc[a] \notin AtRest BY DEF Chmod, At, AtRest
<1>2. OneCall(a) /\ Kept BY DEF OneCallInv
<1>3. UNCHANGED <<dir, self, system, content, fd, path, want, launched, stopping>> BY DEF Chmod, env
<1>4. TmpKept' /\ tmp' \in Tmps BY <1>2, <1>3, DiscardKeeps DEF Chmod, Kept
<1>5. Kept' /\ Installed' = Installed /\ StaysStep BY <1>2, <1>3, <1>4, SameFiles DEF TypeOK, Versions
<1>6. [Promise!Next]_(Promise!vars) BY <1>3, <1>5, PromiseSteps
<1>7. CASE Goto(a, "clear") /\ UNCHANGED tmp
  <2>1. OneCall(a)'
    <3>1. pc'[a] = "clear" BY <1>7 DEF Goto, TypeOK
    <3>2. /\ fd[a] = None /\ tmp[want[a]] # None /\ content[tmp[want[a]]] = want[a]
          /\ want[a] \in Later /\ path[a] = self /\ dir[self] # None
      BY <1>1, <1>2 DEF OneCall, AtRest
    <3> QED BY <1>3, <1>7, <3>1, <3>2 DEF OneCall, AtRest
  <2> QED BY <1>1, <1>3, <1>5, <1>6, <1>7, <2>1, CallGoal
<1>8. CASE Goto(a, "failed")
  <2>1. OneCall(a)'
    <3>1. pc'[a] = "failed" /\ fd[a] = None BY <1>1, <1>2, <1>8 DEF Goto, TypeOK, OneCall
    <3> QED BY <1>3, <3>1 DEF OneCall, AtRest
  <2> QED BY <1>1, <1>3, <1>5, <1>6, <1>8, <2>1, CallGoal
<1> QED BY <1>7, <1>8 DEF Chmod

\* Removing the name after an executable that stays keeps what is kept.
LEMMA RemoveKeeps ==
  ASSUME TypeOK, Kept, NEW k \in Paths, k + 1 \in Paths, Remove(k + 1), dir[k] # None,
         UNCHANGED <<tmp, self, system, content>>,
         system # "linux" => k = 0
  PROVE  /\ Kept' /\ Installed' = Installed /\ StaysStep
         /\ dir'[k] = dir[k]
<1>1. k \in Nat /\ Paths \subseteq Nat /\ 0 \in Paths /\ Original # None
  BY SystemAssumption, InodeAssumption DEF Paths
<1>2. /\ \A r \in Paths : dir'[r] = dir[r] \/ (r = k + 1 /\ dir'[r] = None)
      /\ system = "windows" /\ dir[k + 1] = Original => dir'[k + 1] = Original
  BY DEF Remove, InUse, TypeOK
<1>3. dir'[k] = dir[k] /\ dir'[0] = dir[0] BY <1>1, <1>2
<1>4. SelfKept' BY <1>1, <1>2 DEF Kept, SelfKept, TypeOK
<1>5. InUseKept' BY <1>1, <1>2, <1>3 DEF Kept, InUseKept
<1>6. TmpKept' BY <1>2 DEF Kept, TmpKept
<1>7. \A p \in {k, k + 1} : dir'[p] # None => content[dir'[p]] \in Later \cup {Running}
  BY <1>2 DEF Kept, FilesKept
<1>8. \A r \in Paths \ {k, k + 1} : dir'[r] = dir[r] BY <1>2
<1>9. /\ Kept'
      /\ \/ Installed' = Installed
         \/ Installed = content[FirstOf(dir, k)] /\ Installed' = content[FirstOf(dir', k)]
  BY <1>3, <1>4, <1>5, <1>6, <1>7, <1>8, TwoNames
<1>10. Installed' = Installed BY <1>3, <1>9 DEF FirstOf
<1> QED BY <1>3, <1>9, <1>10 DEF StaysStep

\* Removing an older <exe>.old leaves the executable in place.
LEMMA ClearOldKeeps ==
  ASSUME TypeOK, OneAtATime, OneCallInv, NEW a \in Appliers, ClearOld(a)
  PROVE  StepGoal
<1>1. pc[a] = "clear" /\ pc[a] \notin AtRest BY DEF ClearOld, At, AtRest
<1>2. OneCall(a) /\ Kept BY DEF OneCallInv
<1>3. /\ UNCHANGED <<tmp, self, system, content, fd, path, want, launched, stopping>>
      /\ Goto(a, "aside") /\ Remove(path[a] + 1)
  BY DEF ClearOld, env
<1>4. /\ fd[a] = None /\ tmp[want[a]] # None /\ content[tmp[want[a]]] = want[a]
      /\ want[a] \in Later /\ path[a] = self /\ dir[self] # None
  BY <1>1, <1>2 DEF OneCall, AtRest
<1>5. /\ Kept' /\ Installed' = Installed /\ StaysStep
      /\ dir'[path[a]] = dir[path[a]]
  BY <1>2, <1>3, <1>4, PathType, RemoveKeeps DEF Kept, SelfKept
<1>6. [Promise!Next]_(Promise!vars) BY <1>3, <1>5, PromiseSteps
<1>7. OneCall(a)'
  <2>1. pc'[a] = "aside" BY <1>3 DEF Goto, TypeOK
  <2> QED BY <1>3, <1>4, <1>5, <2>1 DEF OneCall, AtRest
<1> QED BY <1>1, <1>3, <1>5, <1>6, <1>7, CallGoal

\* Moved aside, the executable is the installed program under its new name.
LEMMA MoveAsideKeeps ==
  ASSUME TypeOK, OneAtATime, OneCallInv, NEW a \in Appliers, MoveAside(a)
  PROVE  StepGoal
<1>1. pc[a] = "aside" /\ pc[a] \notin AtRest BY DEF MoveAside, At, AtRest
<1>2. OneCall(a) /\ Kept BY DEF OneCallInv
<1>3. UNCHANGED <<system, content, fd, path, want, launched, stopping>> BY DEF MoveAside, env
<1>4. /\ fd[a] = None /\ tmp[want[a]] # None /\ content[tmp[want[a]]] = want[a]
      /\ want[a] \in Later /\ path[a] = self /\ dir[self] # None
  BY <1>1, <1>2 DEF OneCall, AtRest
<1> DEFINE k == path[a]
<1>5. k \in Paths /\ k + 1 \in Paths /\ k \in Nat /\ Paths \subseteq Nat /\ 0 \in Paths
  BY PathType, SystemAssumption DEF Paths
<1>6. CASE Goto(a, "failed") /\ Discard(a) /\ UNCHANGED <<dir, self>>
  <2>1. TmpKept' /\ tmp' \in Tmps BY <1>2, <1>6, DiscardKeeps DEF Kept
  <2>2. Kept' /\ Installed' = Installed /\ StaysStep
    BY <1>2, <1>3, <1>6, <2>1, SameFiles DEF TypeOK, Versions
  <2>3. [Promise!Next]_(Promise!vars) BY <1>3, <2>2, PromiseSteps
  <2>4. OneCall(a)'
    <3>1. pc'[a] = "failed" BY <1>6 DEF Goto, TypeOK
    <3> QED BY <1>3, <1>4, <3>1 DEF OneCall, AtRest
  <2> QED BY <1>1, <1>3, <1>6, <2>2, <2>3, <2>4, CallGoal
<1>7. CASE Goto(a, "swap") /\ Move(k, k + 1) /\ UNCHANGED tmp
  <2>1. /\ dir'[k] = None /\ dir'[k + 1] = dir[k]
        /\ \A r \in Paths \ {k, k + 1} : dir'[r] = dir[r]
        /\ ~ (system = "windows" /\ dir[k + 1] = Original)
    BY <1>5, <1>7 DEF Move, MayMove, InUse, TypeOK
  <2>2. self' = IF system = "linux" THEN k + 1 ELSE k
    BY <1>2, <1>4, <1>7 DEF Move, Kept, SelfKept
  <2>3. SelfKept' BY <1>2, <1>3, <1>4, <1>5, <2>1, <2>2, InodeAssumption DEF Kept, SelfKept
  <2>4. InUseKept'
    <3>1. system = "windows" => k = 0 BY <1>2, <1>4 DEF Kept, SelfKept
    <3> QED BY <1>2, <1>3, <2>1, <3>1 DEF Kept, InUseKept
  <2>5. TmpKept' BY <1>2, <1>5, <1>7, <2>1 DEF Kept, TmpKept
  <2>6. /\ dir[k] # None
        /\ \A p \in {k, k + 1} : dir'[p] # None => content[dir'[p]] \in Later \cup {Running}
    BY <1>2, <1>4, <1>5, <2>1 DEF Kept, FilesKept
  <2>7. /\ Kept'
        /\ \/ Installed' = Installed
           \/ Installed = content[FirstOf(dir, k)] /\ Installed' = content[FirstOf(dir', k)]
    BY <1>2, <1>3, <1>5, <2>1, <2>3, <2>4, <2>5, <2>6, TwoNames
  <2>8. Installed' = Installed BY <2>1, <2>6, <2>7 DEF FirstOf
  <2>9. StaysStep
    <3>1. CASE k = 0
      <4>1. dir[0] = Original => ~ Settled BY <1>2, LaterFacts DEF Settled, Kept, FilesKept
      <4>2. system = "linux" => dir[0] = Original
        BY <1>4, <1>2, <3>1 DEF Kept, SelfKept
      <4>3. system = "windows" => dir[0] = Original BY <1>2, <2>1, <3>1 DEF Kept, InUseKept
      <4>4. system \in {"linux", "windows", "darwin"} BY SystemAssumption DEF TypeOK
      <4> QED BY <4>1, <4>2, <4>3, <4>4 DEF StaysStep, Settled
    <3>2. CASE k # 0 BY <1>3, <1>5, <2>1, <3>2 DEF StaysStep
    <3> QED BY <3>1, <3>2
  <2>10. [Promise!Next]_(Promise!vars) BY <1>3, <2>8, PromiseSteps
  <2>11. OneCall(a)'
    <3>1. pc'[a] = "swap" BY <1>7 DEF Goto, TypeOK
    <3> QED BY <1>3, <1>4, <1>7, <2>1, <2>2, <3>1 DEF OneCall, AtRest
  <2> QED BY <1>1, <1>3, <1>7, <2>7, <2>9, <2>10, <2>11, CallGoal
<1> QED BY <1>6, <1>7 DEF MoveAside

\* The swap puts a verified later release in place.
LEMMA SwapKeeps ==
  ASSUME TypeOK, OneAtATime, OneCallInv, NEW a \in Appliers, Swap(a)
  PROVE  StepGoal
<1>1. pc[a] = "swap" /\ pc[a] \notin AtRest BY DEF Swap, At, AtRest
<1>2. OneCall(a) /\ Kept BY DEF OneCallInv
<1>3. UNCHANGED <<self, system, content, fd, path, want, launched, stopping>> BY DEF Swap, env
<1> DEFINE k == path[a]
<1>4. /\ fd[a] = None /\ tmp[want[a]] # None /\ content[tmp[want[a]]] = want[a]
      /\ want[a] \in Later /\ dir[k] = None /\ dir[k + 1] # None
      /\ self = IF system = "linux" THEN k + 1 ELSE k
  BY <1>1, <1>2 DEF OneCall, AtRest
<1>5. k \in Paths /\ k + 1 \in Paths /\ k \in Nat /\ Paths \subseteq Nat /\ 0 \in Paths
  BY PathType, SystemAssumption DEF Paths
<1>6. CASE Goto(a, "restore") /\ UNCHANGED <<dir, tmp>>
  <2>1. TmpKept' /\ tmp' \in Tmps BY <1>2, <1>6 DEF Kept, TmpKept, TypeOK, Tmps
  <2>2. Kept' /\ Installed' = Installed /\ StaysStep
    BY <1>2, <1>3, <1>6, <2>1, SameFiles DEF TypeOK, Versions
  <2>3. [Promise!Next]_(Promise!vars) BY <1>3, <2>2, PromiseSteps
  <2>4. OneCall(a)'
    <3>1. pc'[a] = "restore" BY <1>6 DEF Goto, TypeOK
    <3> QED BY <1>3, <1>4, <1>6, <3>1 DEF OneCall, AtRest
  <2> QED BY <1>1, <1>3, <1>6, <2>2, <2>3, <2>4, CallGoal
<1>7. CASE /\ MaySwap(a) /\ Goto(a, "drop")
           /\ dir' = [dir EXCEPT ![k] = tmp[want[a]]]
           /\ tmp' = [tmp EXCEPT ![want[a]] = None]
  <2>1. want[a] \in Releases BY <1>1, WantType DEF AtRest
  <2>2. dir'[k] = tmp[want[a]] /\ \A r \in Paths \ {k} : dir'[r] = dir[r] BY <1>5, <1>7 DEF TypeOK
  <2>3. tmp'[want[a]] = None /\ \A r \in Releases \ {want[a]} : tmp'[r] = tmp[r]
    BY <1>7, <2>1 DEF TypeOK
  <2>4. tmp[want[a]] # Original /\ \A p \in Paths : tmp[want[a]] # dir[p]
    BY <1>2, <1>4, <2>1 DEF Kept, TmpKept
  <2>5. SelfKept' BY <1>2, <1>3, <1>4, <1>5, <2>2, <2>4 DEF Kept, SelfKept
  <2>6. InUseKept'
    <3>1. system = "windows" => k = 0 BY <1>2, <1>4 DEF Kept, SelfKept
    <3> QED BY <1>2, <1>3, <1>4, <1>5, <2>2, <3>1, InodeAssumption DEF Kept, InUseKept
  <2>7. TmpKept' BY <1>2, <1>4, <2>1, <2>2, <2>3 DEF Kept, TmpKept
  <2>8. \A p \in {k, k + 1} : dir'[p] # None => content[dir'[p]] \in Later \cup {Running}
    BY <1>2, <1>4, <1>5, <2>2 DEF Kept, FilesKept
  <2>9. dir[k] # None \/ dir[k + 1] # None BY <1>4
  <2>10. dir'[k] # None \/ dir'[k + 1] # None BY <1>4, <2>2
  <2>11. \A r \in Paths \ {k, k + 1} : dir'[r] = dir[r] BY <2>2
  <2>12. /\ Kept'
         /\ \/ Installed' = Installed
            \/ Installed = content[FirstOf(dir, k)] /\ Installed' = content[FirstOf(dir', k)]
    BY <1>2, <1>3, <1>5, <2>5, <2>6, <2>7, <2>8, <2>9, <2>10, <2>11, TwoNames
  <2>13. Installed' = Installed \/ Installed' \in Later BY <1>4, <2>2, <2>12 DEF FirstOf
  <2>14. StaysStep BY <1>3, <1>4, <1>5, <2>2 DEF StaysStep, Settled
  <2>15. [Promise!Next]_(Promise!vars) BY <1>3, <2>13, PromiseSteps
  <2>16. OneCall(a)'
    <3>1. pc'[a] = "drop" BY <1>7 DEF Goto, TypeOK
    <3> QED BY <1>3, <1>4, <2>2, <3>1 DEF OneCall, AtRest
  <2> QED BY <1>1, <1>3, <1>7, <2>12, <2>14, <2>15, <2>16, CallGoal
<1> QED BY <1>6, <1>7 DEF Swap

\* Moved back, the executable is the installed program under its old name.
LEMMA RestoreKeeps ==
  ASSUME TypeOK, OneAtATime, OneCallInv, NEW a \in Appliers, Restore(a)
  PROVE  StepGoal
<1>1. pc[a] = "restore" /\ pc[a] \notin AtRest BY DEF Restore, At, AtRest
<1>2. OneCall(a) /\ Kept BY DEF OneCallInv
<1>3. UNCHANGED <<tmp, system, content, fd, path, want, launched, stopping>> /\ Goto(a, "failed")
  BY DEF Restore, env
<1> DEFINE k == path[a]
<1>4. /\ fd[a] = None /\ dir[k] = None /\ dir[k + 1] # None
      /\ self = IF system = "linux" THEN k + 1 ELSE k
  BY <1>1, <1>2 DEF OneCall
<1>5. k \in Paths /\ k + 1 \in Paths /\ k \in Nat /\ Paths \subseteq Nat /\ 0 \in Paths
  BY PathType, SystemAssumption DEF Paths
<1>6. OneCall(a)'
  <2>1. pc'[a] = "failed" BY <1>3 DEF Goto, TypeOK
  <2> QED BY <1>3, <1>4, <2>1 DEF OneCall, AtRest
<1>7. CASE UNCHANGED <<dir, self>>
  <2>1. TmpKept' /\ tmp' \in Tmps BY <1>2, <1>3, <1>7 DEF Kept, TmpKept, TypeOK, Tmps
  <2>2. Kept' /\ Installed' = Installed /\ StaysStep
    BY <1>2, <1>3, <1>7, <2>1, SameFiles DEF TypeOK, Versions
  <2>3. [Promise!Next]_(Promise!vars) BY <1>3, <2>2, PromiseSteps
  <2> QED BY <1>1, <1>3, <1>6, <2>2, <2>3, CallGoal
<1>8. CASE Move(k + 1, k)
  <2>1. /\ dir'[k + 1] = None /\ dir'[k] = dir[k + 1]
        /\ \A r \in Paths \ {k, k + 1} : dir'[r] = dir[r]
    BY <1>5, <1>8 DEF Move, TypeOK
  <2>2. self' = k BY <1>2, <1>4, <1>5, <1>8 DEF Move, Kept, SelfKept
  <2>3. SelfKept' BY <1>2, <1>3, <1>4, <1>5, <2>1, <2>2, InodeAssumption DEF Kept, SelfKept
  <2>4. InUseKept'
    <3>1. system = "windows" => k = 0 BY <1>2, <1>4 DEF Kept, SelfKept
    <3> QED BY <1>2, <1>3, <1>4, <2>1, <3>1, InodeAssumption DEF Kept, InUseKept
  <2>5. TmpKept' BY <1>2, <1>3, <1>5, <2>1 DEF Kept, TmpKept
  <2>6. \A p \in {k, k + 1} : dir'[p] # None => content[dir'[p]] \in Later \cup {Running}
    BY <1>2, <1>5, <2>1 DEF Kept, FilesKept
  <2>7. /\ Kept'
        /\ \/ Installed' = Installed
           \/ Installed = content[FirstOf(dir, k)] /\ Installed' = content[FirstOf(dir', k)]
    BY <1>2, <1>3, <1>4, <1>5, <2>1, <2>3, <2>4, <2>5, <2>6, TwoNames
  <2>8. Installed' = Installed BY <1>4, <2>1, <2>7 DEF FirstOf
  <2>9. StaysStep BY <1>3, <1>4, <1>5, <2>1 DEF StaysStep, Settled
  <2>10. [Promise!Next]_(Promise!vars) BY <1>3, <2>8, PromiseSteps
  <2> QED BY <1>1, <1>3, <1>6, <2>7, <2>9, <2>10, CallGoal
<1> QED BY <1>7, <1>8 DEF Restore

\* Removing <exe>.old leaves the new executable in place.
LEMMA DropOldKeeps ==
  ASSUME TypeOK, OneAtATime, OneCallInv, NEW a \in Appliers, DropOld(a)
  PROVE  StepGoal
<1>1. pc[a] = "drop" /\ pc[a] \notin AtRest BY DEF DropOld, At, AtRest
<1>2. OneCall(a) /\ Kept BY DEF OneCallInv
<1>3. /\ UNCHANGED <<tmp, self, system, content, fd, path, want, launched, stopping>>
      /\ Goto(a, "relaunch") /\ Remove(path[a] + 1)
  BY DEF DropOld, env
<1>4. /\ fd[a] = None /\ dir[path[a]] # None /\ content[dir[path[a]]] \in Later /\ want[a] \in Later
      /\ self = IF system = "linux" THEN path[a] + 1 ELSE path[a]
  BY <1>1, <1>2 DEF OneCall, AtRest
<1>5. system # "linux" => path[a] = 0 BY <1>2, <1>4 DEF Kept, SelfKept
<1>6. /\ Kept' /\ Installed' = Installed /\ StaysStep
      /\ dir'[path[a]] = dir[path[a]]
  BY <1>2, <1>3, <1>4, <1>5, PathType, RemoveKeeps
<1>7. [Promise!Next]_(Promise!vars) BY <1>3, <1>6, PromiseSteps
<1>8. OneCall(a)'
  <2>1. pc'[a] = "relaunch" BY <1>3 DEF Goto, TypeOK
  <2> QED BY <1>3, <1>4, <1>6, <2>1 DEF OneCall, AtRest
<1> QED BY <1>1, <1>3, <1>6, <1>7, <1>8, CallGoal

\* What is started: the old program on Linux, elsewhere what was installed.
LEMMA RelaunchKeeps ==
  ASSUME TypeOK, OneAtATime, OneCallInv, NEW a \in Appliers, Relaunch(a)
  PROVE  StepGoal
<1>1. pc[a] = "relaunch" /\ pc[a] \notin AtRest BY DEF Relaunch, At, AtRest
<1>2. OneCall(a) /\ Kept BY DEF OneCallInv
<1>3. UNCHANGED <<dir, tmp, self, system, content, fd, path, want, stopping>> BY DEF Relaunch, files
<1> DEFINE k == path[a]
<1>4. /\ fd[a] = None /\ dir[k] # None /\ content[dir[k]] \in Later /\ want[a] \in Later
      /\ self = IF system = "linux" THEN k + 1 ELSE k
  BY <1>1, <1>2 DEF OneCall, AtRest
<1>5. k \in Paths /\ k + 1 \in Paths /\ Paths \subseteq Nat BY PathType DEF Paths
<1>6. TmpKept' /\ tmp' \in Tmps BY <1>2, <1>3 DEF Kept, TmpKept, TypeOK, Tmps
<1>7. Kept' /\ Installed' = Installed /\ StaysStep
  BY <1>2, <1>3, <1>6, SameFiles DEF TypeOK, Versions
<1>8. CASE /\ Starts(dir[self]) /\ Goto(a, "done") /\ launched' = content[dir[self]]
  <2>1. PICK l \in Paths : IsLowest(dir, l) BY <1>2 DEF Kept, HasLowest
  <2>2. Installed = content[dir[l]] BY <2>1, LowestIs DEF Installed
  <2>3. /\ dir[l] # None /\ (l = k \/ l < k)
        /\ l \in Nat /\ k \in Nat
    BY <1>4, <1>5, <2>1 DEF IsLowest, Paths
  <2>4. Installed \in Later
    <3>1. CASE l = k BY <1>4, <2>2, <3>1
    <3>2. CASE l < k
      <4>1. system = "linux" BY <1>2, <1>4, <1>5, <3>2 DEF Kept, SelfKept, Paths
      <4>2. l < self BY <1>4, <2>3, <3>2, <4>1
      <4> QED BY <1>2, <2>2, <2>3, <4>1, <4>2 DEF Kept, SelfKept
    <3> QED BY <2>3, <3>1, <3>2
  <2>5. launched' = IF system = "linux" THEN Running ELSE Installed
    <3>1. CASE system = "linux"
      <4>1. dir[self] = Original BY <1>2, <1>8, <3>1 DEF Starts, Whole, Kept, SelfKept
      <4> QED BY <1>2, <1>8, <3>1, <4>1 DEF Kept, FilesKept
    <3>2. CASE system # "linux"
      <4>1. k = 0 /\ self = 0 BY <1>2, <1>4, <3>2 DEF Kept, SelfKept
      <4>2. l = 0 BY <1>5, <2>3, <4>1 DEF Paths
      <4> QED BY <1>8, <2>2, <3>2, <4>1, <4>2
    <3> QED BY <3>1, <3>2
  <2>6. [Promise!Next]_(Promise!vars) BY <1>3, <1>7, <2>4, <2>5, PromiseSteps
  <2>7. launched' # None BY <1>8 DEF Starts, Whole
  <2>8. OneCall(a)'
    <3>1. pc'[a] = "done" BY <1>8 DEF Goto, TypeOK
    <3> QED BY <1>3, <1>4, <2>7, <3>1 DEF OneCall, AtRest
  <2> QED BY <1>1, <1>3, <1>7, <1>8, <2>6, <2>7, <2>8, CallGoal
<1>9. CASE Goto(a, "failed") /\ UNCHANGED launched
  <2>1. [Promise!Next]_(Promise!vars) BY <1>3, <1>7, <1>9, PromiseSteps
  <2>2. OneCall(a)'
    <3>1. pc'[a] = "failed" BY <1>9 DEF Goto, TypeOK
    <3> QED BY <1>3, <1>4, <3>1 DEF OneCall, AtRest
  <2> QED BY <1>1, <1>3, <1>7, <1>9, <2>1, <2>2, CallGoal
<1> QED BY <1>8, <1>9 DEF Relaunch, runningExecutable

\* A step that is none of a call: the files and the call at work stay.
LEMMA QuietKeeps ==
  ASSUME TypeOK, OneCallInv, UNCHANGED <<files, fd, launched, system>>,
         \A b \in Appliers : OneCall(b)'
  PROVE  OneCallInv' /\ StaysStep /\ Installed' = Installed
<1>1. UNCHANGED <<dir, tmp, self, content>> BY DEF files
<1>2. TmpKept' /\ tmp' \in Tmps BY <1>1 DEF OneCallInv, Kept, TmpKept, TypeOK, Tmps
<1>3. Kept' /\ Installed' = Installed /\ StaysStep
  BY <1>1, <1>2, SameFiles DEF OneCallInv, TypeOK, Versions
<1> QED BY <1>3 DEF OneCallInv

\* Every step keeps the invariant, is one of Install and leaves a settled
\* release alone.
LEMMA OneCallStep ==
  ASSUME TypeOK, OneAtATime, OneCallInv, [Next]_vars
  PROVE  StepGoal
<1> DEFINE Same(b) == UNCHANGED <<pc[b], fd[b], path[b], want[b]>>
<1>1. ASSUME UNCHANGED <<files, calls, launched, stopping, system>> PROVE StepGoal
  <2>1. \A b \in Appliers : OneCall(b)' BY <1>1 DEF OneCallInv, OneCall, files, calls
  <2>2. OneCallInv' /\ StaysStep /\ Installed' = Installed BY <1>1, <2>1, QuietKeeps DEF calls
  <2>3. [Promise!Next]_(Promise!vars) BY <1>1, <2>2, PromiseSteps
  <2> QED BY <2>2, <2>3 DEF StepGoal
<1>2. CASE Refresh BY <1>1, <1>2 DEF Refresh
<1>3. ASSUME NEW a \in Appliers, Apply(a) PROVE StepGoal
  <2>1. UNCHANGED <<files, fd, launched, stopping, system>> BY <1>3 DEF Apply, env
  <2>2. info.latest \in Later
    BY <1>3, CheckedAvailable, NewerFacts, NewerIsLater DEF Apply, TypeOK, Newer
  <2>3. OneCall(a)'
    <3>1. pc'[a] = "open" /\ want'[a] = info.latest /\ path'[a] = self
      BY <1>3 DEF Apply, Goto, runningExecutable, TypeOK
    <3>2. fd[a] = None BY <1>3 DEF Apply, OneCallInv, OneCall
    <3>3. dir[self] # None BY <1>3 DEF Apply, runningExecutable
    <3> QED BY <2>1, <2>2, <3>1, <3>2, <3>3 DEF OneCall, AtRest, files
  <2>4. ASSUME NEW b \in Appliers \ {a} PROVE OneCall(b)'
    <3>1. pc'[b] = pc[b] /\ path'[b] = path[b] /\ want'[b] = want[b]
      BY <1>3 DEF Apply, Goto, TypeOK
    <3>2. OneCall(b) BY DEF OneCallInv
    <3> QED BY <2>1, <3>1, <3>2 DEF OneCall, files
  <2>5. OneCallInv' /\ StaysStep /\ Installed' = Installed BY <2>1, <2>3, <2>4, QuietKeeps
  <2>6. [Promise!Next]_(Promise!vars) BY <2>1, <2>5, PromiseSteps
  <2> QED BY <2>5, <2>6 DEF StepGoal
<1>4. ASSUME NEW a \in Appliers, AskShutdown(a) PROVE StepGoal
  <2>1. UNCHANGED <<files, calls, launched, system>> /\ stopping' = TRUE BY <1>4, Zenon DEF AskShutdown
  <2>2. launched # None BY <1>4 DEF AskShutdown, At, OneCallInv, OneCall
  <2>3. \A b \in Appliers : OneCall(b)' BY <2>1 DEF OneCallInv, OneCall, files, calls
  <2>4. OneCallInv' /\ StaysStep /\ Installed' = Installed BY <2>1, <2>3, QuietKeeps DEF calls
  <2>5. [Promise!Next]_(Promise!vars) BY <2>1, <2>2, <2>4, PromiseSteps
  <2> QED BY <2>4, <2>5 DEF StepGoal
<1>5. CASE Exit BY <1>1, <1>5 DEF Exit
<1>6. CASE UNCHANGED vars BY <1>1, <1>6 DEF vars, env
<1> QED BY <1>2, <1>3, <1>4, <1>5, <1>6, OpenKeeps, CopyKeeps, ChmodKeeps, ClearOldKeeps, MoveAsideKeeps,
           SwapKeeps, RestoreKeeps, DropOldKeeps, RelaunchKeeps DEF Next, Step, Exited

\* The state before any call.
LEMMA OneCallInit == Init => OneCallInv /\ Promise!Init
<1> SUFFICES ASSUME Init PROVE OneCallInv /\ Promise!Init
  OBVIOUS
<1>1. 0 \in Paths /\ Paths \subseteq Nat BY SystemAssumption DEF Paths
<1>2. dir[0] = Original /\ Original # None /\ \A p \in Paths \ {0} : dir[p] = None
  BY <1>1, InodeAssumption DEF Init
<1>3. SelfKept /\ InUseKept
  <2>1. self = 0 BY DEF Init
  <2>2. \A p \in Paths : ~ (p < 0) BY <1>1
  <2>3. \A p \in Paths : dir[p] = Original => p = 0 BY <1>2
  <2> QED BY <1>2, <2>1, <2>2, <2>3 DEF SelfKept, InUseKept
<1>4. TmpKept
  <2>1. PICK r \in Releases, i \in (Inodes \ {Original}) \cup {None} :
          tmp = [q \in Releases |-> IF q = r THEN i ELSE None]
    BY DEF Init
  <2> QED BY <1>2, <2>1 DEF TmpKept
<1>5. FilesKept BY <1>2, InodeAssumption DEF Init, FilesKept
<1>6. IsLowest(dir, 0) BY <1>1, <1>2 DEF IsLowest
<1>7. HasLowest BY <1>1, <1>6 DEF HasLowest
<1>8. \A a \in Appliers : OneCall(a) BY DEF Init, OneCall, AtRest
<1>9. Installed = Running
  <2>1. Lowest(dir) = 0 BY <1>1, <1>6, LowestIs
  <2> QED BY <1>2, <2>1, InodeAssumption DEF Installed, Init
<1>10. Promise!Init BY <1>9, Zenon DEF Promise!Init, Init
<1> QED BY <1>3, <1>4, <1>5, <1>7, <1>8, <1>10 DEF OneCallInv, Kept

\* The invariant of calls that do not overlap, with the step that each takes.
LEMMA OneCallAlways == Spec /\ []OneAtATime => []OneCallInv /\ [][StepGoal]_vars
<1>1. Init => TypeOK /\ OneCallInv BY TypeInit, OneCallInit
<1>2. TypeOK /\ OneAtATime /\ OneCallInv /\ [Next]_vars => OneCallInv' BY OneCallStep DEF StepGoal
<1>3. TypeOK /\ OneAtATime /\ OneCallInv /\ [Next]_vars => [StepGoal]_vars BY OneCallStep
<1> QED BY <1>1, <1>2, <1>3, UpdateTypes, PTL DEF Spec

\* update.go:343: whatever fails and wherever the program dies, a whole program
\* is left under the name of the executable or beside it.
THEOREM NothingIsLost == Spec /\ []OneAtATime => []NothingLost
<1>1. OneCallInv => NothingLost
  <2> SUFFICES ASSUME OneCallInv PROVE NothingLost
    OBVIOUS
  <2>1. PICK p \in Paths : IsLowest(dir, p) BY DEF OneCallInv, Kept, HasLowest
  <2>2. dir[p] # None /\ content[dir[p]] \in Later \cup {Running}
    BY <2>1 DEF IsLowest, OneCallInv, Kept, FilesKept
  <2> QED BY <2>2, LaterFacts DEF NothingLost, Whole
<1> QED BY <1>1, OneCallAlways, PTL

\* update.go:276: nothing but a whole program that is verified and later than
\* the running one, or that one, has the name of an executable.
THEOREM OnlyVerified == Spec /\ []OneAtATime => []VerifiedExe
<1>1. OneCallInv => VerifiedExe
  BY LaterFacts DEF OneCallInv, Kept, FilesKept, VerifiedExe, Whole
<1> QED BY <1>1, OneCallAlways, PTL

\* A release that a call has put in place is left alone by every later call,
\* one that fails or succeeds, on Linux and on Windows.
THEOREM InstalledIsKept == Spec /\ []OneAtATime => InstalledStays
<1>1. StepGoal => StaysStep BY DEF StepGoal
<1> QED BY <1>1, OneCallAlways, PTL DEF InstalledStays, StaysStep

\* Calls that do not overlap do what Install promises: the installed program is
\* replaced in one step or not at all, only then is a program started, on Linux
\* the old one again, and only then does this instance stop.
THEOREM UpdateRefinesInstall == Spec /\ []OneAtATime => KeepsPromise
<1>1. Init => Promise!Init BY OneCallInit
<1>2. [StepGoal]_vars => [Promise!Next]_(Promise!vars)
  <2>1. ASSUME UNCHANGED vars PROVE UNCHANGED Promise!vars
    <3>1. UNCHANGED <<dir, content, launched, stopping, system>> BY <2>1 DEF vars, files, env
    <3>2. Installed' = Installed BY <3>1 DEF Installed, Lowest
    <3>3. (system = "linux")' <=> (system = "linux") BY <3>1
    <3> QED BY <3>1, <3>2, <3>3, Zenon DEF Promise!vars
  <2> QED BY <2>1 DEF StepGoal
<1> QED BY <1>1, <1>2, OneCallAlways, PTL DEF Spec, KeepsPromise, Promise!Spec

=============================================================================
