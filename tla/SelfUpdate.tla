---------------------------- MODULE SelfUpdate ----------------------------
(***************************************************************************)
(* internal/update: Tracker.Apply, called by the panel's button             *)
(* (handleUpdateApply) and by the console's "u" key (watchUpdateKey), with  *)
(* nothing that keeps two calls apart.  One action is one system call on    *)
(* the files an update uses: the executable, <exe>.old and the download.    *)
(*                                                                          *)
(* Apply asks runningExecutable for its own path twice: before it renames   *)
(* the file, and again in relaunch.  What it gets depends on the system:    *)
(*  - "linux": /proc/self/exe names the file that runs, by the last name it *)
(*    had, so it follows a rename (FreeBSD asks the kernel as well)          *)
(*  - "windows": the path it was started by; a file that runs can be        *)
(*    renamed but neither removed nor replaced                              *)
(*  - "darwin": the path it was started by (OpenBSD likewise)               *)
(*                                                                          *)
(* Abstractions:                                                            *)
(*  - a name refers to an inode and an open file to an inode, so that a     *)
(*    rename moves a file somebody may still be writing                     *)
(*  - an inode holds a whole program, known by its version, or anything     *)
(*    else (None)                                                           *)
(*  - a version tag is the sequence of its numbers: v1.2 is <<1, 2>>.  A tag  *)
(*    with anything but numbers, and a "dev" build, never find an update     *)
(*  - every system call may fail, and the program may die at any time       *)
(***************************************************************************)
EXTENDS Naturals, Sequences

CONSTANTS
  Running,   \* the version of this instance
  Releases,  \* bound: the tags GitHub may name as the latest release
  Appliers,  \* bound: calls of Apply, each made again only after an error
  Inodes,    \* bound: files that exist at a time
  Depth,     \* bound: how often ".old" is appended to the executable's name
  Systems,   \* the systems fzp runs on
  Faults,    \* whether system calls and downloads may fail
  Original,  \* the inode of the running executable
  None

ASSUME InodeAssumption == Original \in Inodes /\ None \notin Inodes /\ None \notin Appliers
ASSUME VersionAssumption == /\ Running \in Seq(Nat) /\ Releases \subseteq Seq(Nat)
                            /\ None \notin Releases \cup {Running}
ASSUME SystemAssumption == /\ Systems \subseteq {"linux", "windows", "darwin"}
                           /\ Depth \in Nat \ {0} /\ Faults \in BOOLEAN

VARIABLES
  system,   \* where this instance runs
  dir,      \* the executable (0), <exe>.old (1), <exe>.old.old (2): an inode or None
  tmp,      \* the download of each release, .update-<release>: an inode or None
  self,     \* the path os.Executable returns
  content,  \* of each inode
  writer,   \* of each inode: the call that truncated it last
  pc, fd,   \* of each call: its next step and the file it downloads into
  path,     \* of each call: the executable it replaces
  want,     \* of each call: the release its Snapshot named
  info,     \* what Tracker knows of the latest release
  launched, \* the version of the instance started last
  stopping, \* a caller asked for the shutdown of this instance
  alive     \* this instance has not exited

files == <<dir, tmp, self, content, writer>>
calls == <<pc, fd, path, want>>
env == <<system, info, launched, stopping, alive>>
vars == <<files, calls, env>>

AtRest == {"idle", "failed", "done"}
Steps == AtRest \cup {"open", "copy", "chmod", "clear", "aside", "swap", "restore", "drop", "relaunch"}

Paths == 0 .. Depth
Named == {dir[p] : p \in Paths} \cup {tmp[r] : r \in Releases}
Whole(i) == i # None /\ content[i] # None
\* a file that runs exists as long as the process does
Free == Inodes \ (Named \cup {fd[a] : a \in Appliers} \cup {Original})
InUse(p) == system = "windows" /\ dir[p] = Original

At(a, step) == alive /\ pc[a] = step
Goto(a, step) == pc' = [pc EXCEPT ![a] = step]

---------------------------------------------------------------------------
(* Looking for a release                                                   *)

\* the numbers a tag leaves out are 0; a fourth one makes Atoi fail
Parses(tag) == Len(tag) \in 1 .. 3
parseVersion(tag) == [i \in 1 .. 3 |-> IF i <= Len(tag) THEN tag[i] ELSE 0]

\* mutant: any greater number makes a version newer
newerAny(latest, current) ==
  /\ Parses(latest) /\ Parses(current)
  /\ \E i \in 1 .. 3 : parseVersion(latest)[i] > parseVersion(current)[i]

newer(latest, current) ==
  /\ Parses(latest) /\ Parses(current)
  /\ \E i \in 1 .. 3 :
       /\ parseVersion(latest)[i] > parseVersion(current)[i]
       /\ \A j \in 1 .. i - 1 : parseVersion(latest)[j] = parseVersion(current)[j]

Unknown == [latest |-> None, available |-> FALSE, sha256 |-> FALSE]

\* the release has no file for this system, no sum for it, or both
check(tag) == {[latest |-> tag, available |-> newer(tag, Running), sha256 |-> known] : known \in BOOLEAN}

Checked == {Unknown} \cup UNION {check(tag) : tag \in Releases}

\* an error of check replaces what was known, too
Refresh ==
  /\ alive /\ info' \in Checked
  /\ UNCHANGED <<files, calls, system, launched, stopping, alive>>

---------------------------------------------------------------------------
(* Apply                                                                   *)

\* mutant: the path the program was started by
startedAs == 0

runningExecutable == self

\* mutant: Apply goes on with whatever the latest release is
ApplyUnchecked(a) ==
  /\ alive /\ pc[a] \in {"idle", "failed"}
  /\ info.sha256 /\ dir[runningExecutable] # None /\ runningExecutable < Depth
  /\ Goto(a, "open")
  /\ want' = [want EXCEPT ![a] = info.latest]
  /\ path' = [path EXCEPT ![a] = runningExecutable]
  /\ UNCHANGED <<files, fd, env>>

\* Its refusals change nothing.  EvalSymlinks fails for a path that is gone.
Apply(a) ==
  /\ alive /\ pc[a] \in {"idle", "failed"}
  /\ info.available /\ info.sha256
  /\ dir[runningExecutable] # None /\ runningExecutable < Depth
  /\ Goto(a, "open")
  /\ want' = [want EXCEPT ![a] = info.latest]
  /\ path' = [path EXCEPT ![a] = runningExecutable]
  /\ UNCHANGED <<files, fd, env>>

\* the clean-up of a call that fails, best effort
Discard(a) == tmp' = [tmp EXCEPT ![want[a]] = None] \/ (Faults /\ UNCHANGED tmp)

\* no answer, a status other than 200, or OpenFile with O_CREATE and O_TRUNC
Open(a) ==
  /\ At(a, "open")
  /\ \/ Faults /\ Goto(a, "failed") /\ UNCHANGED <<files, fd>>
     \/ \E i \in IF tmp[want[a]] = None THEN Free ELSE {tmp[want[a]]} :
          /\ Goto(a, "copy")
          /\ fd' = [fd EXCEPT ![a] = i]
          /\ tmp' = [tmp EXCEPT ![want[a]] = i]
          /\ content' = [content EXCEPT ![i] = None]
          /\ writer' = [writer EXCEPT ![i] = a]
          /\ UNCHANGED <<dir, self>>
  /\ UNCHANGED <<path, want, env>>

\* mutant: the sum is not compared, so any download goes on
CopyUnchecked(a) ==
  /\ At(a, "copy")
  /\ Goto(a, "chmod")
  /\ content' \in {content, [content EXCEPT ![fd[a]] = want[a]]}
  /\ fd' = [fd EXCEPT ![a] = None]
  /\ UNCHANGED <<dir, tmp, self, writer, path, want, env>>

\* mutant: a failed download is tried again, without end
CopyRetries(a) ==
  /\ At(a, "copy")
  /\ \/ /\ Goto(a, "chmod")
        /\ content' = [content EXCEPT ![fd[a]] = want[a]]
     \/ Goto(a, "open") /\ UNCHANGED content
  /\ fd' = [fd EXCEPT ![a] = None]
  /\ UNCHANGED <<dir, tmp, self, writer, path, want, env>>

\* The sum is taken over what was received.  The file holds all of that only
\* if no later call truncated it; a wrong or broken download is unlinked by
\* name, whatever the name refers to by then.
Copy(a) ==
  /\ At(a, "copy")
  /\ \/ /\ Goto(a, "chmod")
        /\ content' = IF writer[fd[a]] = a THEN [content EXCEPT ![fd[a]] = want[a]] ELSE content
        /\ UNCHANGED tmp
     \/ Faults /\ Goto(a, "failed") /\ Discard(a) /\ UNCHANGED content
  /\ fd' = [fd EXCEPT ![a] = None]
  /\ UNCHANGED <<dir, self, writer, path, want, env>>

Chmod(a) ==
  /\ At(a, "chmod")
  /\ \/ tmp[want[a]] # None /\ Goto(a, "clear") /\ UNCHANGED tmp
     \/ (Faults \/ tmp[want[a]] = None) /\ Goto(a, "failed") /\ Discard(a)
  /\ UNCHANGED <<dir, self, content, writer, fd, path, want, env>>

\* os.Remove(old), its error ignored
Remove(p) ==
  \/ ~ InUse(p) /\ dir' = [dir EXCEPT ![p] = None]
  \/ (Faults \/ InUse(p)) /\ UNCHANGED dir

ClearOld(a) ==
  /\ At(a, "clear") /\ Goto(a, "aside")
  /\ Remove(path[a] + 1)
  /\ UNCHANGED <<tmp, self, content, writer, fd, path, want, env>>

\* os.Rename of an executable: /proc/self/exe goes with the file that runs
MayMove(p, q) == dir[p] # None /\ ~ InUse(q)
Move(p, q) ==
  /\ MayMove(p, q)
  /\ dir' = [dir EXCEPT ![q] = dir[p], ![p] = None]
  /\ self' = IF system = "linux" /\ dir[p] = Original THEN q ELSE self

\* mutant: the running executable is removed, not moved aside
MoveAsideRemoves(a) ==
  /\ At(a, "aside") /\ Goto(a, "swap")
  /\ dir' = [dir EXCEPT ![path[a]] = None]
  /\ UNCHANGED <<tmp, self, content, writer, fd, path, want, env>>

MoveAside(a) ==
  /\ At(a, "aside")
  /\ \/ Goto(a, "swap") /\ Move(path[a], path[a] + 1) /\ UNCHANGED tmp
     \/ /\ Faults \/ ~ MayMove(path[a], path[a] + 1)
        /\ Goto(a, "failed") /\ Discard(a) /\ UNCHANGED <<dir, self>>
  /\ UNCHANGED <<content, writer, fd, path, want, env>>

MaySwap(a) == tmp[want[a]] # None /\ ~ InUse(path[a])

Swap(a) ==
  /\ At(a, "swap")
  /\ \/ /\ MaySwap(a) /\ Goto(a, "drop")
        /\ dir' = [dir EXCEPT ![path[a]] = tmp[want[a]]]
        /\ tmp' = [tmp EXCEPT ![want[a]] = None]
     \/ (Faults \/ ~ MaySwap(a)) /\ Goto(a, "restore") /\ UNCHANGED <<dir, tmp>>
  /\ UNCHANGED <<self, content, writer, fd, path, want, env>>

\* best effort, its error ignored
Restore(a) ==
  /\ At(a, "restore") /\ Goto(a, "failed")
  /\ \/ Move(path[a] + 1, path[a])
     \/ (Faults \/ ~ MayMove(path[a] + 1, path[a])) /\ UNCHANGED <<dir, self>>
  /\ UNCHANGED <<tmp, content, writer, fd, path, want, env>>

DropOld(a) ==
  /\ At(a, "drop") /\ Goto(a, "relaunch")
  /\ Remove(path[a] + 1)
  /\ UNCHANGED <<tmp, self, content, writer, fd, path, want, env>>

\* a file that is being written or is no whole program does not start
Starts(i) == Whole(i) /\ \A b \in Appliers : fd[b] # i

\* relaunch asks for the path again: it starts what has that name by now
Relaunch(a) ==
  /\ At(a, "relaunch")
  /\ \/ /\ Starts(dir[runningExecutable])
        /\ Goto(a, "done") /\ launched' = content[dir[runningExecutable]]
     \/ /\ Faults \/ ~ Starts(dir[runningExecutable])
        /\ Goto(a, "failed") /\ UNCHANGED launched
  /\ UNCHANGED <<files, fd, path, want, system, info, stopping, alive>>

\* the caller of an Apply that succeeded: s.shutdown half a second after the
\* answer, d.cancel at once
AskShutdown(a) ==
  /\ At(a, "done") /\ ~ stopping /\ stopping' = TRUE
  /\ UNCHANGED <<files, calls, system, info, launched, alive>>

\* the shutdown does not wait for other calls; the program may also be killed
Exit ==
  /\ alive /\ alive' = FALSE
  /\ UNCHANGED <<files, calls, system, info, launched, stopping>>

Exited == ~ alive /\ UNCHANGED vars

Step(a) ==
  \/ Open(a) \/ Copy(a) \/ Chmod(a) \/ ClearOld(a) \/ MoveAside(a)
  \/ Swap(a) \/ Restore(a) \/ DropOld(a) \/ Relaunch(a)

---------------------------------------------------------------------------
\* CleanupOld has run; a download an earlier instance left behind may be there
Init ==
  /\ system \in Systems
  /\ dir = [p \in Paths |-> IF p = 0 THEN Original ELSE None] /\ self = 0
  /\ \E r \in Releases, i \in (Inodes \ {Original}) \cup {None} :
       tmp = [q \in Releases |-> IF q = r THEN i ELSE None]
  /\ content = [i \in Inodes |-> IF i = Original THEN Running ELSE None]
  /\ writer = [i \in Inodes |-> None]
  /\ pc = [a \in Appliers |-> "idle"]
  /\ fd = [a \in Appliers |-> None]
  /\ path = [a \in Appliers |-> 0]
  /\ want = [a \in Appliers |-> None]
  /\ info = Unknown /\ launched = None /\ stopping = FALSE /\ alive = TRUE

Next == Refresh \/ (\E a \in Appliers : Apply(a) \/ Step(a) \/ AskShutdown(a)) \/ Exit \/ Exited

Spec == Init /\ [][Next]_vars

\* system calls return, and the download has a timeout
Fairness == \A a \in Appliers : WF_vars(Step(a))
FairSpec == Spec /\ Fairness

---------------------------------------------------------------------------
Newer == {tag \in Releases : newer(tag, Running)}

\* Every variable keeps its type; no call is after a release that is not newer,
\* or after none.
TypeOK ==
  /\ system \in Systems
  /\ dir \in [Paths -> Inodes \cup {None}] /\ tmp \in [Releases -> Inodes \cup {None}]
  /\ self \in Paths
  /\ content \in [Inodes -> Newer \cup {Running, None}]
  /\ writer \in [Inodes -> Appliers \cup {None}]
  /\ pc \in [Appliers -> Steps]
  /\ fd \in [Appliers -> Inodes \cup {None}]
  /\ path \in [Appliers -> 0 .. Depth - 1]
  /\ want \in [Appliers -> Newer \cup {None}] /\ \A a \in Appliers : pc[a] = "idle" \/ want[a] # None
  /\ info \in Checked
  /\ launched \in Newer \cup {Running, None}
  /\ stopping \in BOOLEAN /\ alive \in BOOLEAN

\* update.go:343, "put the original back so the install isn't left broken":
\* wherever a call fails or dies, a whole program is left under the name of the
\* executable or beside it as <exe>.old.
NothingLost == \E p \in Paths : Whole(dir[p])

\* update.go:276, Apply "downloads and verifies the available update": nothing
\* but a whole, verified program ever has the name of the executable, or is put
\* beside it as <exe>.old.
VerifiedExe == \A p \in Paths : dir[p] # None => Whole(dir[p])

\* An Apply that was started returns, or the program has exited.
ApplyEnds == \A a \in Appliers : pc[a] \notin AtRest ~> (pc[a] \in AtRest \/ ~ alive)

\* webui.go:185-186, "A failure here changes nothing on disk; this process just
\* keeps running the version it was already on": after a call that failed the
\* executable is the one it was.
FailureKeepsExe == \A a \in Appliers : pc[a] = "failed" => dir[0] = Original

\* The versions that come after the running one, by their major number, then
\* the minor one, then the last.
After(v, w) == v[1] > w[1] \/ (v[1] = w[1] /\ (v[2] > w[2] \/ (v[2] = w[2] /\ v[3] > w[3])))
Later == {tag \in Releases : /\ Len(tag) \in 1 .. 3 /\ Len(Running) \in 1 .. 3
                              /\ After(parseVersion(tag), parseVersion(Running))}

\* No two calls overlap: whoever presses the button or the key, the last one's
\* call has returned.  Nothing in the code sees to it.
OneAtATime == \A a, b \in Appliers : pc[a] \notin AtRest /\ pc[b] \notin AtRest => a = b

\* A release that a call has put in place is there for the next start: whatever
\* later calls of this instance do, one after the other, succeed or fail, they
\* leave it alone, by the path (Linux) or because <exe>.old is in use (Windows).
\* Where neither holds a second call replaces it again.
Settled == system # "darwin" /\ dir[0] # None /\ content[dir[0]] \in Later
InstalledStays == [][Settled => dir'[0] = dir[0] /\ content'[dir[0]] = content[dir[0]]]_vars

\* One call at a time does what Install promises: the program on the machine,
\* wherever the update has put it, is replaced in one step or not at all, and
\* only by a later version than the one that runs; then a program is started,
\* and only then does this instance stop.
IsLowest(d, p) == d[p] # None /\ \A q \in Paths : q < p => d[q] = None
Lowest(d) == CHOOSE p \in Paths : IsLowest(d, p)
Installed == content[dir[Lowest(dir)]]
Promise == INSTANCE Install WITH installed <- Installed, started <- launched, leaving <- stopping,
                                 follows <- system = "linux", First <- Running, Newer <- Later
KeepsPromise == Promise!Spec
===========================================================================
