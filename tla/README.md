# A TLA+ model of FreedomToParrots

`fzp` runs *sessions*: tunnels disguised as video calls, each of them a core
process it spawns, watches, restarts and stops. A web panel and a console drive
it, and it can replace itself by a newer release. This directory specifies that
behaviour in TLA+, checks it with TLC on small instances and proves its
safety with TLAPS for every instance.

Line numbers refer to the files under `src/`.

## The system

| component | state it keeps | operations | hard parts |
|---|---|---|---|
| session manager, `internal/session/manager.go`, `manager_internal.go` | `m.sessions`, `m.rt` (process per session), `m.restart`, `sessions.json`, `<id>.pid` | Create, Update, Toggle, Rekey, ResetTraffic, Delete, Restore, StopAll, List/Get | one mutex that `stopLocked` gives up in the middle of an operation; a goroutine per process |
| loops, `internal/session/loops.go` | the backoff, `m.restart` | supervisor and monitor tick every 3 s | run between any two critical sections, also while an operation waits |
| core processes, `process*.go` | pid, log file | spawn, SIGTERM, SIGKILL after 5 s | crash at any time, may ignore SIGTERM |
| traffic accounting, `procio`, `currentTrafficLocked` | `TrafficB`, `lastIO`, `ioOffset`, `logBase` | reading, banking, harvest, reset | a counter that disappears with its process, read in several system calls |
| run(), `cmd/fzp/main.go` | the context, the port | boot, serve, drain, StopAll | requests and loops go on during the shutdown |
| self-update, `internal/update` | `Tracker.info`, the executable, `<exe>.old`, a download per release | check, Apply, CleanupOld | renames of the running executable, whose path is asked for again afterwards; two callers, death in between |
| web panel, `internal/webui` | login cookies | login, logout, one manager call per request | overlapping requests, a restart under open tabs |
| panel script, `webui/assets/panel.js` | the busy flag, the form, the view | refresh, operations, update, reload | answers that overtake each other, a server that is replaced |
| console, `internal/console` | banner state, the close button's confirmation | draw, update key, close button | a second caller of Apply; a warning shown by one goroutine and confirmed in another |
| store, `internal/store` | `sessions.json`, `settings.json` | load, atomic save | crash, two instances |
| core extraction, `internal/corebin` | the core binary and its `.sha256` | Extract | crash between two writes, binary in use |
| fields and config, `config.go`; snapshot, `problems.go`; security | none | validation, texts, tokens | – |

Requests, the two loops, the exit goroutine of every process and `run()` share
the manager's maps under `m.mu`. Whoever stops a process holds the lock up to
the `SIGTERM`, releases it until the exit goroutine has closed `done`, and then
takes it again: all the hard interleavings of this program go through that gap.

What makes each part correct:

* manager: a session has one tunnel at most; what is stored is what is in
  memory; pid files name processes of ours; a stop, an edit and a removal do
  what they say although the lock was free in between.
* loops: a session that should run is tried again; one over its limit is stopped.
* shutdown: it ends, and nothing is left running.
* accounting: every byte is counted, once.
* self-update: the machine always keeps a whole executable; only a verified one
  is installed, and it is not replaced again by mistake; each call returns.
* two instances over one directory (an update, a second start, a restart after a
  kill): a core left behind has been told to end, the core that runs is the right one,
  `sessions.json` stays readable and keeps what the panel accepted, and a panel
  is there in the end.
* panel: a tab is neither stuck nor stale, and does not start two updates.
* console: closing takes two clicks, and the warning says the truth.

`PROJECT.json` lists under `hazards` the places in the code where these can go
wrong, and which property watches over each.

## Modules

| module | what it is |
|---|---|
| `SessionManager` | the manager, the loops, the processes, the requests and `run()`; the core of the project |
| `MCSession` | small instances of it for TLC |
| `Tunnels` | abstract: what the manager promises of its tunnels and of `sessions.json`; implemented by `SessionManager` |
| `SessionManagerProofs` | types, what a thread in `stopLocked` relies on, and `SavedState` |
| `SessionTunnelProofs` | `OneTunnel`, `NoStalePidFile`, the refinement of `Tunnels`, `CleanShutdown`, and when records and processes agree |
| `Traffic`, `TrafficProofs` | the accounting of one session, with the arithmetic `SessionManager` abstracts; all its invariants |
| `Supervisor`, `SupervisorProofs` | the backoff, second by second, which `SessionManager` abstracts to "at some time"; all its properties |
| `Install` | abstract: what a self-update promises |
| `SelfUpdate`, `SelfUpdateProofs` | detailed: `Tracker.Apply`, system call by system call; implements `Install` for callers that do not overlap |
| `MCUpdate` | small instances of it for TLC |
| `AtomicFile` | abstract: a file that several writers replace in one step each; implemented by what `Handoff` does to `sessions.json` |
| `Handoff`, `HandoffProofs` | several instances of `fzp` over one data directory: core extraction, store, pid file, port, start and shutdown |
| `MCHandoff` | small instances of it for TLC |
| `Panel`, `PanelProofs` | a browser tab with the panel's script, and the handlers it talks to |
| `Console`, `ConsoleProofs` | the dashboard, the update key and the Windows close button |

How they fit together: `SessionManager` is one instance; `Handoff` puts several
of them over one directory and reduces each to what they share; `Traffic` and
`Supervisor` refine the two things `SessionManager` leaves open (how much was
counted, when the backoff is over); `SelfUpdate` is the Apply that `Panel` and
`Console` ask for, and what it starts and stops is what `Handoff` calls another
start and `Cancel`.

### SessionManager and the code

*An action is a critical section of `m.mu`.* An operation that has to stop a
process is two: `Update` up to the unlock inside `stopLocked`, `UpdateResume`
from the moment it has the lock again. The shared code is shared in the model:
`StartLocked` (what `startLocked` returns), `Launch` (what its success does),
`StopLocked`, `Persist`/`Commit` (`saveLocked`) and `StartAndSave`, the tail of
Create, Update, Rekey and ResetTraffic.

| variable | code |
|---|---|
| `sess` | `m.sessions`; a deleted record stays, because a waiting operation still holds its pointer |
| `rt`, `restart` | `m.rt`, `m.restart` |
| `proc` | a process and its exit goroutine: `up`, `exited` (dead, the goroutine has not had the lock), `reaped` (harvested, pid file still there), `down` (`done` closed); `sig` is the last signal, `conf` what the process was started with |
| `pidfile`, `disk` | `<id>.pid`, `sessions.json` |
| `thr` | for each request, the monitor and main: what it stops a process for, which process, and what is left of the range it is in |
| `main`, `ctxDone`, `supOn`, `monOn` | where `run()` is, the context, the loops |

Go's `range` over a map visits the entries in any order: the ranges of the
monitor and of `StopAll` carry a set `todo`, pass any part of it before they
stop a session, and may or may not see a session created meanwhile.

Abstractions: `over` replaces the comparison of the counted traffic with the
limit (a reading of a live process may find it reached, one of a dead process
may not see the run); `room` stands for every editable field; a failed write of
`sessions.json` or of a pid file, which the code ignores, does not happen; a
request that has not got the lock when the shutdown begins is not served; the
backoff elapses at some time, its length does not matter; ids are never reused.

*The abstraction, `Tunnels`.* Seen from outside, the manager keeps a file of
sessions and a core for some of them, and `KeepsTunnels` says that all the
operations together come to five steps: write a session into the file, open a
tunnel for a session that has none, with the room and the key the file holds at
that moment, close a tunnel, remove a session, end. The mapping: `saved` is
`disk`; `core[s]` is the configuration of the live process of a session that was
not deleted; `removed` are the deleted ones; `ended` is `run()` having returned.
It is what `saveLocked` after `startLocked` in every operation is for: a core
that runs is a session's only one, and the file knows what it runs with. The
processes of deleted sessions are outside of this promise, since `Delete` may leave
one (the refuted run `records_in_effect` shows the same window).

### Traffic and the code

One session, its current run, the same critical sections. `moved` and `logged`
are what the kernel's counter adds up (log bytes count half, so a unit of
`logged` is two bytes); `base` is the part of the log `logBase` includes,
because `logf.Stat` comes after `cmd.Start`. A reading takes the counter first
and the log's size later: the log may grow in between (`more`). `due` is the
ghost that knows what really moved and `known` what a reading has shown.

Two properties face each other, and each names the overlaps in which the code
does not keep it. `NoOvercount` exempts a history with a reading or a second
stop inside a stop window (`manager_internal.go:94-97` banks before the
process is dead, so a poll in the window shows those bytes twice), and one with
a reset between a process's death and its collection, which banks again what was
reset. `NoUndercount` exempts a stop that meets a process already dead but not
yet collected, whose counter is gone (`manager_internal.go:125`). It speaks of
what a reading *has shown*: after a reset of a session that runs
(`manager.go:303`) the log written before is subtracted a second time, so the
new total begins too low.

### Supervisor and the code

`supervisorTick` with `loopInterval`, `stableAfter` and `maxBackoff` as they
are in `loops.go`, a tick every three seconds, and everything else that starts or
stops a session in between. `restartState.next` is kept as the seconds left.
`Spaced` compares with `Delay`, a doubling written independently of the shift
in `backoffFor`. `r.next` is not reset by a stable run: a session that crashes
right after its first stable minute may have to wait for the rest of an old
delay, up to about four minutes, with a failure count of 0. That is what the
code does, and `NotForgotten` bounds it.

### SelfUpdate and the code

One action is one system call of `downloadVerified`, `applyInfo` or `relaunch`,
and each may fail. A name refers to an inode and an open download to an inode,
so that the model knows that a rename moves a file somebody still writes to.
Releases are sequences of numbers, compared as `newer` compares them: a tag with
more than three components is no version, and a missing component counts as 0.

| variable | code |
|---|---|
| `system` | where it runs, fixed at the start |
| `dir` | the executable, `<exe>.old`, `<exe>.old.old` (`Depth` bounds how often the suffix is appended) |
| `tmp` | `.update-<release>`, one name per release |
| `self` | what `os.Executable` returns |
| `content`, `writer` | of each inode, what it holds and which call truncated it last |
| `pc`, `fd`, `path`, `want` | of each call of Apply: the next step, the open download, `exe` of `applyInfo`, `info.Latest` |
| `info`, `launched`, `stopping`, `alive` | `Tracker.info`, the version started last, whether a caller has asked for the shutdown, whether the instance still runs |

*The own path.* Apply asks `runningExecutable` twice, in `applyInfo` and again in
`relaunch`, after the renames, and the systems differ in the answer:

* Linux (and FreeBSD) name the file that runs, which the rename of
  `update.go:336` has called `<exe>.old`. If `update.go:348` removed that, the
  second call fails and so does Apply; if not, `relaunch` starts the *old*
  program. Only a start by hand runs the new one.
* Windows names the path the program was started by, and starts the new one; a
  file that runs can be renamed there, but neither removed nor replaced.
* macOS (and OpenBSD) name that path as well, and nothing protects a file.

After a restart that failed, Apply may be called again: on Linux its first step
fails, as the path is gone, or it updates `<exe>.old` and leaves the new release
where it is; on Windows `<exe>.old` cannot be cleared away, so the rename onto it
fails; on macOS it installs once more. `newer` compares with the version
that *runs*, not with the installed one, so this may put an older release in the
place of a newer one, if that has become the latest in between. `InstalledStays`
says that on the other two systems an installed release stays.

*The abstraction, `Install`.* The program on the machine is what the first existing
of `<exe>`, `<exe>.old`, ... holds (`Installed`, by way of `Lowest`). In every
behaviour without overlapping calls it changes in one step (the rename that
swaps), to a verified release newer than the one that runs; only then is an
instance started, and only then is this one asked to stop. `follows` is the system's
answer above: where it is true, what is started is the old program.

`AskShutdown` is the statement after a successful Apply in both callers, `Exit`
the end of the shutdown, of a kill or of any other reason, at any time. An
instance that starts meanwhile, with its own `CleanupOld`, is not in this module.

### Handoff and the code

One action is one system call on a file the instances share, or one critical
section of `m.mu`.

| variable | code |
|---|---|
| `pc` | where `run()` is: Extract (`check`, `write`, `sum`), `session.New` (`load`), Restore (`reclaim`, `restore`, `keep`), the port (`listen`), serving, and the shutdown |
| `img`, `sum` | the extracted core and its `.sha256` |
| `disk`, `tmp`, `sv` | `sessions.json`, `sessions.json.tmp`, and what `writeJSONAtomic` of each instance has done; renaming moves the file another instance may still be writing to |
| `core`, `mem`, `proc`, `pidfile` | `m.corePath`, the session's record, its process, `<id>.pid` |
| `wish`, `mishaps` | history: what the user asked for, and what went wrong: a kill or colliding saves (for good), a last save that failed or one of an older instance after it (until the next save) |

Faults: an instance may be killed at any step, any write may fail, the next one
may be started while the last one serves or after it ended or was killed; the
first finds whatever a killed predecessor can have left (`Leftover`). Who starts
the next one does not matter to the files: on Windows it is the update or the
user, on Linux the user, or the update that starts the old program again. That the
old instance is then asked to stop is `Cancel`, which may come at any time. `ETXTBSY` is modelled:
a core that runs cannot be opened for writing. Linux is assumed: `Pdeathsig` ends
the core when its instance dies. On Windows the job object does; elsewhere
(`pdeathsig_other.go`) nothing does, and a core may outlive its instance.
`GiveUp` (the port stays taken) is only for a holder that is not stopping: the
retries go on for 7.5 seconds, and the old instance drains for less.

*The abstraction, `AtomicFile`.* `SavesAtomically` says that the system calls
of `writeJSONAtomic` (open and truncate, write, close, rename; the file that is
being written may have been renamed by another instance meanwhile) come to one step, `Put`, which
replaces the file by the record its writer holds, or to none, `Abandon`, when one
of them fails or the instance is killed; and that the record is not touched
between the lock and that step. The mapping: the file is `disk`, the records are
`mem`, an instance is writing while its `m.mu` is held for a save. Once two
instances have overlapped (`mixed`, that is `collided`) the promise is void. That
`sessions.json` is readable until then (`SavesWhole`) follows from it, and is proved
by itself.

Conditions under which the code keeps its promises, and which the properties name:
two instances that save at once can leave an unreadable `sessions.json`, for
the temporary name is shared (`collided`); the old instance saves once more in
StopAll and overwrites an edit made in the new panel, until the new one saves
again (`late`); a save that fails leaves the file behind until the next one
(`unsaved`); two instances that boot at the same time may extract at the same time,
so the next one is started when the newest serves or has ended; a downgrade
after a crash between the two writes of Extract would run the wrong core, so
releases only go up (`UpgradeAssumption`).

### Panel and the code

`server` is the instance that has the port; its handlers answer when they are
scheduled, and an answer arrives at any later time. `poll`, `op` and `call` are
requests in flight or answers on their way; `busy`, `editing`, `button` and
`waiting` are the script's own. A `401` reloads the page, which leads to the
login page; the connection errors of the browser are a page of their own.
`ButtonHeld` exempts `raced`: a refresh that is in flight when the button is
pressed, or another operation that ends and clears `busy`, draws the banner
anew, and the same tab can start a second Apply, with what
`two_updates_lose_exe` shows. `ViewCurrent` speaks of what the view is *in the
end*: it may go back for a while. What is typed into the form is lost when the
server was restarted meanwhile, because the save is answered by 401.

### Console and the code

`draw` is called by the loop every two seconds and by the update key's
goroutine; `Close` is the handler of the console's events. The clock is in
seconds. Two clicks on the close button within the time between two draws
confirm before the warning was ever shown: `CloseTwice` claims the warning only
for later ones. Lines that queued up while an update failed start another one.

## Runs

Passing:

| run | instance | shows |
|---|---|---|
| `session_safety` | one session, 2 overlapping requests (symmetric), the monitor, main, 2 handles; any `sessions.json` and stray pid files; spawns may fail | `TypeOK`, `OneTunnel`, `NoStalePidFile`, `SavedState`, `KeepsTunnels` (the refinement of `Tunnels`) |
| `session_live` | one session, one request, spawns succeed, fair | `StopsEnd`, `ShutdownEnds`, `CleanShutdown`, with a core that may ignore SIGTERM; `Revived`, `LimitEnforced` |
| `traffic_account` | a limit of 4, 6 units moved, 3 logged, a base of up to 2 | `TypeOK`, `NoOvercount`, `NoUndercount`, `BankGrows` |
| `supervisor` | one session, the constants of the source | `TypeOK`, `Spaced`, `NotForgotten`, `StableForgets`, `FreshStart` |
| `update_single` | one caller, called again after each failure; Linux, Windows and macOS; four inodes; three releases, one of them no update; fair | `TypeOK`, `NothingLost`, `VerifiedExe`, `KeepsPromise` (the refinement of `Install`), `InstalledStays`, `ApplyEnds` |
| `handoff` | two instances, the second with a newer core, writes that fail, fair | `TypeOK`, `OwnCore`, `EditsSaved`, `NoOrphan`, `SavesAtomically` (the refinement of `AtomicFile`), `PanelBack` |
| `panel` | one tab, two refreshes, an operation and an update in flight, fair | `TypeOK`, `ButtonHeld`, `BusyEnds`, `ViewCurrent`, `StaleTabLeaves` |
| `console` | the constants of the source, two queued lines, fair | `TypeOK`, `WarningTrue`, `CloseTwice`, `InstallReported` |

Refuted, each a statement of the code's own comments (`findings` in
`PROJECT.json` quotes them):

| run | counterexample |
|---|---|
| `records_in_effect` | Update waits for the old process; meanwhile the session is started with the old fields; Update finds it running and leaves it |
| `two_updates_lose_exe` | the panel's and the console's update share the name of the download: one truncates the file the other has verified, the other installs it and removes the executable it had set aside |
| `handoff_keeps_enabled` | a release with a new core, started while the old instance runs, cannot replace the core the old tunnels execute (`ETXTBSY`), has none itself, and Restore disables the session and saves that; the last save of the old instance may then write "on" back into the file, of which the running instance knows nothing |
| `failed_update_replaces` | on Linux, without any call failing before: the executable is swapped, `<exe>.old` removed, and `relaunch` asks for the path of the file just removed; Apply returns an error and the executable is another one |

`RecordsInEffect` fails in the same way for the other two operations that wait
in `stopLocked` and go on as if nothing had happened: Delete
(`manager.go:320`), after which the process that was started in the window has
no handle any more, and the monitor (`loops.go:135`), which leaves a
`Limited` flag on a session that runs. For Update, Rekey and Delete the window is
the whole cause: `RecordsHold` proves the first two parts of `RecordsInEffect` for
the behaviours in which no session is started or deleted while another operation
waits to stop it. The third part has a second cause, Toggle starting a session
that is marked `Limited`.

### Why the bounds are enough

*Session manager.* Sessions share nothing but the lock, the file and the ranges
over the map, so one session shows every interleaving around it. What two sessions
add, the ranges of StopAll and the monitor, rests on the proofs (`ShutdownIsClean`,
`SavedCorrect`), and so does a second room or key: `session_safety` has one of each,
since two are past six million states without an end in sight, and that a tunnel has
the room and key of the file is `TunnelsKept`. Two requests are enough to overlap
in one stop window, and the monitor and main are two more waiters that are always
there. Two handles let a new process exist while the old one is still being collected; a
third could only repeat this. When all are taken, a start waits for one to be
free, which takes no behaviour away that has not been seen with a free one. The
symmetry of the two requests is used for invariants only. The proofs remove all
of these bounds for safety.

*Traffic.* The smallest counterexamples to the same properties without their
conditions need three steps and one or two units.

*Self-update.* The releases are an older one, a newer one and a still newer one,
so that a second update after a failed restart finds another release. One caller
needs no more than four inodes: the original, the installed release, the
download, and a leftover. `Depth` 2 allows an update of `<exe>.old` into
`<exe>.old.old`; Apply is not called where that would need another level.

*Handoff.* Two instances are what an update or a second start is; what a third
would find is what the first may find in `Leftover`. The proofs hold for any
number.

*Supervisor.* `backoffFor` is constant above 7 failures, so `FailCap` at 9 loses
nothing; the ages and waits are followed past the last value that is compared
with. The caps are constants of the module (`CapAssumption` says how far they must
reach), and the proofs hold for all of them.

*Panel.* Two refreshes can overtake each other, and a third could only
be between them; one update in flight is what `ButtonHeld` allows, `Applying`
beside an offered button is its violation. One change of the sessions
gives the tab something to be stale about.

*Console.* The confirmation is followed beyond the next draw after its window; this
bound and that of the queued lines are constants, and the proofs hold for all.

### Fairness

`SessionManager.FairSpec` assumes what the Go scheduler, the kernel and the
timers give: goroutines that can run do, and get the mutex (`WF` of the resumes,
of the exit goroutine's two steps, of the loops' ticks and returns); SIGKILL
kills, but SIGTERM need not, and no process is assumed to exit by itself (`WF` of
`Killed` only); `stopGrace` and the backoff elapse; `run()` goes on. Nothing is
assumed of requests or of the signal that ends the program. Three actions have
strong fairness, the supervisor's tick and the resumes of Update and Rekey, for
one reason: they may start a process, and a start is disabled while all handles
are taken. That is a bound of the model and not of the code, where a goroutine
that waits for a mutex gets it in the end.

In `SelfUpdate`, system calls return and the download has a timeout; nothing is
assumed of a shutdown. In `Handoff`, instances go on, and the core that StopAll
waits for ends, since `stopLocked` kills it after five seconds; one that got only the
SIGTERM of `Pdeathsig` or of `killStray` may stay for ever. In `Panel`,
the browser and the server answer or fail in the end, and the script's timers
fire. In `Console`, time passes and the goroutines run; nobody has to type.
`Supervisor` states safety only.

## Proofs

All for arbitrary constants: any number of sessions, handles, requests, fields,
instances, refreshes, releases, and any bound on the clocks. Every invariant and
every safety property that a passing run checks is proved, the refinements of
`Tunnels`, `AtomicFile` and `Install` included.

* `TypeCorrect` (`SessionManagerProofs`): `Spec => [](TypeOK /\ ThreadOK)`.
  `ThreadOK` is what makes it inductive and useful: a thread in `stopLocked`
  names a session that exists or existed, so a resume never writes a record
  out of nothing. The helpers (`Launch`, `StartAndSave`, `StopLocked`,
  `MonitorStop`, `StopNext`) have lemmas, and the step theorem one case per action.
* `SavedCorrect` (`SessionManagerProofs`): every action saves all it changed, or
  changes nothing a save would show, but for the monitor, whose range marks
  sessions and saves at its end.
* `TunnelsCorrect`, `PidFilesCorrect` (`SessionTunnelProofs`): the strengthening
  `TunnelInv` adds that a session never created has no process and that pid
  files belong to their session. Every action is of one of two kinds: it starts
  processes, for sessions without a runtime only (`StartEffect`), or it starts
  none and forgets none that is alive (`NoStartEffect`).
* `TunnelsKept` (`SessionTunnelProofs`): `SessionManager` implements `Tunnels`.
  The second kind is split once more: the processes are as they were (`Steady`),
  or one ends and nothing is saved (`Ends`). A start is an `Open` or, of a deleted
  session, a stutter, and `StartOpens` needs `OneTunnel` for "has none" and
  `SavedState`'s invariant for "with what the file holds"; a steady step is a
  `Write`, a `Remove`, the `End` or a stutter; an end is a `Close` or a stutter.
* `RecordsHold` (`SessionTunnelProofs`): the condition under which what run
  `records_in_effect` refutes is true, `Spec /\ [][Unhindered]_vars => [](DeletedIsGone
  /\ ConfigInEffect)`. `Unhindered` says of a step that the sessions it starts
  or deletes have nobody else waiting in `stopLocked`. `RecordInv` is the argument:
  whoever waits, waits for the process its session runs, so it finds none when
  it has the lock again, and the record changes while nothing runs with the old
  one. The hypothesis leaves the concurrency in: requests may wait for the same
  session and resume in any order, processes may crash and the supervisor may
  start others meanwhile.
* `ShutdownIsClean` (`SessionTunnelProofs`): `CleanShutdown` follows from an
  invariant that holds from the quiet moment on. `Handles`: `m.rt` names only
  processes that are not yet collected. `MainIdle`: main waits for a process in
  StopAll and nowhere else. `Draining`: a session that still has a process is
  ahead in StopAll's range or is the one it waits for; nothing starts another,
  since the supervisor and the requests are done and stay so.
* `TypeCorrect`, `DelaysKept`, `NoneForgotten`, `StableRunsForget`, `StartsFresh`
  (`SupervisorProofs`): none of the properties is inductive, because the history
  that they compare with and the fields of `restartState` run side by side. The
  invariant `ClockInv` ties them: `CountsAgree` (the failures counted by the history are
  the code's), `DelayKept` (an attempt that was delayed still has the
  rest of its delay ahead), `WaitBounded` (a delay ends within what is left of 300
  seconds since the last attempt), `StableSeen` (a run of a minute has reset the
  count), `FreshByHand` (a start by hand has no delay). `backoffFor` itself is a
  lemma: it equals the doubling, and never exceeds the cap.
* `TypeCorrect`, `WarningIsTrue`, `ClosesTwice` (`ConsoleProofs`): `ScreenOK` ties the
  warning on the screen to the armed confirmation and to the next draw.
* `TrafficTypes`, `NothingCountedTwice`, `NothingForgotten`, `BankNeverShrinks`
  (`TrafficProofs`): `CleanBank` bounds what the counter *can* still show of the
  run by what the process moved since its offset was taken, and says that a
  process being stopped has nothing left for its exit goroutine to add.
* `UpdateTypes`, `NothingIsLost`, `OnlyVerified`, `InstalledIsKept`,
  `UpdateRefinesInstall` (`SelfUpdateProofs`), the last four for any number of
  callers that do not overlap (`OneAtATime`; `two_updates_lose_exe` shows what they
  do when they do, and `update_single` is the case of one caller). `OneCallInv`
  is two things. `Kept` holds between the calls: where the running file is and
  what `self` says of it on each system (`SelfKept`, `InUseKept`), that downloads
  and executables are different files (`TmpKept`), that every executable is
  whole (`FilesKept`), and that there is one (`HasLowest`). `OneCall` says, for each
  place in Apply, which of its names exist and what they hold, so that the rename
  aside keeps the program the lowest name leads to, and the swap is the one step
  that changes it. `NewerIsLater` shows `newer` to be the order on versions.
* `HandoffTypes`, `TunnelsEnd`, `CoreIsOwn`, `SavesAreWhole`, `EditsAreSaved`,
  `SavesAreAtomic` (`HandoffProofs`). `Ordered`: only the newest instance still boots. `Tended`:
  what an instance leaves behind was told to end. `CoreFiles`: `.sha256` names a
  whole core, or an older one than the file is, which is why the order
  of Extract's two writes matters. `SafeSaves`: as long as nobody collided, one save
  at a time holds the temporary name. `EditsKept`: what is in memory is in the
  file, or in the save under way, or the history says which save is missing; a save
  of the newest instance makes up for a failed or overtaken one. `RenameKeeps`: what waits to be renamed is the
  record its writer still holds; with it each of the system calls is a
  `Put`, an `Abandon` or a stutter of `AtomicFile`, and `SaveKinds` says that
  every other step begins a save, ends one by death, or touches none.
* `PanelTypes`, `ButtonStaysHeld` (`PanelProofs`): `Held` says that nothing that
  could draw the banner is in flight while an update is, unless `raced`.

They rest on the named assumptions of the modules: `None` and `Stray` are no
values of anything else, the monitor, main and the requests are different
threads (`NoneAssumption`, `ThreadAssumption`), spawning gives "spawned" or
"failed" (`SpawnAssumption`), inodes and versions are what they are
(`InodeAssumption`, `VersionAssumption`, `SystemAssumption`), a later instance is not an older
release (`InstanceAssumption`, `UpgradeAssumption`), and the bounds are natural
numbers (`BoundAssumption`, `PanelAssumption`), large enough in `Supervisor`
(`CapAssumption`).

Only model-checked: liveness (`StopsEnd`, `ShutdownEnds`, `Revived`,
`LimitEnforced`, `ApplyEnds`, `PanelBack`, `BusyEnds`,
`ViewCurrent`, `StaleTabLeaves`, `InstallReported`), since the provers handle
neither fairness nor ENABLED.

## Not modelled

* Snapshot, problem texts, QR images, log tails, drawing, page layout, the
  panel's read-only dialogs: computed from one `List`, and nothing depends on them.
* `cleanFields`, `normalizeRoom` and the rest of the field validation, the parsing
  of a release's JSON, paths: string work on one value, which the repository's own
  tests tabulate; no state and no order of steps is involved.
* `settings.json`: one read at each start, and one write when it fails. That any
  error of that read counts as a first run (`store.go:50`) is listed as a hazard.
* The security package: tokens are distinct values. A cookie's expiry after a month.
* Details of the operating system: the Windows job object (only the guarantee
  it gives), the traffic counters of other systems (there are none: the counter
  is never readable), power loss (`writeJSONAtomic` does not sync, so what is left
  after one is up to the file system).
* In `SelfUpdate`, the `CleanupOld` of an instance that starts while another updates;
  in `Handoff`, two instances that extract at the same time.
* A core that ignores SIGTERM after its instance has gone: `NoOrphan` says that it
  is sent the signal, and the code does no more.
* A write of `sessions.json` that fails is in `Handoff`; in `SessionManager` the
  disk never fails, so that `SavedState` can say what the code does when it works.

## Plan

Carried out: the manager with its abstraction and its proofs, the accounting, the
self-update with its abstraction, the handoff with store and core extraction and
the abstraction of a save, the backoff, the panel, the console, and the proofs of
all of their safety.

What could follow, in this order: what the refuted `KeepsEnabled` is worth with
the condition the code needs (instances with the same core, and no older instance
in the middle of a save), as an invariant and a theorem; the refinement from a
two-session `Handoff` to one `SessionManager` per instance; the Windows variant
of `Handoff`, where a running executable and core cannot be renamed over.
