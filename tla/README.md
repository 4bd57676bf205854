# portpin in TLA+

portpin frees a network endpoint: it finds the process that holds it, pins that
process so that a recycled PID is never hit, asks it to stop, waits, and kills
it if it must. What can go wrong lies between its system calls: processes fork,
exit, are reaped, hand sockets to their children and have their PIDs reused
while portpin looks, pins, waits and signals; socket tables change between two
reads of them; a console that portpin borrows on Windows makes its own output
stale. The modules here model that, TLC checks them on small instances, and
TLAPS proves the central guarantees for every value of the constants. Paths and
line numbers refer to `src/`.

## 1. The system

| Component | State | Operations | Interacts with |
|---|---|---|---|
| `internal/terminate` | options, result, the budget of a wait | `Run`: probe, graceful stop, poll for release, look at the lifecycle, hard kill, poll again | calls a controller and a probe; both may fail at any call |
| `internal/pin`, Linux | the recorded start time, a pidfd | `Pin`, `Graceful`, `Hard`, `Lifecycle`, `Close` | the kernel, by number and by descriptor |
| `internal/pin`, macOS | a kqueue with an exit filter, the start time, a latch | the same interface | the kernel, by number |
| `internal/pin`, Windows | a process handle; for the program, whether it left its console | the same interface, `RestoreConsole` | the kernel by handle, the consoles, the thread that dispatches control events |
| `internal/pin/group.go` | the pinned members, the primary first among them | `PinGroup`, `each`, and the controller's methods | one controller per member |
| `internal/discover` | none between calls | `Resolve`, `ListAll`, `ProcTable`, `GroupMembers` | `/proc`, netlink, lsof and netstat, IPHlpAPI, Toolhelp, each read in several steps |
| `internal/model`, filter | none | `Matches`, `NarrowToExactMatch` | `Resolve`, and the probe through it |
| `cmd/portpin`, `killOne` | controllers, the pinned PIDs | pin, probe by discovery, `terminate.Run`, close | all of the above |
| `cmd/portpin`, `consoleOutputWorkaround` | the saved outputs, two pipes | begin, finish: hold output back, restore the console, replay | the controllers of Windows |
| `cmd/portpin`, `runKill` | flags, bindings, targets, groups, exit code | discover, advise, groups, dry run, confirm, the kill loop | `killOne` per target |
| `cmd/portpin`, `runWait` | a timer | `waitFor` | discovery |
| target parsing, table parsers, advise, render | none | pure functions on text and bytes | their callers |

What is hard in it:

- *Identity.* A PID is a number that discovery, the probe, `Lifecycle` and the
  fallback of `signal` each read anew.
- *Several steps that look like one.* The socket tables and the walk of `/proc`,
  netstat and lsof, the process table, start-time check and `kill(2)`, the
  snapshot and the creation times on Windows, detach, attach and broadcast.
- *Groups.* Members fail one by one, in the middle of a pass; parents leave
  numbers behind that are reused.
- *Time.* Waits have budgets, polls and timers that race with the event waited
  for; portpin's own Ctrl-Break comes back to it after a delay.
- *What is reported.* Outcome and exit code condense what several processes and
  several readings said.

What makes each part correct is stated as properties in its module, and
`PROJECT.json` lists the hazards with the line where each bites and the
properties that would catch it.

## 2. Modules

```
Teardown  <=  Terminate                  abstract promise and the escalation
Hold  <=  Pins, KillWindows              abstract promise of the controllers
Kernel  <-  PinLinux, PinDarwin          processes and one socket; the controllers of Unix
PinLinux, PinDarwin  <-  Pins            one system or the other
PinLinux, Terminate  <-  KillOne         killOne, discovery and the group controller
PinWindows, Terminate  <-  KillWindows   the kill loop on Windows, with consoles and the output guard
Sockets  <-  Resolver  <-  ResolveLinux, ResolveDarwin, ResolveWindows  <-  Discovery
GroupMembers                             which processes --group stops
RunKill                                  the driver and its exit code
Wait                                     portpin wait
X_proof                                  theorems about X;  MCX and *.cfg: instances
```

(`<=` is refinement, `<-` is EXTENDS or INSTANCE.)

**Teardown** is what `terminate.Run` promises: it looks, tries the graceful and
then the hard stop, and concludes with an outcome that the last look and the
last error justify (`Justified`). It knows no time.

**Terminate** is `terminate.go`. `stage` is the position in `Run`; `FirstProbe`,
`Graceful`, `Poll`, `CheckReleased`, `CheckHeld`, `Hard`, `PollHard` and
`HardExpired` are the calls it makes, in the order and with the early returns of
the code; `polls`, `spent` and `budget` are `waitForRelease` and `pollSchedule`.
The callbacks answer anything at every call. The waits are in milliseconds.

**Hold** is what `internal/pin` promises of a controller on every platform: it
holds the process that discovery read, for good, and its signals reach that
process. Where the kernel offers no handle to signal through (`leaky`), a signal
may reach a younger process that got the number just then, and it is the last
one that the controller delivers. `known` is the start time discovery read,
`held` that of the process held.

**Kernel** is external: a process table with reused PIDs and zombies, and the
set of processes that hold the endpoint's socket, which `Fork` shares.

**PinLinux** is `pin_linux.go`, one system call to a step: `ReadBefore`,
`PidfdOpen`, `ReadAfter` are `Pin`; `SendPidfd`, or `Verify` and `RawKill`, are
`signal`. `hasPidfd = FALSE` is the fallback for kernels before 5.3. `Refusals`
lets calls be denied. `delivered` is the history of signals that arrived, with
the start time of the receiver.

**PinDarwin** is `pin_darwin.go` in the same manner: `KReadBefore`, `Watch`
(`EV_ADD`) and `KReadAfter` are `Pin`; `CheckExit` (`exitSeen` and its latch),
`CheckStart` and `Kill` are `signal`; `KLifecycle` compares start times, which
its namesake on Linux does not. Each read of the start time of a zombie may
yield 0 (`StartTimes`), so `KLifecycle` is the set of the answers it may give:
another process with the number is `Gone`, but `Zombie` if it is a zombie that
reads 0. `NeverRevived` is therefore about `Alive`.

**Pins** runs either system's controllers for several PIDs and maps them to
`Hold` (`KeepsHold`): a controller holds the process whose start time it
recorded from the return of `Pin` on. A controller of macOS that recorded 0,
of a zombie, does not know whom it holds, and its signals are not counted
(`Sent`).

**PinWindows** is `pin_windows.go` with the consoles: `Gs` (`gstep`) is the
position in `Graceful`, which detaches portpin from its console, attaches it to
the target's, installs a handler, raises Ctrl-Break, sleeps, detaches again and
takes the handler away, and which may fail at each call, the deferred ones
included: their errors are discarded, and `stuck` records what they failed to
undo. The system keeps a list of handlers, so `handler` is a count. `Raise`
delivers the Ctrl-Break to every process that is attached to the console
(`Sharers`); `delivered` records with each stop the target it was meant for
(`by`). `Dispatch` is the system's thread that delivers the event to portpin,
which ends it if no handler is there. `RestoreConsole` attaches to the console
of portpin's parent, or fails, or finds portpin attached to a console still,
which it takes for success. **KillWindows** composes it with `Terminate` and with
`consoleOutputWorkaround` and `RestoreConsole` (main.go, pin_windows.go) for the
loop over the targets; `lines` is where the line of each outcome is: still in a
buffer, shown where its stream leads, misplaced on another console or on the
terminal instead of a file, or lost through a stale handle. `KeepsHold` is about
the stops that reach the target's number (`Aimed`), `BreakConfined` about all
others.

**KillOne** composes PinLinux with `terminate.Run` (`T == INSTANCE Terminate`)
and models `killOne`, the scan that names its target, and `group.go`'s
`PinGroup` and `each`. Between any two system calls the other processes may do
anything. `witnessed` is the history of what the probes saw. A group is any set
of live processes here.

**Sockets** is external: sockets in the two address families, shared and closed
by processes that portpin may inspect (`Visible`) and others (`Hidden`), which
lose a descriptor before the socket leaves the tables, and connections that
drain through FIN_WAIT and TIME_WAIT. **Resolver** has what one call of
`Resolve` or `ListAll` shares on all platforms: the request, `Matches` and
`NarrowToExactMatch`, the exit code that the caller makes of the answer
(`Verdict`), and the history that the properties speak of (`kept`: who held what
throughout, `ever`: at any time, `before`: what was open at the call, `recent`:
what was still listed at the last reading of the tables). **ResolveLinux** is
`attachOwners` with the dump of each family by netlink or `/proc/net`, the walk
of `/proc`, its retries and `liveInodes`; **ResolveDarwin** is `collect` with
lsof between two runs of netstat and the comparison of their rows by keys;
**ResolveWindows** is `fetchTable` with its growing buffer. **Discovery** joins
the three and states the properties.

**GroupMembers** is `discover/group.go`: the process tree evolves (fork, exit
with reparenting or with stale parent numbers, `setpgid`, `setsid`), `ProcTable`
reads it the way the platform does (one `stat` after another on Linux, one
snapshot on macOS, a snapshot and then creation times and command lines on
Windows), and
`Select` is the algorithm: chain of portpin, climb, process group, walk, depth,
refusals. Each loop of the code (own chain, climb, walk, depth) is an iteration of one
named step (`Iterate` of `WithParents`, `ToParent`, `WithChildren`, `UpIn`), and
`Selected` is what is returned. `line` records true descent, so that the
properties do not depend on the numbers the algorithm uses. Whether a program is one the climb may pass
(`climbable`, by names and command lines) is a Boolean of the process.

**RunKill** is `runKill` with `killOne` reduced to what its outcomes mean for
the sockets. **Wait** is `waitFor` with its timer, its sleep and looks that take
time.

## 3. What the runs show

| Run | Question and result |
|---|---|
| `terminate` | Are waits bounded, and is a budget of zero or less no wait (`WaitBounded`), is the hard kill patient (`HardKillIsPatient`), does `Run` return (`Terminates`) and keep the abstract promise (`ImplementsTeardown`)? Yes, for timeouts 3000, 180, 0 and -1 ms, with and without `--force`. |
| `pins` | Do the controllers of Linux, with and without `pidfd_open`, and of macOS keep `Hold` (`KeepsHold`)? With a pidfd nobody else is signalled (`OnlyPinnedSignalled`), no pidfd or kqueue is lost (`HandlesOwned`), a latched exit is the pinned process's (`ExitIsOwn`), and what was found gone stays gone (`NeverRevived`: on Linux it is not signalled, on macOS not found alive). |
| `windows` | Does portpin outlive the Ctrl-Break it raises (`SurvivesOwnBreak`) and close its handles (`HandlesClosed`)? Does it let go of consoles and handler, except for what a deferred call was refused (`ConsoleLetGo`), lose no outcome and, with both streams on the console, show each (`OutcomeShown`)? Does what reaches a target's number reach the process discovered (`KeepsHold`), and do others hear a Ctrl-Break only if they share its console (`BreakConfined`)? Does it end? Yes, wherever a call fails, over two targets. |
| `kill` | Only a process that a probe saw holding the endpoint is signalled (`OnlyHoldersSignalled`); with pidfds identity-changed means that nobody was signalled (`AbortMeansUntouched`); with members failing one by one no descriptor leaks, a timeout comes only after every member was evicted, no denial is silent; the controllers are used as `PinLinux` says (`ImplementsPin`), and portpin ends. |
| `group` | The climb ends, kin are genuine, daemons and portpin's ancestors are left out, parents come before children (Linux), and the tree is complete as far as creation times are readable (Windows), whatever regrouping, reparenting and reuse came before. |
| `resolve` | On each platform: a port held throughout is not called free (`FreeMeansFree`), named owners are true and a sole holder is named (`OwnersTrue`), an exit race is not taken for a permission barrier (`NoFalseBarrier`), Windows gives up only on a table that keeps growing (`UnsettledMeansGrowing`), and the call returns. |
| `wait` | A lasting state is seen, the timeout is at most one look late, `waitFor` returns. |
| `run_kill` | Consent comes before signals, a refused group leaves all untouched, each holder is tried once, no failure is hidden. |

Runs that TLC refutes; each states a sentence of the repository and is a finding
in `PROJECT.json`, with the quotation:

| Run | What the code does |
|---|---|
| `group_zombie` | A zombie primary ends the run as a success while another pinned member holds the port. |
| `group_tree` | A descendant outside the process group, below a child inside it, is missed. |
| `dead_denied` | `TerminateProcess` on a target that has just exited is denied and reported as permission-denied, though nothing refused anything. |
| `time_wait_narrowed` | A request narrowed to a connection in TIME_WAIT ends with "nothing to signal" while a process listens on the wildcard address. |

Further disagreements were met while modelling. The models have the state and
the steps they take, except where a line says otherwise, but no run states them:

Identity and signals:

- Without `pidfd_open` a PID recycled between the start-time check and `kill(2)`
  is signalled (`pin_linux.go:133-143`; README:32-33 excludes it on Linux).
- `Lifecycle` compares no start time on Linux (`pin_linux.go:159-183`; `pin.go:32`).
- Without `pidfd_open` a changed identity may be noticed after signals were
  delivered, and is still reported with "nothing was signalled" (`main.go:592`,
  README:239). With pidfds it never is (`AbortMeansUntouched`).
- On Windows `depth` follows stale parent numbers (`group.go:193-199`), so a
  parent may be signalled after its child (README:189), and a PID reused between
  the snapshot and the reading of its creation time enters the group as the
  newcomer (`discover_windows.go:221-225`).
- On Windows the Ctrl-Break goes to group 0 and so to every process in the
  target's console, whoever it is (`pin_windows.go:224-226`, `257`;
  README:257-258 says so). `BreakConfined` states what is left of "only the
  target": nobody outside that console, and nobody by a hard kill.
- On macOS `Lifecycle` takes a zombie whose start time reads 0 for the target,
  so a stranger's zombie turns Gone into Zombie (`pin_darwin.go:124`). A
  controller that `Pin` made of a zombie with start time 0 compares 0 with 0, and
  would signal by number after any zombie that reads 0 (`pin_darwin.go:57`, `74`,
  `105`).
- On Windows a descendant whose creation time portpin may not read is left out of
  the group, and with it its own descendants, readable or not (`group.go:186`;
  README:172-173 says all of them). With five PIDs and one tick TLC finds
  `WholeTree` violated there, which is why `TreeWithoutGroups` asks that every
  process on the way is readable.

Discovery:

- Of the holders of a shared socket the scan keeps the last
  (`discover_linux.go:243`); if that is not the target, the probe says free while
  the target holds the endpoint (`main.go:382-384` promises otherwise). A probe
  that narrows its request reports a target on the wildcard address as released
  in the same way, and a supervisor's replacement that binds the endpoint as
  another process (`main.go:407`).
- An IPv6 dump that fails is left out without a word (`netlink_linux.go:40`;
  `discover.go:11-12` promises an error). If it fails only in `liveInodes`, the
  IPv6 bindings of hidden owners are dropped. The properties of `Discovery`
  exclude it by `missed6`.
- An orphaned connection in FIN_WAIT has inode 0 and is not in TIME_WAIT, so the
  exit code is 5 where `discover_linux.go:135-136` says 2; and a connection that
  turns TIME_WAIT before `liveInodes` reads is dropped.
- On macOS rows are told apart by endpoint, and counted (`sockrow.go:226`): with
  several sockets on one endpoint a row of one hides another's, or keeps an orphan.

Reports:

- With one of the streams redirected the outcome is misrouted, as
  README:277-281 says. Standard output redirected: the guard is off, and
  lines for the console go through stale handles (`main.go:296-299`). Standard
  error redirected: after a restore both buffers are written to the console, and
  the file gets nothing (`main.go:359-361`; "misplaced" in the model). The second
  half of `OutcomeShown` is therefore about both streams on the console.
- `Graceful` discards the errors of its deferred calls (`pin_windows.go:240-245`).
  If `freeConsole` fails there, portpin stays in the target's console, later stops
  report that there is no console, and `RestoreConsole` takes the denied attach
  for success, so that the outcomes are shown in the target's console
  (`pin_windows.go:153-159`). If the removal of the handler fails, portpin claims
  Ctrl-C until it ends. `ConsoleLetGo` and `OutcomeShown` except this (`stuck`).
- Exit 0 does not count holders of other users, nor further endpoints of a
  process that was stopped (`main.go:175-189`, `491-502`; `main.go:128`).
- `waitFor` reports a timeout without a last look (`wait.go:117-119`; the help
  says the port never reached the state).
- `--timeout` in seconds overflows a `time.Duration` unchecked (`main.go:240`);
  this one is not in a model.

Every property of a passing run has a mutant: a definition of the model changed
as a bug in the code would change it (a dropped check, a swapped order, a missed
close), under which TLC finds the property violated. A property that joins
several promises has one for each. The mutants stand in the modules beside the
definitions they replace.

### Bounds

- `MCPins`: two PIDs, start times up to 4, so that a run creates up to two
  processes after the first; calls fail with one error (`Refusals`; a second one takes the same branches).
  A wrong identity takes one reuse of one PID between two calls, and a second to
  come back; two controllers at once show that they do not disturb each other.
- `MCKillWindows`: two targets, the first in console 1, the second there too, in
  its own or in none; portpin is started in console 1, which is then its
  parent's and the target's at once, or in none. Start times up to 3 reuse one
  PID once. Standard streams are both on the console, both redirected, or
  standard error alone is (`MCStreams`); the case of standard output alone is
  among the disagreements. Calls fail with one error (`Refusals`); refusals by
  policy take the same branches, and `dead_denied` has none at all. A process
  stays in the console it was created in, and attaching to the parent's fails at
  will where the parent may be gone. The other processes wait at steps where portpin looks at its own
  state only (`Local`), which commute with theirs. `Prompt` is an assumption: a control event is dispatched within
  the 300 ms that `Graceful` sleeps (`pin_windows.go:262-269`); with `Prompt =
  FALSE` `SurvivesOwnBreak` fails, and the code has no other protection.
- `MCKillOne`: three PIDs, start times up to 4. Three members are enough for one
  that fails, one before it and one after it. `Options` has a timeout and a hard
  wait of one poll each; the arithmetic of waits is `MCTerminate`'s subject. The
  other processes wait at such steps here too. Members are of one depth, so in the order of
  their PIDs. The `group_zombie` run needs two PIDs.
- `MCGroupMembers`: four PIDs (five for `group_tree`): init, portpin and two or
  three further processes. Two ticks of the clock on Linux and macOS, three on
  Windows, so that a PID is reused once and start times may be equal. At most one
  process is unreadable at a time (`Image`). PIDs are
  allocated upwards until they are reused, and a PID is not reused within a
  tick. A command line read by PID is a newcomer's if the PID was reused since the
  snapshot, and may then say anything (`Programs`; with `Quiet = FALSE` only). `Quiet = TRUE`: processes fork while the table is read, but neither exit
  nor regroup; what happens otherwise is among the disagreements above.
- `MCDiscovery`: two sockets, two processes that portpin may inspect and one it
  may not, an IPv4 address, the IPv4 wildcard and the IPv6 wildcard. Two moves of
  the system are enough for a socket to be handed over or closed between two
  reads, or for one to close and another to open. `Retries = 1` and `Attempts =
  2` stand for 2 and 8; the first growth of the Windows table past its buffer is
  at `Room = 0`. The API reports the size it needs, as documented: the doubling
  of the buffer where it reports none (`discover_windows.go:83-85`) is left out,
  and `UnsettledMeansGrowing` would not hold with it. PIDs are not reused within a call. `SystemMoves` waits while the
  call looks at rows it has read, which commutes with it; the locals of a call go
  when it returns. A dump of one family, and the descriptors of one process, are
  read in a step each: the kernel builds a dump in parts of its own, which is
  left out.
- `MCRunKill`: two own processes, one of another user, two endpoints. TIME_WAIT
  rows are on all endpoints or none. Processes and endpoints are symmetric.
- `MCWait`: a poll of 4 ticks, looks of up to 2; the timeouts fall in a sleep, at
  its end, within a look, and before the first sleep ends. `late` and `stable`
  stop one above what the properties allow.

Type invariants are stated in every module. That of `Pins` is checked in its run
and proved; `Terminate`'s, `Wait`'s and `GroupMembers`' are proved.

### Fairness

`Terminate`, `KillOne` and `KillWindows` assume weak fairness of portpin's own
steps: the Go scheduler runs the one goroutine that does the work, its system
calls return and its sleeps end. `KillWindows` adds the thread that dispatches
control events. `Discovery` assumes it of the steps of the call, `Wait` of
`waitFor` and of the timers. Nothing is assumed of other processes: they may
never exit, release or reap. The liveness properties therefore say that portpin
ends, never that a port is freed, and `Returns` of `Wait` without a timeout is
conditional on the port's staying in the wanted state. The system may stop by itself nowhere:
the end of a program is a stuttering step, and deadlock is checked. The exception
is `pins`, where the controllers have no program around them and everything
stops when the start times run out.

## 4. What is proved

All proofs are checked by TLAPS without unproved leaves, for all values of the
constants that satisfy the modules' assumptions.

**Terminate_proof.** `TypeCorrect`, then `WaitIsBounded`, `PatienceKept` and
`RunImplementsTeardown`. Types alone do not give patience: a wait may reach its
budget only if the polls spent it, so `Patient` relates `spent`, `budget` and
`stage`; and the refinement needs `StageKnows`, which says what `seen` and
`asked` are at every stage. Each is shown by one step per action.

**Pins_proof**, first of PinLinux alone, as `KillOne` uses it. `PinInvariant` is
the induction: the start times in the table are below `nextStart`; a descriptor of a controller between `PidfdOpen` and
`ReadAfter` names the process that had the PID at the time; and a process that
had the recorded start time before and after is therefore the one the descriptor
names, since start times are not reused. `SandwichHolds` (`PinnedIdentity`),
`NoStrangerSignalled`, `NoDescriptorLost`, `IdentityKept` and `GoneForGood`
follow from it.
Assumption: a PID has no two processes with the same start time. Linux counts
start times in ticks of 10 ms, so this says that a PID is not reused within one.

Then of Pins. `HoldIsKept`: the controllers of either system implement `Hold`.
`PinsInvariant` joins two inductions. On Linux (`LinuxInv`) the invariant of
PinLinux is not enough: without a pidfd `Hold` allows one miss, so the
invariant also says (`Landed`) that after a miss the number is never the held
process's again, which is why the next check of the start time fails; and
(`Aged`) that whoever has the number of a pinned process is not older than it,
which is why a miss reaches a younger process. On macOS (`DarwinInv`) `KSound`
says the same of the event filter as PinLinux's invariant of the pidfd, of the
controllers whose start time is not 0, and that a latched exit is of the pinned
process. A read of the start time tells the true one or 0 (`TimesRead`), so what
`KLifecycle` may call alive is the pinned process, running (`FoundAlive`), and
no later process has its start time (`GoneIsNotFound`). `PinsTypeCorrect`, `NoStrangerOnEither`,
`NoHandleLost`, `ExitEventIsOwn` and `NeverRevivedHolds` follow.

**KillOne_proof.** `KillOneImplementsPin`: every step of `killOne`, groups and all,
is a step of `PinLinux` or a stutter (`PlacedAlways` gives the target its range).
So the theorems above hold of `killOne`, and `KillOneSignalsPinned` draws the
first consequence. The rest is about the loop itself, for any number of members
and whichever call of whichever member fails. `KillInvariant` says where the
controllers are at every position: which members are pinned while `PinGroup` runs,
which were visited in a pass, when `terminate.Run` is in progress; `NoLeaks` is a
consequence. Each of the others adds one invariant to it. `DenialsShow`
(`DenialsKept`): a denial stays recorded with its member until it is in the error
of the pass, and then until it is in the outcome. `HoldersOnly` (`SilentBefore`,
`TargetSeen`): before the first probe nothing is signalled, and after it the
recorded start time was witnessed. `AbortsUntouched` (`PassIdentity`): with a
pidfd no controller that returned from `Pin` reports a changed identity.
`TimeoutEvicts` (`HardDone`, `AllEvicted`): by the time the hard pass ends each
member was sent the signal or is gone, and what is gone does not come back.

**Wait_proof.** `WaitTypeCorrect`, `TimeoutIsPrompt` and `LastingIsSeen`, for every
timeout, poll interval and duration of a look. The invariant relates the age of
the sleep or look in progress to `late` and `stable`, and says that the timer
runs only while it has time left.

**KillWindows_proof**, for any number of targets, any assignment of consoles and
whatever call fails. `WinInvariant`: the targets before the current one are done
with and those after it are untouched (`Turns`), and an open handle is of the
process that discovery read (`Kept`, `Faithful`). `HandlesAreClosed` follows.
`ConsoleIsLetGo` says for every position of `Graceful` what portpin is attached
to, how often its handler is installed, and what of it a deferred call was
refused to undo (`Attached`). `OwnBreakSurvived` adds that an event is queued only while the
handler is in place (`Guarded`); it assumes `Prompt`, without which it is false.
`BreakStaysConfined` needs that portpin, between its attach and the broadcast, is
in the console of the target and not in one it failed to leave: an attach is
denied as long as it is in any (`Inside`). `OutcomesShown` follows the line of
each outcome through the pipe (`Buffered`). `WindowsKeepsHold` is the refinement:
`Pin` takes hold of the process discovery named or fails (`HoldTake`), and what
reaches its number reaches it (`HoldSignal`, `AimedAt`), with no miss allowed.

**RunKill_proof**, for any finite number of holders that may be stopped, any
groups and outcomes. `ProgressInvariant`: `targets` lists every holder once
(`UniqueProcessesList`), and the results are those of its first ones.
`HoldersTriedOnce` follows. `ConsentComesFirst` (`Consented`): past the
question that `NeedConfirm` asks for, or, where it asks for none, with one target
that is alone in its group, so that the one process signalled is that target.

**Discovery_proof**, for any finite number of sockets and processes, any endpoints,
and however the sockets are opened, shared, closed and drained while the call
runs. `World` says what the histories mean: what is in `kept` is open still, and
whoever has a socket open is in `ever`. Each system has an invariant of its own.
On Linux (`LinuxInv`) what has been bound from the beginning is in the rows once
the table of its family was read, stays among the candidates through every
rescan, and what a visible process kept open has an owner once the walk over
`/proc` has passed it (`Awaited`). On macOS (`DarwinInv`) the rows of netstat are
one to a socket, those of lsof include what the processes visited kept open, and
the rest is counting: a row of netstat is left over only if lsof has fewer rows
of its key (`UnownedUnlessMatched`, `SingleIsMatched`, `OneIsLeft`). On Windows
(`WindowsInv`) the rows come with a true PID, and `Grown` relates the room asked
for, the attempts made and the sockets opened since (`TableGrows`). `Answer` is
what holds of every answer returned; `FreeIsFree`, `OwnersAreTrue`,
`NoBarrierInvented` and `GivesUpOnGrowth` follow.
Assumptions: sockets and processes are finitely many and their numbers are not 0,
every endpoint has one of the addresses `IPs`, and `fetchTable` makes at least
one attempt. The provisos are those of the properties: an IPv6 table that could
not be read (`missed6`), and on macOS sockets that share an address.

**GroupMembers_proof**, for any number of PIDs, any clock and each platform. A
recursive function is a CHOOSE, so the proofs begin with `Iteration`: the
sequence of steps exists (`IterateIs`), by an induction that takes a least
counterexample (`IntervalInduction`). `GroupInvariant` joins what is said of
control, processes and rows. `TableInv` is about the processes: `line` of a process names those it descends from and
nothing younger, and who has the number of a parent and is not younger than the
child is the parent (`OlderIsParent`), since a number is not reused within a
tick. `OwnRows`: the row of each live forebear of portpin leads to the next one,
whether it is read already or not. `WindowsRows`: the creation time in a row is
that of the process listed, or of a newcomer that is younger than all that was
listed (`Reused`), and no two newcomers share one. `PosixRows`: no climb without
Windows. `QuietRows`: with `Quiet`, a row is what its process is. The properties
are of the selection, not of single steps, so each is a further argument from
the invariant:

- `OwnAncestorsAreSafe`: by `OwnRows` the chain by numbers has every forebear
  that is listed, and every member is listed.
- `ClimbTerminates`: each step of the climb goes to a process that is older, or
  as old with a lower PID (`Lower`, `ClimbsDown`); a climb of `MaxPid` steps that
  could go on would visit more processes than there are (`NoDescent`).
- `MembersAreKin`: along climb and walk the lines are included in each other
  (`ChildIsForked`, `RootIs`, `WalkIs`).
- `OnlyOwnDaemons`: what the walk reaches in n steps has the target as forebear
  within n generations (`AncestryOfParent`).
- `ReadableTreeIsWhole`: walk and descent are closed after `MaxPid` steps, because
  a growing set of PIDs stops growing (`Saturation`), and the target is walked
  from the root down (`TargetWalked`).
- `ParentsAreFirst`: on Linux and macOS the numbers of parents go down in `Lower`,
  so the count of members above a process ends, and a child's is one more.

The first two hold whatever the processes do while portpin reads. The other four
assume `Quiet`, as the run does: nobody exits or regroups while the table is
read. TLC refutes `ParentsFirst`, `DaemonsSpared` and `TreeWithoutGroups` with
`Quiet = FALSE`, and `GenuineKin` fails as the disagreements above say; the code
takes one reading of the table for a snapshot. Other assumptions: init does not exit,
on POSIX a PID is not reused while it names a group or session, and PIDs are not
reused within a tick.

Only model-checked: liveness and what rests on ENABLED (out of TLAPS's reach), and
the types of `Discovery` and `RunKill` as far as the invariants above do not
include them. Every safety property of a passing run is proved.

## 5. Not modelled, and the plan

Not modelled: the parsers of `/proc/net`, netlink, lsof, netstat and the Windows
tables, and of targets and flags (text and bytes without state); wording and
layout (`advise`, `render`); the test helpers; the mutex of the controllers,
which are called from one goroutine; hidepid mounts; containers' PID namespaces;
UDP endpoints, which go the same way through discovery as listening TCP sockets.

Next: a second process that portpin may not read in `GroupMembers`; the parsers of
the socket tables as functions on rows; the probe's narrowing in `KillOne`, which
is checked in `Discovery` only.
