# A verification model of ssh-wrapper

TLA+ models of the asyncio library in `src/ssh_wrapper/`: what is modelled, how
the model corresponds to the code, what TLC checks on small instances and what
TLAPS proves for every instance.

## 1. The system

`ssh_wrapper` owns OpenSSH processes from an asyncio program.  One
`OpenSSHMaster` authenticates once and keeps a multiplexing master alive behind
a private control socket; `OwnedRemoteProcess` starts commands over that socket
and supervises them on the remote side with a heartbeat lease.  Everything runs
in one event loop, so the hard part is not parallelism but what happens at every
`await`: another task closes the object, the caller is cancelled, a deadline
fires, a child dies, a cleanup itself fails.

| component | state | operations | interacts with |
|---|---|---|---|
| `connection.py` `OpenSSHMaster` | `state`, `process`, `runtime_dir`, `control_path`, `_start_task`, `_close_task`, `_stderr_task` | `start`, `ensure_ready`, `close`, argument builders | `_process.py` for every child; `session_environment.py` once, at startup; the ssh master through its control socket |
| `_process.py` | none of its own; a child's process group | `spawn_owned`, `_reap_cancelled_spawn`, `complete_task`, `wait_exit`, `stop_group`, `finish_tasks` | asyncio tasks, signals |
| `remote_process.py` `OwnedRemoteProcess` | `process`, `_start_task`, `_close_task`, `_heartbeat_task`, drains, bounded output | `start`, `wait`, `close`, heartbeats | `OpenSSHMaster.ensure_ready`; the remote supervisor over stdin |
| `remote_process.py` `REMOTE_SUPERVISOR` | child, `pending` bytes, `last_heartbeat`, `stopping`, `status` | poll loop, `terminate_group` | heartbeats and EOF on stdin, signals, its child's group |
| `session_environment.py` | none; probes of `loginctl` and `systemctl` | `resolve_session_environment`, `_run_probe` | `_process.py` |
| `bounded.py` `BoundedTail` | the last bytes of a stream | `append`, `clear`, `text` | every drain |
| `ConnectionSpec`, `SSHMasterSettings`, argv builders | immutable values | validation, rendering | OpenSSH command lines |
| release workflow (`release.yml`, the gate in `ci.yml`, `version.py`, `checksums.py`, `verify_pypi_release.py`) | PyPI files, release, draft, tag, job outputs | inspect, gate, upload, verify, draft, publish | PyPI, GitHub, its concurrency group |
| pull-request automation (`pr-body.yml`, `pr_body.py`) | the managed section of the body | read, build, compare, update | GitHub, the author |
| `tests_acceptance/container_server.py` | `_attempted`, `_created`, the container | `__aenter__`, `close` | the container engine's command line |
| build, dependency and documentation tools | none that lasts | file transformations and checks | |

Components meet in three ways: by calls (`OwnedRemoteProcess.start` awaits
`master.ensure_ready`, everything that spawns uses `_process.py`), by tasks that
share an object and its attributes, and by the byte stream between the heartbeat
task and the remote supervisor.

Behaviours that are hard to test and that the models are for: a close that
overtakes a start at any await; a result that is already queued in the event
loop when the state changes; repeated cancellation during a cleanup; a cleanup
that fails half way; a child that cannot be reaped; a lease judged by a process
that was itself descheduled; process groups whose leader dies before its
descendants; partial publication of a release.

## 2. Modules

`EventLoop` and `ProcessGroup` are the ground everything asynchronous stands on;
`ObjectLifecycle` is the abstract specification; `OpenSSHMaster`,
`OwnedRemoteProcess`, `OwnedHelper` and `RemoteSupervisor` are the components with
concurrency; `LeasedProcess` composes two of them.  `Authority`, `MuxCommands`,
`RuntimeDirectory`, `SessionEnvironment` and `BoundedOutput` are the sequential
parts of a connection, `ReleasePublication`, `ReleaseFiles`, `PullRequestBody` and
`ContainerServer` what surrounds the library.

In every module, an operator named `X_Something` directly before `X` is a faulty
variant of `X`: the plausible bug that a property of a run must detect.  Variables
whose comment says "history" are not in the code; they remember what a property
speaks of.

### The event loop: `EventLoop.tla`

One step of a task is the code between two awaits.  `ready` is asyncio's queue of
callbacks, restricted to the wake-ups of the object's tasks, each with the outcome
of its await; `interrupted` is a cancellation not yet acted upon.  The queue is
what makes the models sharp: a task that `close()` creates is queued behind
wake-ups that are already there, so those still run first, and nothing else does.
How long after its future is done a task is appended is left open, which covers
the additional callbacks of `shield`, `gather` and `wait_for`.

### `OpenSSHMaster.tla`: the lifecycle of one master object

| variable | code |
|---|---|
| `state` | `self.state` |
| `startPc`, `closePc` | the await at which the `_start` / `_close` task is suspended, or that it is over |
| `raised` | the stages of `_close` that raised: `stop_group`, the stderr drain, the removal; `close()` raises if there is one |
| `callerPc`, `result` | the method and await each application task is in; what its last call came to |
| `adopted` | `self.process is not None` |
| `proc`, `signalled`, `socket`, `runtime`, `drain` | the ssh master, whether `stop_group` works on it, the control socket, the private directory, the stderr drain |
| `lateLaunch` | history: the master was spawned after `close()` was called |

`StartBegins` ... `StartRaises` are the steps of `_start` and `_wait_ready`,
`CloseBegins` ... `CloseEnds` those of `_close`, and `Start`, `Check`, `Close` with
their `...Returns` / `...Fails` continuations the public methods.  `StartAwakes`,
`CloseAwakes`, `CallerAwakes` append a task whose await can end to `ready`;
`Deadline`, `Cancel` and the environment's actions happen at any time.

Abstracted: a control operation is one await (its helper, its drains and their
cleanup are over when it ends, also when it is interrupted); the resolution of the
session environment is one await or none; an exception's type matters only where
the code tells types apart.  Faults are constants: `ReapMayTimeOut` lets a killed
child stay unreaped past the bound of `stop_group` (an uninterruptible process, a
stalled loop), `RemoveMayFail` lets `shutil.rmtree` raise something else than
`FileNotFoundError`.  The check of `st_uid` before the removal is left out: the code has
made the directory itself.

### `OwnedRemoteProcess.tla`: one command over the master

The same shape: `startPc`, `closePc`, `closeFailed`, `callerPc`, `result` as above;
`channel` is the local ssh client, `stdin`, `beat` and `drains` the heartbeat pipe,
the heartbeat task and the output readers, `lateSpawn` the history of a spawn after
`close()`.  `StartChecks`, `StartSpawns`, `StartRecovers`, `StartAdopts` are `_start`
around `ensure_ready` and `spawn_owned`; `CloseGathers`, `CloseStopsBeat`,
`CloseWaits`, `CloseOverdue`, `CloseEnds` are `_close` through its grace, its local
bound and `finish_tasks`; `Wait`, `WaitCancelled`, `WaitReturns` are `wait()`.
`ensure_ready` is here an await with two outcomes; how it comes to them is
`OpenSSHMaster`.

### `ObjectLifecycle.tla`: what both objects promise about their resources

A one-way life (`new`, `opening`, `serving`, `closing`, `closed`) over a set of
resources, each acquired at most once, none held and none acquired once closed,
and closing always leads to closed.  Both objects implement it under mappings
`Phase`, `Held`, `Spent` that read the two tasks and the resources themselves: for
the master, the ssh process, the directory, the drain; for the command, the
channel, the heartbeat, the readers.  A channel that was sent SIGKILL and could
not be reaped in its bound counts as released by the end of `_close`.  The mapping of the master does not read
`state`, on purpose: `state` may claim READY during a close (section 5).

### `ProcessGroup.tla`: a process group as the kernel keeps it

`leader`, `members`, `killed`: the leader that its parent must reap, the processes
it or they forked, and whether SIGKILL reached the group.  Any process may exit or,
while it was not sent SIGKILL, fork; SIGTERM forces nothing.  `Signalable` is what
`killpg` finds: a zombie leader counts, a reaped one does not.  `stop_group`
locally and `terminate_group` remotely are modelled over it.

### `OwnedHelper.tla`: one owned child of the event loop (`_process.py`)

Three tasks: the caller (`callPc`), the creation of the process (`creation`) and
the cleanup (`cleanPc`: `_reap_cancelled_spawn` after a cancelled spawn,
`cleanup()` of `_control_operation` and `_run_probe` otherwise).  `lingers` chooses
between a helper and the ssh client of an `OwnedRemoteProcess`, whose spawn names
an `owner_close_timeout`.  The grace time of `stop_group` is a choice: it may be
over whenever the group is looked at.  `cancelled` is a `CancelledError` under way,
`interrupted` one that was requested and not delivered.

### `RemoteSupervisor.tla`: the program on the remote host

`pc` names the statement the program is about to execute; every step is one
action.  Time is counted in ticks of the poll interval: `since` is the age of
`last_heartbeat`, `inGrace` that of the SIGTERM, `idle` the time since the
program's last step, which is at most `MaxStall` except while it waits for the
death of its child.  The channel carries bytes in any fragmentation; `Frame`
stands for `HEARTBEAT`, of which the code uses only that its last byte is its one
newline.  `Newlines` ... `Beats` are the parsing loop as operators on what is
buffered.  The order of the code is kept: the exit of the child and the flag are
tested first, the lease before the channel is read, the exit once more at the end.

### `LeasedProcess.tla`: owner, channel and supervisor

Extends `RemoteSupervisor` with the heartbeat task of `OwnedRemoteProcess` and an
ordered channel of bounded delay, all on the supervisor's clock.  An owner closes
(end of file behind what it sent) or is lost (what it sent may be lost from some
frame on, and the end of file may never come).

### The sequential parts of a connection

- `Authority.tla`: `ConnectionSpec` as texts over classes of characters; what
  `__post_init__` accepts, and `destination`, `rsync_target`, `cache_key`,
  `display_target`.  IPv6 addresses that end in dotted IPv4 are left out.
- `MuxCommands.tla`: the argv builders, what a consumer appends, what the user has
  configured, and ssh's two rules: the first value of an option counts (`-o`, `-l`,
  `-p`, the configuration), but a flag such as `-S`, `-M`, `-A`, `-X` or `-K` assigns and so
  undoes what stands before it.  The wrapper passes a consumer's `"$@"` on, and
  `docs/user/api.md:94-95` trusts it, so `NoFallback`, `NoSecondAuthentication` and `Isolated`
  say what holds in spite of any option and configuration, and except for that very key
  in spite of any flag: with `-S` a consumer reaches another master, with `-K` it
  offers an identity, with `-A` it forwards.  That a secondary command never connects by
  itself has no exception: no flag sets `ProxyCommand`.  `-J` is refused after one.
- `RuntimeDirectory.tla`: selection of the base, `mkdtemp`, `chmod`, the second
  attempt under a shorter name, the wrapper file, the removal; every system call
  may fail.  `OpenSSHMaster` has all of this in the outcomes of one step.
- `SessionEnvironment.tla`: up to three probes, the fallback of the format, the
  verdict of the two parsers on each kind of value, the merge.  A probe as a
  process is `OwnedHelper`.
- `BoundedOutput.tla`: `BoundedTail` and the head and the truncation flags of its
  users.  Bytes are numbered, so that what is kept says which bytes were kept.

`Connection` composes them: they share no state, so each step is a step of one of
them.  `MCConnection` gives it small inputs and lets a behaviour concern one part, so
one run covers all.

### Around the library

- `ReleasePublication.tla`: commits, their versions and builds, the runs of the
  workflow in the concurrency group (`Enters`, `Ends`: one runs, one waits, a newer
  one replaces it), PyPI, releases, drafts and tags.  One action per job step;
  `Fails` ends a run at any step, `ReRun` starts it over or, as "re-run failed jobs"
  does, goes on with the outputs of the earlier inspection; `UploadAsset` may leave a
  broken asset behind.
- `ReleaseFiles.tla`: the inventories of `checksums.py` and
  `verify_pypi_release.py`, with files lost, altered and added between the calls.
- `PullRequestBody.tla`: a run reads, builds, compares and updates while its
  successor may cancel it and the author edits.
- `ContainerServer.tla`: `__aenter__` and `close` as engine commands that may fail,
  hang or be cancelled.  `EngineOutlivesCall` says whether the engine may still
  carry out a command whose command line was stopped.

`Automation` composes them as `Connection` does the sequential parts; `MCAutomation`
gives it small inputs and the fairness of the parts with waiting tasks.

### Instances and proofs

`HeartbeatStream` records what the supervisor has read (`consumed`), to compare the
incremental parser with `WellFormed`, a definition on the whole stream;
`MCRemoteSupervisor` bounds that stream (`MaxBytes`).  `MCLeasedProcess` gives
`LeasedProcess` its one-byte frame.  The theorems of a module `M` are in `M_proofs`;
those of `HeartbeatStream` are in `RemoteSupervisor_proofs`, those of the parts of
`Connection` and `Automation` in `Connection_proofs` and `Automation_proofs`.

## 3. Runs

| run | instance | asks |
|---|---|---|
| `master_faults` | two callers, both faults, fairness | types; at the end of a close every stage has run, whichever raised; nobody returns before the shared cleanup; one launch; LOST only from READY; every close and every call ends |
| `master_lifecycle` | two callers, no faults, fairness | `ObjectLifecycle` with its liveness; a late launch is never adopted |
| `master_ready_after_closing` | two callers, no faults | expected violation, section 5 |
| `master_swallowed_cancel` | two callers, unreapable child | expected violation, section 5 |
| `owned` | two callers, unreapable child, fairness | `ObjectLifecycle` with its liveness; no task and no living channel after close; no frame after the end of file; a wait only observes; every call ends |
| `helper_cleanup` | two descendants, unreapable child, reused ids, fairness | no process and no reader is forgotten; no cancellation is lost; every call ends under endless cancellation |
| `helper_reused_id` | two descendants, reused ids | expected violation, section 5 |
| `supervisor_stream` | streams of up to 5 bytes over 3 letters, frames of 3 | the verdict on heartbeats does not depend on fragmentation |
| `supervisor_group` | two descendants, lease 3, grace 2, stall 2, fairness | the group is stopped; lease and exit are observed in time; loss of the owner ends the group |
| `leased_process` | lease 6, interval 1, jitter 1, delay 1, stall 2, local bound 14 | no living owner is taken for lost; orphans are stopped within a bound; `close()` waits until its group is stopped |
| `connection` | texts up to 3 characters, 8 options and 5 flags (2 appended, 1 configured), paths up to 10 characters, two variables, outputs crossing every limit | the sequential parts of a connection |
| `automation` | 3 pushes, 2 versions, 1 re-run; inventories of 3 files; 2 pushes, 1 edit, bodies up to 5 tokens | the release, its inventories, the pull-request body, the acceptance container |

Why these bounds.  A master and a command have one start task and one close task
whatever the number of callers; callers interact only through them and through
`state`, and each of the races (a close against a start, a check or a wait, a check
against a check, a close against a close, a cancellation against any of them)
involves two.  One descendant can outlive its leader, two can outlive each other
and fork again; nothing counts them.  Five bytes hold a frame cut anywhere, two
lines in one read, and a line that is one too long.  The times of `leased_process`
meet the margin of `NoSpuriousExpiry` with nothing to spare: the lease is one tick
longer than interval, jitter, channel delay and one stall together, and with a lease
one tick shorter the owner is taken for lost.  `OrphansStopped` allows the supervisor
seven steps; with six it is false for a lease of 6, a stall of 3, and the other times 1
or 0, on a behaviour that smaller instances do not have.
`LocalStop` of 14 is the smallest that `StopMargin` allows, and `CloseOutlastsGroup` is
reached with equality.
`Horizon` and `HorizonOfOrphans` cap clocks above every value the properties name.
Three pushes are one that runs, one that waits and one that replaces it; two
versions allow an advance, a return and a build that changes under one version;
one re-run is enough for an inspection that is older than another run's
publication.  Three characters hold every pair that a pattern tells apart, at the
beginning and behind one.  The lengths of paths are scaled: a base of two
characters fits with the long name, one of four with the short name only.

Fairness.  The loop runs what is ready (`Run`), completes waits that can complete
(`...Awakes`) and fires timers (`Deadline` and the outcomes of bounded waits); the
system finishes a spawn and kills a group that `stop_group` escalates against.
asyncio and the kernel justify each.  In `OwnedHelper` and `RemoteSupervisor`
likewise: the program and its clock run, and what was sent SIGKILL exits.  A run of
pr-body goes on to its next step or is stopped by the runner; an engine command
ends or meets its timeout.  Nothing is assumed of callers, of authors, of pushes,
and not that a master exits, authenticates or answers by itself.  `owned`'s
`WaitsReturn` is stated for a channel that ends.  Deadlock is checked in every run;
`Finished` is the stutter of a system that has legitimately nothing left to do.

## 4. Proofs

TLAPS checks all of the following for every value of the constants, from the named
assumptions about them alone.

**`EventLoop_proofs`** has what a FIFO guarantees: `Ahead` (one wake-up before
another) and `Pending` survive the removal of the head and appending at the end.

**`OpenSSHMaster_proofs`**, for every set of callers and all faults: `TypeCorrect`,
`CloseReleasesAll`, `CleanupBeforeReturn`, `OneAuthentication`, `ClosedForGood`,
`LossOnlyFromReady`.  `CloseReleases` is not inductive.  `IInv` adds `Handover` (who
answers for the ssh master in each phase of `_start`: nobody before the spawn,
`_start` while it spawns or reaps, the object once `process` is set, and a failed
startup without `process` leaves a dead or killed child) and `Closing` (what `_close`
may rely on in each phase: past the gather no startup is left, past the stops the
master is dead or killed, and at the end the directory and the stderr drain are left
only if their own stage is in `raised`).

Two theorems need the order of the queue and absent faults.  `LateLaunchNeverAdopted`
(no reap timeouts) does not say that nothing authenticates after `close()`: a child that
is launched late may reach its server until it is reaped.  It is not adopted: `Order` says that a startup that launched after `close()` has its
next wake-up behind the first step of the `_close` task, which interrupts it before
it can adopt.  `ImplementsLifecycle` (also no failing removal): `Answers` says what
a queued wake-up of `_close` has already established, `Prompt` that without faults no
await of `_close` fails, so that its end really holds nothing.
It is the safety of the refinement; that closing leads to closed is model-checked.

**`OwnedRemoteProcess_proofs`**, for every set of callers, with and without late
reaping: `TypeCorrect`, `CloseReleasesAll`, `CleanupBeforeReturn`, `NoFrameAfterEof`,
`LateSpawnNeverAdopted`, `WaitObserves`, `SpawnsOnce`, `ImplementsLifecycle`.  The
invariant is built of the same parts; `Finishing` adds that a `wait()` which finishes
the readers does so on a channel that has ended.  Here the order of the queue suffices without an assumption on
faults, because nothing on the way of `_start` swallows a cancellation.

**`OwnedHelper_proofs`**, for every set of descendants, with and without late reaping
and reuse of ids: `TypeCorrect`, `LosesNoProcess`, `LosesNoCancellation`.
`NothingLeft` speaks of finished calls; its invariant adds `Hold` (who answers for
the process before: the creation, the caller, the cleanup) and `Stopping` (past the
poll the group is gone or was sent SIGKILL, past the wait the leader is reaped).

**`RemoteSupervisor_proofs`**, for all values of the times, every frame and every
channel: `StopsItsGroup`, `EnforcesLease`, `SeesExit`, from
`TimesAssumption`.  The invariant is `Ownership` (a program that is about to exit has
a stopped group) and `Clocks`: the lease is judged once per turn, so in `select` the
age of the heartbeat is below the lease plus the idle time, and back at the test
below the lease plus two.  The proofs never look into the parser.

`JudgesTheStream` is about the parser, for every frame with one newline at its end and
every fragmentation.  `VerdictMatchesStream` speaks of the bytes read so far; `StreamIInv`
splits them (`Parsed`): whole frames, then the part of a line that is `pending`, which has
no newline and is shorter than a frame, until the supervisor gives up on its
heartbeats.  The lemmas follow one read: where the newlines of `pending \o stdin`
are, that each ends a frame of the stream exactly when `BadLines` finds none, and what
`Rest` leaves.

**`LeasedProcess_proofs`**, for all values of the times, every frame and set of
descendants, from `TimesAssumption` and `ChannelAssumption`: `LivingOwnerIsKept`,
`FramesAreWellFormed`, `OrphansAreStopped`, `ClosingOwnerWaitsLongEnough`,
`LeasedGroupStopped`.  `LeaseIInv` extends the
supervisor's invariant.  `Accounted` says who answers for the age of the last heartbeat
while the owner beats: the first frame in the channel, the frames that wait to be
read, or the interval that is running.  `Deadlines` says for each statement of the
program how long the group can have been without an owner there; the bound grows by
the delay of one step from statement to statement, which makes the seven of
`OrphansStopped`.  `Carried` links the two: nothing in the channel is younger than the loss
of its owner.  `ClosingOwnerWaitsLongEnough` is about the local side of a close: it waits
the grace and `LocalStop` before it stops the channel (`Patience`), and an end of file is
under way from its beginning (`EofUnderWay`), so the lease does not enter its bound.

**`Automation_proofs`**, for every choice of the constants of `Automation` that
satisfies its named assumptions (and `BoundsAssumption` of `ReleasePublication`).

- The release: `PublishesComplete`, `OneBuild`, `ResumesInterrupted`, for `Spec` of
  `ReleasePublication` and any number of pushes, versions and re-runs.  That a release is
  complete is not inductive, for the step that publishes looks at the assets only.
  `Group` says that runs exclude each other and that whatever waits starts in front of
  `draft`, so what the verification saw on PyPI and the draft's step of the tag still
  holds when the release is published (`Late`); `Exact` says that bytes on GitHub are
  those of PyPI.  `Origin` adds where things come from, which is what a new run relies on:
  files and drafts of a version are of a pushed commit that has it, a tag belongs to a
  published release, and assets were uploaded in their order.
- The inventories: `InventoriesStayExact`, for files of any contents and any number of
  lines and entries.  Both tools read a dictionary entry by entry; `DictionaryIs` says what
  it holds after each (`Holds`), by induction as below (`Induct`), and `BothIn` that a
  dictionary of both distributions has two entries.  The invariant `Filed` says what the
  files and the lines may be, and that what was written is still there.
- The body: `BodyStaysKept`, for all texts, changelogs, pushes and edits.  `BlockIsFound`: a
  block between two texts without markers is found again where it was put; what
  surrounds the markers of a body that is accepted, and a section that is not refused,
  are such texts (`AroundIsUnmarked`, `SectionIsUnmarked`).  `Managed` says that a run keeps
  the text around the block that it has read, and that this is still there when it
  updates, unless an edit came in between.
- The container: `ServerIsUsedWhenReady` with the invariant `Known` (what the task knows at
  each place), and `LeavesNoContainer` with `Claimed` as well (a container, or one that
  may still come, has somebody who will remove it).  The second needs
  `EngineOutlivesCall = FALSE`; section 5 says why.

**`Connection_proofs`**, for `AllSpec` and every choice of its constants that satisfies
the named assumptions of `Connection`; `StepOfEach` reduces each theorem to one part.

- `NamesStayExact` (invariant `Sound`: what is accepted passed the checks).  A sequence
  is cut at a separator that its first part does not contain in one way only
  (`CutIsUnique`), and the patterns exclude the separators.
- `CommandsStayWithMaster` (`Typed`).  The first place of a key decides if no other place is
  a flag's (`PlaceDecides`); the library's options are first, and the flags behind them
  are the consumer's (`SecondarySees`), so only the keys in `Overridden` are out of the
  transport's hand.  `FlagAssumption` says what flags can assign.
- `DirectoryStaysOwned` (`Recorded`: the directory in use is the only one, and a control
  path is the one that was checked).  `EscapedExpands`: ssh expands the escaped path to
  the path itself.  `Escaped` and ssh's expansion are recursive functions on sequences;
  `Recursion` unfolds them through the order of their lengths, and the induction is
  that of the set of numbers for which the claim holds (`Induct`), which needs no
  operator as a parameter.
- `EnvironmentStaysExact` (`Merged`: at every moment the environment is the inherited one
  with the names in `Filled`).
- `OutputStaysKept` (`Kept`: the tail is an end of the output that is no shorter than the
  narrowest limit since it was cleared, whatever the limit was in between).

TLC checked each invariant on the instances of the runs before it was proved.

Only model-checked: what needs fairness, which is beyond this prover (`CallsReturn`,
`CallEnds`, `WaitsReturn`, `CloseCompletes`, `OwnerLossStops`, the liveness of
`ObjectLifecycle`, that the last push arrives in `BodyIsAuthors`, that the block ends in
`ServerIsReclaimed`).

## 5. Disagreements found

With a run that shows them:

- READY over CLOSING (`master_ready_after_closing`).  `_wait_ready` assigns
  `READY` without looking at the state.  If the wake-up of startup's answered
  control check is queued when `close()` runs, it precedes the first step of the
  `_close` task: `state` goes CLOSING, READY, CLOSED; `start()` reports success,
  and `ensure_ready()` works on the object while it is torn down.
- A swallowed cancellation (`master_swallowed_cancel`).  `TimeoutError` is an
  `OSError`; `_run_probe` takes the one that replaces a `CancelledError` when a
  cancelled probe cannot be reaped for a missing probe, and startup goes on to
  launch and adopt a master while `close()` waits for it.
- A signal to a reused process id (`helper_reused_id`).  `stop_group` begins with
  `killpg` also when asyncio has already reaped the child, as after every helper
  that ended by itself; with no descendant left the id is free, and another
  group of the same user that got it meanwhile would be signalled.  It takes a
  wrap-around of the process ids within milliseconds.  `terminate_group` has the
  same window.

Noticed while modelling, without a run of their own:

- `docs/contracts/api.md:80-81` asks that closing a pending start prevent later
  spawning.  A wake-up of `ensure_ready` that is queued before `close()` still
  spawns (`remote_process.py:267`); `LateSpawnNotAdopted`, proved, shows that the
  channel is then recovered and never becomes `process`.  `OpenSSHMaster` has the
  same behaviour with the master (`NoLateAuthentication`).
- `docs/contracts/security.md:112-113` asks that cancellation reclaim the owned
  container.  `close()` removes it by name (`container_server.py:197`); a daemon that
  carries out the creation only after that removal leaves a container behind.
  `ServerIsReclaimed` holds with `EngineOutlivesCall = FALSE`, and not with TRUE.
- `docs/contracts/ci_releases.md:85` asks that every direct-main push inspect both
  publication targets.  A push that waits in the concurrency group is replaced by a
  newer one (`release.yml:14`), and inspects nothing.
- `docs/contracts/ci_releases.md:61-66` asks that later main pushes compare versions
  and a changed version advance.  The comparison is in the reusable gate, which is
  skipped when the pushed version is already completely published
  (`release.yml:281`): a push that returns to it is not refused.
- `docs/contracts/ci_releases.md:48` asks to refuse concurrent overwrite of a body.
  The comparison and the update are two requests (`pr-body.yml:119`): an edit
  between them is overwritten.  `ManualTextKept` makes exactly that exception
  (`raced`).

## 6. Not modelled

- `errors.py`, `__init__.py`: types and names.
- The bounds of `SSHMasterSettings` and the search for programs: comparisons of one
  argument with constants.
- The decoding of the supervisor's arguments is one refusal.  The read of at most
  4096 bytes is a read of everything that has arrived: shorter reads arise from
  later arrival.
- A supervisor that is itself sent SIGKILL: nothing in the code answers it.  The
  teardown of the event loop by `asyncio.run`.
- Build, distribution and reproducibility tools, dependency and documentation
  checks: sequential transformations of files, in which no order of events
  matters; a build stands for its bytes in `ReleasePublication`.
- What runs inside the acceptance container.
- CI jobs other than the version gate, the pages and the dependency submission
  workflows: independent jobs without shared mutable state.

## 7. Plan

Done: all modules of section 2, and the proofs of section 4, which state the safety of
every passing run for all constants.  Left: `OwnedRemoteProcess` over a real `OpenSSHMaster`
instead of an await with two outcomes: two objects on one loop, with closes of
either.
