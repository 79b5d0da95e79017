# A verification project for control-panel

`control-panel` is a Go daemon that runs on a home server: it supervises
Minecraft servers and backs them up, drives chassis fans, runs jobs and
schedules, opens terminals, shows downloads, updates itself and serves a web
interface to those who log in. This directory holds TLA+ models of the parts
whose correctness rests on the order in which goroutines, processes, requests,
registers and files change, the TLC configurations that check them on small
instances, and proofs that TLAPS checks for every value of the constants.

    cd tla
    tlc -workers 2 -config MCMcInstance.cfg MCMcInstance.tla
    tlapm McInstanceProofs.tla

Sources are named relative to the root of the repository. In `src/internal`:
`mc` has `instance.go`, `manager.go`, `backup.go`, `import.go`, `provision.go`,
`fetcher.go`, and `mcfiles` `zip.go`; `fans` has `controller.go`, `linux.go`,
`fans.go`; `jobs` `jobs.go`; `events` `bus.go`; `sched` `engine.go`, `sched.go`;
`term` `term.go`, `pty_linux.go`; `auth` `session.go`, `limiter.go`,
`password.go`; `audit` `audit.go`; `config` `config.go`; `update` `update.go`;
`qbit` `qbit.go`, `types.go`; `apps` `client.go`; `httpd` `server.go` and the
`api_*.go`. `main.go` and `sched_exec.go` are in `src/cmd/control-panel`.

## The system

| Component | State | Operations | Talks to | Status |
| --- | --- | --- | --- | --- |
| Minecraft instance (`instance.go`) | state, process, stdin, stop request, restart times, all under `in.mu`; an `exited` channel per launch | Start, Stop, Kill, Restart, Command, `pumpOutput`, `waitForExit` | the game, or a shell that runs it; the manager through `onChange` | partly: without Command |
| Minecraft manager (`manager.go`) | the instances under `m.mu`, `mc-running.json` | publish, StartupResume, GracefulShutdown | instances, bus, main | partly: running list, resume, shutdown |
| Backups (`manager.go`, `backup.go`) | archives, the game's console | CreateBackup, DeleteBackup, PruneBackups | jobs, instance, scheduler | modelled |
| Server directories (`manager.go`, `provision.go`, `import.go`, `fetcher.go`) | a directory per server, displaced ones, `.restore-tmp` | RestoreBackup, CreateServer, ImportServer, UpdateJar, Rescan | jobs, instance | partly: without the files a flavour downloads |
| Overrides, properties, EULA | small files under a lock | UpdateConfig and single writes | instance | not modelled |
| RCON, ping, MOTD, log ring | a ring of lines | wire formats | the game | not modelled |
| Fan control (`controller.go`, `linux.go`) | settings, engaged fans under `c.mu`; captured registers under `p.mu`; the registers | tick, Set, ReleaseAll, SetDuty, Release | hwmon, main, bus | partly: without curves' interpolation |
| Job runner (`jobs.go`) | current job, twenty recent ones | Start, Cancel, Get, List | bus by `Notify` goroutines | partly: without a job's output |
| Event bus and SSE (`bus.go`, `api_system.go`) | a bounded queue per subscriber | Subscribe, Publish, handleEvents | every publisher, browsers | partly: the events about jobs |
| Scheduler (`engine.go`) | schedules, next run, retries, `schedules.json` | tick, runOne, Create, Update, Delete, RunNow | the actions it executes | modelled |
| Scheduled actions (`sched_exec.go`) | none | restart, backup with retention, commands | manager, jobs, services | partly: backup and retention |
| Web terminal (`term.go`, `api_terminal.go`) | sessions, replay, subscribers | Create, Subscribe, Input, Close, reap, CloseAll | shells, viewers, main | modelled |
| Self update (`update.go`) | one update at a time, the binary and its two companions | Apply | GitHub, systemd | modelled |
| Configuration and start-up (`config.go`, `main.go`) | the file, the configuration in use | load, validate, listen, shut down | systemd, everything | partly: settings others rely on |
| Authentication (`session.go`, `limiter.go`, `api_auth.go`) | sessions in memory and in a file, failures per address, password slots | login, logout, requireAuth | browsers | modelled |
| Audit log (`audit.go`) | two generations of a file | Record, List | handlers, scheduler | modelled |
| HTTP server (`server.go`, `api_*.go`) | none of its own | routes, checks, handlers | all of the above | partly: as actions of what the handlers call |
| qBittorrent and downloads (`qbit.go`, `api_qbit.go`) | login, cached status, hold-off | Status, Files, Do | qBittorrent, app index | modelled |
| App clients (`client.go`) | cached index of the apps' queues | index | Radarr, Sonarr and others | partly: the index |
| Plex, metrics, storage and services, file browsers and preferences, web interface and menu bar, mock providers | little or no shared state | requests and views | | not modelled |

`PROJECT.json` lists every component with its sources, and every hazard with
the line where it bites and the properties about it.

### What is hard here

* **Two goroutines per launch, and operators beside them.** A launch spawns a
  goroutine that reads the console and one that reaps the process. Stop, Kill
  and Restart wait on a channel that is closed *before* the reaper takes the
  lock, a crash sleeps ten seconds outside the lock and then starts the server,
  and console lines may be handled after their process is gone.
* **A game that is asked over its console.** A backup tells the game to stop
  saving, to save now, and listens for a line that anybody's save prints; the
  game may be slow, crash, restart or be stopped between any two of these.
* **A shell in between.** A server with a `run.sh` and no jar is launched as
  `/bin/sh run.sh`: the panel waits for, signals and kills the shell, and the game
  may go on without it.
* **A file written from everywhere.** Every change of a server's state collects
  who is up under the lock and writes it under none, all through one `.tmp`, and
  ignores what fails. To collect it needs every `in.mu`, which a write to the stdin
  of a game that does not read may hold.
* **Checks that are old when used.** A restore, a creation or an import looks at
  the directory and swaps, fills or cleans it minutes later; a terminal is
  counted before it is added, a login let through before its password is checked.
* **Shutdown.** SIGTERM finds a control loop, starts, stops, relaunches, saves
  and terminals under way; main waits for some of them only, and children die
  with the panel.
* **Steps that end half way.** Taking a fan is two register writes, a restore and
  an update are two renames, an audit entry is a line that may be cut off; each
  half may be what the next panel finds.
* **Answers that are lost or old.** An action sent to qBittorrent may have been
  carried out without an answer, or be carried out after the panel gave up; caches
  are filled by requests that overlap.

### What makes the parts correct

* *Instance*: never two processes of one server that the panel started; relaunches
  keep to their budget; Stop and Kill end, and only with the process they know.
* *Manager*: the running list is right once saves are quiet and none failed;
  shutdown waits for what it stops and ends; who was up is started again.
* *Backups*: an archive of an undisturbed running server holds one save; the game
  saves again afterwards; retention deletes only what is old enough.
* *Server directories*: no server's data is lost, whatever fails or crosses;
  a restore puts exactly its archive in place.
* *Fans*: what the panel does not hold has the registers the firmware left; a
  setting or a lost sensor reaches the register or an error is shown; nothing is
  held when the control loop ends.
* *Jobs and bus*: every cancel is on record; a subscriber that keeps up ends with
  the truth.
* *Scheduler*: a due schedule runs once, also over a restart; retries stay within
  their limit; an edit during a run is kept; a RunNow is not left waiting.
* *Terminals*: the cap and the shutdown miss nothing but what overlaps them,
  replay and live chunks join, viewers and idle sessions are not forgotten.
* *Access*: failures are bounded; a logout stays, a login lasts; the newest of the
  recorded entries can be listed.
* *Panel*: a whole, checked binary is always left and the installed one comes to
  run; what runs has a sound configuration.
* *Downloads*: rejected logins are spaced; an action happens once and is seen;
  nothing shown is older than its caches and the requests behind it allow.

## The modules

### McLifecycle — what one server promises

`state` is what the panel shows (`types.go:14-22`), `live` whether a process the
panel started exists. Six lines of behaviour: launched only at rest and with no process left
over, recorded as ended only when the process is gone. It is abstract: no
goroutine, lock or channel. `McInstance` implements it and `McManager` is built
on it.

### McInstance — one server in detail

One action per critical section of `in.mu`, or per step between two of them.
A *slot* is one launch: its `exec.Cmd`, output pipe, `exited` channel and its two
goroutines.

A launch is the game (`java -jar`) or `/bin/sh run.sh` with the game for a child
(`instance.go:248-262`): `os` is the game, `shell` what is in front of it, if
anything. `Status` is the process that was started, the one `cmd.Wait` and the
signals of Stop and Kill are about, and it is `Held` while it lives. When a shell
goes first its game is `Left`: no variable of the panel knows it, though its
console is still read. So the properties speak of held processes: for a server
the panel runs by its jar that is the game, for a `run.sh` server the shell, and a
second game can only be there beside one that was left behind. A `run.sh` that
ends in `exec java` becomes the game; one that starts its game again and again is
not modelled.

| Code | Model |
| --- | --- |
| `Start` up to the unlock; the goroutines it spawns | `Launch` in `Start`, `RestartStart`, `Relaunch`; `Spawn` |
| the game; its shell | `Boot`, `Quit`, `Exit`; `ShellEnds` (external: may do each at any time, or never) |
| `pumpOutput`, `handleLine` | `Pump`: the oldest line of the pipe, whichever launch it belongs to |
| `waitForExit` | `Reap` (Wait and `close(exited)`), `RecordExit` (the locked part), `Relaunch`, `RelaunchRefused` |
| `Stop`, `Kill`, `Restart` | `StopBegin`, `StopTimeout`, `Kill`, `KillSignal`, `Return`, `RestartStart`, `RestartRefused` |
| `recentRestartsLocked` | `RestartBudget` over the ages of the last `RestartLimit` restarts; `Tick` ages them |
| `UpdateConfig` of auto-restart | `UpdateConfig` |

`restartTimes` is modelled as the ages of its last `RestartLimit` entries, capped
at `Window`: older entries cannot change whether the count reaches the limit. The
clock does not tick while a ten-second sleep is pending, because a tick stands
for longer than that. A refused Start changes nothing and is no action, except
where a caller moves on because of it. Left out as data: argv, EULA and port
checks (they refuse), console text other than the two lines that change the
state, players, resource samples; and Command, whose blocking write to stdin is in
`McManager`.

### McManager — the running list, resume and shutdown

Each server is `Server(s) == INSTANCE McLifecycle`: its actions here are those of
the lifecycle, joined with the publish that follows them in the code; `Publish` is
one that follows no change (samples, settings, a rescan). A *save* is one run of
`saveRunningState`: `Collect` under the lock, `Write` of the `.tmp`, `Rename`, each
a step of its own. `WriteFails` and `RenameFails` end it (`Fail`), and since the
code ignores both errors the old list stays; `doubtful` remembers that the latest
save overlapped another or failed. `Asked(who)` begins a save; StartupResume's Start
and a Stop return only after the save they asked for, so `who` says whom it holds
up. `Boot`, `Load`, `StartNext`, `StartFails` are NewManager and StartupResume;
`Signal`, `Pass`, `StopServer`, `StopRefused`, `StopReturns`, `AllStopped`,
`Timeout`, `Exit` are the shutdown; `Crash` may happen at any time, and `Gone` is
what both leave: the two files, and no process. That the games die with the panel
is systemd's doing (`deploy/control-panel.service:21`, `KillMode=control-group`).

`stuck` holds the servers whose `in.mu` is held by a write to stdin that does not
return because the game does not read (`Block`, `Unblock`; `instance.go:482-488`,
also the `stop` that Stop itself writes). Nothing that needs that mutex goes on
meanwhile: the change and the end of that server, its Stop, every `Collect`, and
`Pass`, GracefulShutdown's walk over the servers before it starts its timer. That
the waiting save holds `m.mu`, and so holds up more, is left out: the model allows
more steps than the code.

A change whose publish finds every saver busy waits for one; a write that fails
leaves the old `.tmp` or one that reads as nobody; servers neither appear nor
disappear; the signal comes once StartupResume has read the file.

### FanControl — one panel process and its fans

`fan` is the `hwmonFan` struct and the registers behind it. `SetDuty` and
`Release` yield the set of their outcomes, one per register write that may be
refused, after `Captured` (what is remembered when the fan is taken). `Sense`,
`Lock`, `Drive`/`Yield`/`Watch` per fan, `EndTick` are Run and tick, with the
sensor list read before the lock; `LoopReleaseAll`, `ReleaseOne`, `LoopReleased`
and their `Main` counterparts are the two callers of ReleaseAll; `Set` is
Controller.Set; `Signal`, `Exit`, `ListenFails` are main. Any register value is
allowed at the start, in particular those a killed panel left.

Abstractions: a duty is a member of `Duties`, and a curve with a readable sensor
asks for any of them (interpolation is left out); one sensor serves all curves; a
poke only shortens the wait for the timer; `err` stands for refused or impossible
writes, not for the failsafe text or failed readings; the settings file is
replaced by arbitrary initial settings, and a setting counts in memory whether or
not it could be saved, as in the code.

### JobRunner and JobFeed — long operations and who hears of them

`JobRunner` is the runner under `r.mu`: `Start`, `Return` (the operation's function
comes back, at any time), `End` (the goroutine takes the lock and records
`Outcome`), `Cancel`; `List` is what the API shows. Between `Return` and `End` a job
still counts as running and may still be canceled. `ended` is a history variable.

`JobFeed` composes it with the bus and the event handler. `Spawn` is
`go r.Notify()`: `EndJob` and `StartJob` take it together with the runner's step.
The goroutine then lists (`TakeList`, under `r.mu`) and publishes (`Publish`, under
the bus's lock), two steps that others may come between. `Full` is the `default` of
Publish's `select`. `Subscribe`, `SendFirst`, `PassOn` and `Leave` are handleEvents:
subscribe, send the list of the moment, pass on the queue, go.

Abstractions: an id is used once; events about other things only fill the same
queues, so the queue is small instead; a message handed to the connection counts as
shown (the connection keeps order, and one that breaks is a `Leave`); `Notices`
bounds the goroutines that are under way at once. Left out: the ring of a job's
output lines, and the process RunStreaming starts.

### Scheduler — schedules, executions and restarts

`sched` is the memory the pointers of the engine point at, `items` the schedules in
`e.items`; a deleted schedule may still be pointed at by the tick under way. The
loop is `TimerFires` or `TakePoke`, `Collect` (the locked part of tick), `Begin` and
`Finish` (runOne before and after `exec.Run`, which runs without the lock and may
take any time), `EndTick`. `AfterRun` is the retry logic, `Save` saveLocked with
both outcomes, `Boot` NewEngine with load, `Crash` the end of a panel at any
point. `RunNow` and `Poke` are the two halves of RunNow.

Time is relative: `next` counts down to NextRun, in memory and in the file, so
nothing grows without bound. A rule is the longest time to its next occurrence:
next() returns something after now and no later than that, which covers intervals
and times of day alike; Validate allows no rule shorter than a retry. `ran`,
`unsaved` and `owed` are history. An execution succeeds or fails; the actions
behind it, names, results and the audit hook are left out, and so is the order
within a tick.

### Backups — archives of a game that goes on

A directory is what it holds: for every part of the world the number of the save
it is of. The game (external) boots, saves on its own while `saves` holds, reads
its console from a bounded `pipe`, quits or is killed.

| Code | Model |
| --- | --- |
| the job of `CreateBackup` | `CreateBackup`, `CheckRunning`, `AskSaveOff`, `AskFlush`, `Listen` / `WaitTimesOut` / `DoNotWait`, `OpenArchive`, `ArchivePart` file by file, `ArchiveFails`, `ArchiveDone`, and the deferred `save-on` as `ResumeIfDone`, `ResumeSaves` |
| `waitLog` | `ReadCommand` may print `Saved the game`, and so does an operator's save: `Listen` takes any such line |
| `PruneBackups`, the goroutine of `sched_exec.go` | `EndJob`, `PruneList`, `PruneDelete`, `PruneEnds` |
| `DeleteBackup`; a restore's two renames | `DeleteBackup`; `MoveAside`, `SwapIn` |

Archives are named by the second, so two may collide. `calm` says that nothing
but this job and the game's own saves touched the game since the job looked: the
code promises nothing of the others, and `CalmArchiveIsEven` shows that nothing
else is needed.

### ServerDir — who replaces a server's directory

A directory is, for every file, where it comes from: the old server, a new one,
an archive. A *request* is a restore, a creation, an import or a new jar; restores run in
their handler, several at once, the others as jobs that look at the directory
before they have the job (`Look`, then `MakeDir` or `Refused`). `RestoreBegin`
removes and makes `.restore-tmp`, `Extract` fills it file by file, `MoveAside`
and `SwapIn` are the renames, `RollBack` the attempt to undo the first. `Unzip`,
`FetchJar`, `Download`, `WriteInitialFiles` fill a directory, `FillFails` and
`WriteFails` clean it up. `Rescan` forgets a server whose directory is gone,
`Crash` ends the panel at any point and keeps what is on the disk. `alone`
remembers whether another request came across. The jar is the first
file of an archive; which files there are is data, as are checksums and limits. A
request that was idle when another came across begins unharmed later. Names other
modules have too begin with `ServerDir`, and no directory is `Nil`.

### Terminals — sessions and their viewers

`Create` is the check of the cap under the lock, `LaunchFails` and `Insert` what
follows it; `Output` is one read of the pump: into the replay and to every viewer
in one critical section. `EndSession` closes the viewers' channels, `Close`,
`HangUp`, `Reap` with `ReapNext`, `CloseAll` with `CloseNext` end sessions; both
closers go one session at a time, waiting for each. A viewer `Subscribe`s,
receives, leaves; one whose channel is full is dropped by the next broadcast
(`slow`). `Receive` of a closed channel sends the client `exit`, whatever closed it,
and the request is `ended`.
Chunks are numbered and the replay is the last `Replay` of them (bytes in the
code); resizing only counts as activity. General names begin with `Terminals`.

### Access — logins, sessions and the audit log

A login is `Arrive` or `Refuse` (the limiter), `TakeSlot`, `Wrong` or `Right`
with `CreateSession`, `Answer`; `Logout` and `Expire` end a session; `Save`
writes the file or fails, as every caller of it ignores. `Forget` is a failure
that leaves the limiter's window. `Record` is one line of the log with the
rotation before it (`Rotate`, whose rename may fail); `RecordDone` writes it, a
part of it, which leaves a line without an end, or nothing (`RecordNothing`), and
`CrashInRecord` dies in the middle. `Listing` is the newest `MaxScan` entries of both
generations, 5000 in the code. `Crash` and `Boot` restart the panel with the file
only. One client address: the limiter's entries do not interact.

### Panel — the service and its binary

`file` is the configuration an operator may change at any time, `cfg` what the
process uses: `Normal` is what `validate` fills in and clamps, `Accepted` and
`Bootable` what it and `main` refuse. `Exec` to `Leave` are main's life under
systemd (external: `Exec`, `StopUnit`, `StartUnit`, `TimerFires`). `Apply` to
`ScheduleRestart` are the steps of the update, each with its failures; `SetAside`
and `Install` are the renames, and a roll-back that fails sets `stuck`. A process
may be `Killed` at any step; its shutdown does not wait for an update. A binary is
its build number.

### Downloads — qBittorrent behind two caches

A call goes through `Begin`, `Enter` (the mutex) or `Hit` (the cache), a login
when there is none, `Send`, `Serve` (external: also without an answer), then `Relogin` after a
403, `Legacy` after a 404, `Continue`, `Succeed` or `GiveUp`. An action that is given
up before its answer stays in `late`: qBittorrent may still carry it out
(`ServeLate`). A status goes on to the apps: the handler takes their index from the
cache (`IndexHit`) or asks them (`IndexMiss`, `StoreIndex`), `Enrich` joins the two
and `Answer` sends the page. `Tick` ages what the caches and the handlers hold, also
while a handler waits for the apps, at most `RefreshTime` ticks (up to five calls
of six seconds to each app, `client.go:38`, `166-277`), and the media in the lists: another handler may have
written them, and no match leaves them there (`api_qbit.go:41-49`).
`Outside` is what changes elsewhere: the service goes and comes back, ends
sessions, changes its password, and the torrent enters or leaves an app's queue.
`slice` names the list a status points at, since handlers write into the
one that is cached. One torrent; `rev` counts the actions carried out on it.
General names begin with `Downloads`.

## The runs

| Run | Instance | Shows |
| --- | --- | --- |
| `instance` | 2 slots, one of which may have a shell, 2 callers, limit 2, window 1, 1 line in the pipe; 582k states | `AtMostOneProcess`, `RelaunchRate`, `ReturnMeansGone`, `StopEndsServer`, and that `McInstance` implements `McLifecycle` |
| `manager` | 1 server, 2 saves at once, failing saves, blocked writes; 313k states | `QuietFileIsRight`, `StopsAreAwaited`, `ShutdownEnds` |
| `resume` (violation) | 1 server, 1 save at a time, nothing fails or blocks | `ResumesWhoWasUp` fails |
| `fans` | 1 fan, 2 duties, every fault; 164k states | `HandsOff`, `NothingHeldAfterLoop`, `LostSensorDrivesFull`, `SettingTakesEffect` |
| `jobs` | 3 jobs, history of 2, 2 notifications under way, 1 browser, queue of 2, symmetric; 264k states | `CancelIsRecorded`, `SettledViewIsRight` |
| `schedules` | 2 schedules, rules of 1 and 2, 1 retry, 1 RunNow at a time, failing writes; 354k states | `FileIsCurrent`, `RunNowIsPending`, `NextRunFits`, `OncePerOccurrence`, `DueIsServed` |
| `backups` | 2 parts, 1 archive kept, 2 saves, 2 seconds, 2 commands in the pipe; 5.8M states | `CalmArchiveIsEven`, `SavesAreBack`, `PruneKeepsNewest` |
| `server_dir` | 2 files, 2 archives, 2 requests, 2 seconds, symmetric; 1.7M states | `NothingDeleted`, `RestoredIsArchived` |
| `terminals` | 2 sessions, 1 viewer, cap 1, replay 1, channel 1, 2 chunks; 289k states | `LimitHolds`, `StreamIsWhole`, `OnlyLateSurvive`, `ViewerLearns`, `IdleIsClosed` |
| `access` | 2 tokens, 2 requests, 2 failures, 1 slot, rotation after 2 lines, 3 listed, 4 entries; 2.2M states | `FailuresBounded`, `RevokedStaysOut`, `LoginLasts`, `EntriesAreKept` |
| `panel` | 2 releases, 4 configuration files; 80k states | `BinaryIsLeft`, `RunsOnSoundConfig`, `UpdateTakesEffect` |
| `downloads` | 2 handlers, pausing and toggling, cache times of 1 and 2, 2 actions, symmetric; 2.1M states | `RejectionsAreSpaced`, `ActionIsSeen`, `AppliedAtMostOnce`, `AnswersAreRecent` |

**Why the bounds are enough.** Two slots are one launch and the remains of an
earlier one (its unread console, its sleeping relaunch, a caller that waits for
it), which is what every race needs; slots are reused, so the number of launches
in a run is not bounded. In `MCMcInstance` only one slot may have a shell, which
ends with an error as one that is signalled does: every order of the two kinds of
launch is there, two games left behind at once are not. One caller stops and
restarts, the other stops and kills, which gives every two calls that meet but two
restarts and two kills. Crash recovery is switched off only around the moment when
the reaper looks, since nobody else reads the switch. A limit of two has a first, a last and a refused restart. One line in
the pipe is enough for a line to outlive its process. Two saves of the running
list overlap in every way, with failures and blocked writes; a publish that finds
both busy waits for one. With more servers or saves there are millions of states,
and the proof covers that case. Fans
share nothing but the lock and the list of fans to visit, so one fan shows every
order of its own steps; the proof covers any set. The run starts with registers
either as firmware had them or pinned by an earlier panel.

Three jobs overfill a history of two; they make six events, which two overlapping
notifications may deliver in either order and a queue of two cannot hold. Browsers
do not act on each other; the proof covers any number. Two schedules are enough for
one to be edited or deleted while the other is executed or waits in the same tick;
they share nothing but the loop and the file. A rule of the length of a retry and
a longer one tell an old rule from a new one. One retry has a first failure and a
last. `MCSpec` lets writes fail only as long as nothing but a certain schedule
exists in memory, tick and file, which keeps the states few; the proof covers both.

Two parts are what an archive can hold halves of, two saves what it can mix; two
seconds give archives of one name and of two; two commands fill the pipe while the
job wants to write a third. Two requests for one directory give every pair of
restore, creation, import and new jar, begun over again as often as one likes; two
files make every filling partial once. A cap of one and two sessions exceed it
and end each other; a channel of one fills before the end of a session arrives, a
replay of one has forgotten a chunk. Two logins overlap at the last failure the
limiter allows; four entries rotate a log of two lines twice, whole and torn, and
are more than a listing of three.
Two releases let a second update meet the restart after the first. The four files
have values to default and to clamp, and modes to accept and to refuse; the proof
covers every file. Two handlers overlap in both caches;
an error that is cached longer than a status, and a hold-off longer than a call,
are as in the code. `MCSpec` of `MCDownloads` looks at two situations apart: an old
qBittorrent with a password, whose apps answer at once, and a new one without, whose
apps make the handler wait; each with the operation that takes its way through the
code (the pause is renamed, the toggle is not repeatable).

The runs `fans`, `jobs` and `terminals` check no deadlock: there the panel ends, or
jobs and sessions run out. Every other run does.

**Fairness.** Weak fairness for the panel's own goroutines and armed timers, which
the Go runtime schedules: the reaper, the timeouts and SIGKILL of a waiting Stop
(`instance`), main, the saves and the two-minute timer once it is set (`manager`:
weak fairness asks nothing of a step that needs a mutex which is held, and a blocked
write owes nothing, so `ShutdownEnds` claims the end of a shutdown that has spawned
its Stops, and before that only if no write stays blocked), the control loop
and main (`fans`), the scheduler's loop, whose executions all return
(`schedules`), the reaper of idle terminals and the handler of a connected viewer,
which drains its channel (`terminals`). A hung-up shell goes (`HangUp`: SIGHUP, and
SIGKILL from `pty_linux.go`). In `panel` systemd starts a wanted unit and fires its
timer, and main goes on through start and shutdown. The
other runs check safety only. None for the game or its shell, operators, browsers, a
signal, the sensor, the driver, GitHub or qBittorrent: a process may ignore `stop`
and SIGINT for ever, and only SIGKILL is certain, of the process it is sent to.

## What the runs found

**Who was running is forgotten** (`resume`). GracefulShutdown saves the list and
then runs Stops whose own publish overwrites it without those servers; and
Rescan's publish at start-up may overwrite it before it is read (`manager.go:99`,
`203`, `251-254`). `deploy/config.example.yaml:126-127` promises the opposite.

## Promises the code does not keep

The modules define what some texts of the repository promise. TLC refutes these
(put the name into the cfg of the component); no run checks them, because a run
that fails is kept for `ResumesWhoWasUp` only.

* `RelaunchOnlyAfterCrash` (`McInstance`). `deploy/config.example.yaml:135`:
  "relaunch after a crash". The ten seconds of sleep after a crash are not cancelled
  by anything: crash, Start, Stop, "stopped", and the server comes up again
  (`instance.go:394-400`).
* `ReleasedAtExit` (`FanControl`). `main.go:301-302`: "a dead panel must never leave
  a fan pinned". A tick in flight takes fans again after main's ReleaseAll, and main
  does not wait for the loop (`main.go:303`, `controller.go:89-96`).
* `AutoIsReleased` (`FanControl`). `fans.go:10-11`: releasing restores the exact
  values. When `pwm_enable` is written and `pwm` is refused, the provider holds the
  fan and the controller does not know (`linux.go:207-220`, `controller.go:180`).
* `DropsAreHarmless` (`JobFeed`). `bus.go:43-44`: drops are harmless, each event
  being a full snapshot. But a full queue keeps the old snapshots and loses the
  newest (`bus.go:48-52`), and nothing sends it again: the browser shows an ended job
  as running until another starts or ends.
* `RestoreWhileStopped` (`ServerDir`). `README.md:118-119` of the repository: a
  restore "refuses to run while the server is running". It looks before it
  extracts and renames the directory after (`manager.go:530`, `549`): a Start in
  between runs in the displaced directory.
* `UnknownIsUnmatched` (`Downloads`). `types.go:103-105`: a verdict is unknown when
  there is no matching item. Handlers write what they joined into the torrents of
  the shared cached status (`api_qbit.go:41`), where one finds the media of
  another's join without its verdict, and two write at once.

Seen while modelling, without a definition of their own:

* Stop "blocks until the process is gone" and Kill "terminates the process
  immediately" (`instance.go:415`, `452`). Of a server launched through `run.sh` that
  is the shell: SIGINT and SIGKILL (`instance.go:437`, `446`, `464`) go to its pid
  alone, the state becomes "stopped", and the game may go on; as long as it has not
  bound its port a second Start succeeds. `ReturnMeansGone` and `AtMostOneProcess`
  say what is left.
* GracefulShutdown is given two minutes (`main.go:304-308`), but takes every `in.mu`
  before it sets the timer (`manager.go:203`, `207`, `223`), and Stop writes `stop`
  under it (`instance.go:426`): a game that does not read its stdin may hold up the
  end of the panel until systemd kills it.
* `term.go:37-39`: a slow subscriber is dropped and "can reconnect". The handler tells
  its client `exit`, with `exited: true`, as if the session had ended
  (`api_terminal.go:77-79`; `EndIsTold` excepts `slow`).
* A write or rename of `mc-running.json` that fails is ignored
  (`manager.go:660-661`) and nothing tries again before the next publish.
* Two notifications may list in one order and publish in the other
  (`main.go:117`); `SettledViewIsRight` excepts exactly that with `overlapped`.
* An Update takes back a RunNow the loop has not collected (`engine.go:202`), which
  `RunNowIsPending` allows, and what a tick has collected is executed even if it
  is disabled or deleted meanwhile (`engine.go:89-94`).
* When ListenAndServe fails, `fatal` ends the process without ReleaseAll
  (`main.go:297`); `FanControl` has the step.
* Sessions that are created together exceed the cap (`term.go:134`; `LimitHolds`
  excepts `crowd`), and one that is being created outlives CloseAll, which "ends
  every session" (`term.go:180`; `OnlyLateSurvive` excepts `late`).
* The swap of an update is called atomic (`update.go:3-5`): between its renames
  there is no binary in place, and nothing starts again if the process dies there.
  After a roll-back that failed, the next update removes the copy that was left
  (`update.go:152`; `BinaryIsLeft` excepts `stuck`).
* A creation or import that fails removes the directory although another request
  may have put it there since the look (`import.go:44`; `NothingDeleted` excepts
  `StaleCleanup`).
* The `-listen` flag replaces the address after the configuration was validated
  (`main.go:72`), so the rule that an open panel stays on the loopback is not
  applied to it.
* A browser that goes away cancels the request to qBittorrent it had begun, and the
  failure is cached for everyone (`qbit.go:137`).

## The proofs

A proof module EXTENDS its component, in three cases two components that share
nothing (which is why the general names of the second carry a prefix). It states
an inductive invariant, `IInv` unless another name is given, which TLC does not
need but the proof does, that it is invariant, and one theorem per property. The
proofs assume only the named assumptions on the constants. An invariant that is
new was checked by TLC on the component's run before it was proved.

* `McInstanceProofs`: any number of slots and callers, any limit, window and pipe.
  `IInv` adds to `TypeOK` that `in.proc` is set exactly while the server is active
  (`ProcMatchesState`), that it is the one launch whose end is not recorded
  (`Owner`), that only that launch is held and not once reaped (`OwnerLives`), and
  that what an operator asked of it is in `stopRequested` (`AskedIsRemembered`).
  So a Start that finds the server idle finds `proc = nil` and nobody held; a game
  that lives then is one its shell has left.
  The rate needs `RateInv` beside it: a crash is entered in `restartTimes` at once
  and the relaunch it pays for comes later or never, so while *p* relaunches sleep
  the *i*-th last relaunch is at least as old as entry *i + p*.
  Proved: `TypeCorrect`, `OneProcess`, `IdleServerIsGone`, `OperatorEnd`,
  `CallsBlock`, `RateCorrect`, and `Implementation`: every step of `McInstance` is
  one of `McLifecycle` or a stutter.
* `McManagerProofs`: any servers, any number of saves. `IInv` says that while no
  save has overlapped another or failed (`doubtful`) at most one save is between collect and rename, that
  a written one has its list in the `.tmp`, and that when nobody has asked for
  another save that list, or else the file, says who is up (`SaveInv`); and that
  a server the shutdown stops is waited for or gone (`StopInv`). Proved:
  `TypeCorrect`, `FileCorrect`, `ShutdownCorrect`.
* `FanControlProofs`: any fans, duties and faults. `IInv` adds that c.mu has one
  holder, that what a held fan captured is what the panel found, and that what
  ReleaseAll still has to visit covers what is engaged. Proved: `TypeCorrect`,
  `Bookkeeping`, `Restoration`, `LastRelease`, and `TickCorrect` (`TickApplies`): what
  a tick has visited without an error is as its setting asks, or at 100% without
  its sensor. That is the part of `LostSensorDrivesFull` and `SettingTakesEffect`
  that is about single steps; that ticks come is left to TLC.
* `FanControlProofs`, second part, `ServerDir`: any files, archives and requests.
  `DirInv` says that what a job nobody crossed has filled is new (`FillOK`), so that
  its clean-up deletes nothing of a server's, and that a restore nobody crossed has
  in `.restore-tmp` its archive's files, as far as it has extracted them
  (`RestoreOK`). Proved: `ServerDirTypes`, `KeepsDirectories`, `RestoresArchive`.
* `JobFeedProofs`: any jobs, length of the history, notifications, browsers and
  queue. `IInv` adds that the history holds recorded jobs only (`RunnerInv`), that
  a browser that is away has an empty queue, that without an overlap at most one
  list is unpublished (`Alone`), and that the list of now is still to be taken,
  or carried by that notification, or the last one in the queue, or shown
  (`Carried`). Proved: `TypeCorrect`, `OneJob`, `CancelCorrect`, `HistoryCorrect`,
  `ViewCorrect`.
* `SchedulerProofs`: any schedules, rules, retries and callers, writes that fail.
  `IInv` adds that only what is being executed has been begun since it was due
  (`RanInv`), that a RunNow mark comes with a token in the channel, a caller about
  to put one there, or a loop already awake (`TokenInv`), and that the file's times
  fit the file's rules (`FileFits`), which a restart needs. Proved: `TypeCorrect`,
  `FileCorrect`, `NextRunCorrect`, `RunNowCorrect`, `OnceCorrect`, `EditsCorrect`.
* `BackupsProofs`: any parts, retention and bounds. `IInv` says that every
  `save-off`, in force or still in the pipe, has a `save-on` behind it or a job that
  owes one (`SavesInv`), what the console and the game are like in every phase of
  a calm job (`CalmInv`), and that what is newer than a listed archive was made and
  is not unmade (`PruneInv`). That directories and archives hold saves of the world
  (`DiskOK`) needs that a directory has a newest save (`NewestSave`), which follows
  from the least of its upper bounds (`LeastNumber`, from the library's theorem
  that < on the naturals is well-founded). Proved: `SavesCorrect`, `CalmCorrect`,
  `RetentionCorrect`, `TypeCorrect`.
* `WebProofs`, `Access`: any tokens, requests and limits. `IInv` adds that the session file
  holds every login that was saved and is neither over nor logged out
  (`FileHolds`), that a panel that is down has no requests, and that the recorded
  entries that can be read in neither generation and were not rotated away, with an
  unpaid torn last line, are at most the lines torn (`Damage`); the cut of a listing
  costs none of the newest, since nothing unrecorded can be read (`Readable`). Proved:
  `TypeCorrect`, `LimiterCorrect`, `RevokedCorrect`, `LoginCorrect`, `LogCorrect`.
* `WebProofs`, second part, `Terminals`: any sessions, viewers, cap, replay and
  channels. `TInv` says that a session without a closer was being opened when
  CloseAll began or is still in its list (`StoppedInv`), that what a viewer has been
  sent and has waiting is one piece and, while its channel is open, reaches the
  newest chunk (`Joined`), so that the next chunk fits behind it. Proved:
  `TerminalTypes`, `TerminalLimit`, `TerminalsShut`, `TerminalStream`, and
  `TerminalEnds` (`EndIsTold`): no channel of an ended session is open, no end waits
  in one early, and `exit` is sent for an ended session or to a slow client. That is what `ViewerLearns` rests on; that a viewer reads on is
  left to TLC. `TickApplies` and `EndIsTold` are in no run: their theorems alone
  vouch for them.
* `PanelProofs`, `Panel`: any configuration files and releases. Lemmas about the
  configuration say that what `validate` yields is in range and a fixed point of it
  (`NormalRanges`, `InRangeIsNormal`, `LoadedIsSound`). `IInv` adds that an update
  belongs to a process that serves, and that one runs only while its binary is in
  place or it has itself moved it (`SwapInv`). Proved: `TypeCorrect`,
  `ConfigCorrect`, `BinaryCorrect`, `VerifiedCorrect`.
* `PanelProofs`, second part, `Downloads`: any handlers, operations, cache times and
  back-off. `DInv` says that only the holder of the mutex has a call under way
  (`OneCall`), that an answer is as new as its call and shows every action that has
  returned (`ReplyIsNew`), that an action carried out once has an answer no retry
  follows (`AppliedOnce`), that the rest of a hold-off and the time since the last
  rejection add up to the back-off (`HeldOff`), and how old the caches and what a
  handler took from them may be (`CacheSound`, `IndexSound`, `Pages`). `ListsInv`,
  proved on top of it, says the same of the media in the lists: those of a list in
  use are as old at most as the index they came from and the list's own time in the
  cache and with the handlers. Proved:
  `LoginsSpaced`, `ActionsOnce`, `ActionsSeen`, `AnswersRecent`.

So every invariant and action property the passing runs check is proved. Only
model-checked are the liveness properties (`StopEndsServer`, `ShutdownEnds`,
`LostSensorDrivesFull`, `SettingTakesEffect`, `DueIsServed`, `ViewerLearns`,
`IdleIsClosed`, `UpdateTakesEffect`): they rest on fairness and ENABLED, which the
prover does not reach.

## Plan

What would come next, the most useful first:

1. Of the scheduler's `DueIsServed` the part that is about single steps, as
   `TickApplies` is for the fans and `EndIsTold` for the terminals.
2. The scheduled restart over `McLifecycle`: its retry finds the server down and
   reports a success.
3. UpdateConfig's two critical sections with `mc-overrides.json`.
4. That the servers of `McManager` keep to `McLifecycle` between two lives of the
   panel, and one module that joins its shutdown with the fans' and the terminals'.

## Not modelled

* Plex, the overviews of the app clients, metrics, storage and services: requests
  and read-only views, with one short cache each at most.
* File browsers and preferences: path resolution and plain file operations.
* Overrides, properties and EULA: single writes of small files under one lock, but
  for the hazard of UpdateConfig in the plan.
* RCON, ping, MOTD and the log ring; HTTP routing and JSON; archive formats and
  limits; which files a flavour of Minecraft downloads: wire formats and sequential
  code that unit tests reach and a model would repeat.
* The web interface and the menu bar app, which are clients of the API, and the
  mock providers, which stand in for hardware during development.
