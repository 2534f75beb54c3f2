# A TLA+ model of pppoe-dialer

`pppoe-dialer` is a Windows service, written in Rust, that keeps one PPPoE
broadband connection online. It dials a phone book entry through the RAS API
when the cable is in and the connection is down, backs off after failures, and
otherwise sleeps on kernel events without polling. This directory holds TLA+
modules translated from its source, the TLC configurations that check them and
the proofs that TLAPS checks. Paths such as `worker.rs:303` are relative to
`src/src/`; `PROJECT.json` maps every definition to its source lines.

## 1. The system

### Components

| Component | Source | State | Operations |
|---|---|---|---|
| Worker state machine | `worker.rs` 146-348, 412-499 | loop position, `blocked_attempts`, verdict behind the current wait, two auto-reset events, the registration guard | start-up, make sure the entry exists, evaluate (cable, online), dial, react to the result, `Waiter::wait`, `wait_for_change` with debounce, shutdown |
| Back-off | `worker.rs` 93-145, 496-499 | base, cap, jitter, attempts | `next_delay`, `reset`, `millis32` |
| RAS wrapper | `ras.rs` | the handle and the result of the current dial, the watchdog thread and its event, whether the phone book has the entry | `dial`, `enumerate`, `is_connected`, `abort_stale_attempts`, `hang_up_and_wait`, `ensure_entry` |
| Link detection | `link.rs` | none (a pure verdict); the notification registration | `check`, `notify`, `interface_changed`, drop of the guard |
| Service lifecycle | `service.rs` | statics `STOP_EVENT`, `STATUS_HANDLE`, `CURRENT_STATE`, `STOP_REQUESTED`; checkpoint | `service_main_impl`, `handler_ex`, `report`, the worker thread |
| dial-once | `worker.rs` 351-410, `main.rs` 149-157 | a dialled connection | make sure the entry exists, check cable and connection, dial, hang up unless `--keep` |
| Service installation and control | `svc_install.rs` | none; it changes the SCM database and the event log source (external) | install, uninstall, start, stop, query |
| Logger | `logger.rs` | the open file and its day behind a lock, the log directory | init, emit, rotate on a new day, prune, shutdown |
| Configuration | `config.rs` | the settings | decode, defaults, validate |
| Command line | `main.rs` | none | dispatch, console mode |
| Error type | `error.rs` | none | constructors |
| Scripts | `*.ps1` | none | build, install, release |

### How they interact

- **SCM → service**: ServiceMain runs on one thread, the control handler on the
  dispatcher's. They share four atomics and the stop event, and both report
  to SCM.
- **Consoles → SCM → service**: the commands of `svc_install.rs` are processes
  of their own. They reach the service only through SCM, one call at a time,
  and several may be under way; SCM also starts the service by itself, at boot
  and to recover it from a crash.
- **Configuration file → everyone**: the service insists on a file that loads,
  and so does `install`; the other commands fall back to the defaults.
- **Service → worker**: ServiceMain starts the worker and polls whether it has
  ended; the handler tells it to stop through the manual-reset stop event.
- **Worker → RAS**: `dial` blocks in `RasDialW`. A *watchdog* thread waits next
  to it and, after `dial_timeout_secs`, hangs up the attempt from outside, which
  makes `RasDialW` return. Both threads run `abort_stale_attempts`.
- **Windows → worker**: interface changes arrive as a callback on a system
  thread that does one `SetEvent`; connection changes as an event that RAS sets
  by itself. Both are auto-reset, so several changes become one wake-up.
- **Others → RAS**: users and other programs dial and hang up entries at any
  time, the service's own included, and users edit the phone book. The console
  command `dial-once` is one of
  them: a second process that runs the same `ras.rs` on the same entry.
- **Everyone → logger**: all threads of a process write through one sink under a
  lock; the time stamp is read before the lock is taken. The sinks of two
  processes share one directory, and each cleans it up.

### What is hard here

1. *Lost wake-ups.* The worker sleeps without a time-out on a verdict (cable
   out, connection up) that may be out of date when it falls asleep. An event
   may be consumed by the debounce of an earlier one.
2. *Two threads in ras.rs.* The watchdog may fire while `RasDialW` returns. It
   must not outlive its attempt or wait on a closed event.
3. *Stale snapshots.* `abort_stale_attempts` hangs up handles it listed earlier.
4. *Failing calls.* Every API call can fail, mostly with a log line and a
   default: no watchdog, no list, a status read as "not connected". The phone
   book entry is looked for once per process; if that fails, every dial does.
5. *Crashes.* RAS keeps its table, so a restarted process meets attempts and
   connections it did not make.
6. *Stop at any time*: before there is a worker, during a dial that is never
   answered, during the debounce.
7. *Concurrent status reports* of ServiceMain and the handler.
8. *Months without a restart*: the limit on log files is enforced at start-up,
   which never comes again, and therefore also at every change of the day, while
   late records of another thread may change the day back.
9. *Commands in many steps.* `install` and `uninstall` are a dozen calls to
   SCM and the registry, each of which can fail or be the last one before the
   console is closed, while the service starts, stops, crashes and is recovered.
10. *Machine arithmetic*: a delay that overflows before the cap, a jitter larger
   than the delay, milliseconds that do not fit 32 bits, where `u32::MAX`
   means "for ever".

`PROJECT.json` lists them one by one under `hazards`, each with its line and the
properties that cover it.

### What makes each component correct

- *Worker*: it ends up online once the trouble is over; it never sleeps
  through a change; it stops when asked; it leaves a working connection, and
  every connection of another entry, alone; it closes no event a callback uses.
- *RAS wrapper*: an attempt ends within its time-out, the watchdog with it, and
  a failed attempt is let go so that the port is free for the next one.
- *Back-off*: the promised series, bounded, from the start after a success.
- *Link detection*: "up" means a cable in an interface that counts; plugging in
  never reads as "down".
- *dial-once*: it ends, it leaves no test connection and no half-open attempt
  behind, and it takes nothing from the service.
- *Logger*: a record is in the file of its day, the number of files is bounded
  however long the process runs, and what was logged today is not cleaned away.
- *Service*: a stop request is never lost and ends in STOPPED; STOPPED is
  reported on every way out and only without a worker; reports reach SCM in order.
- *Service installation*: an install that reports no problem is complete; an
  uninstalled service goes away and leaves nothing behind that dials; no command
  waits for ever.
- *Configuration*: what `validate` accepts is what the back-off relies on; no
  file stands in the way of `uninstall`.

## 2. The modules

```
Windows ── Ras ─┬─ Dialer ── DialerProperties ─┬─ DialerRefinement ── MCDialer  (TLC)
                │                              │         │ (INSTANCE AbstractDialer)
                │                              │         └─ RefinementProofs   (TLAPS)
                │                              └─ DialerProofs                 (TLAPS)
                └─ DialOnce ─┬─ MCDialOnce     (TLC)
                             └─ DialOnceProofs (TLAPS)
Config ─┬─ Backoff ─┬─ MCBackoff     (TLC)
        │           └─ BackoffProofs (TLAPS)
        └─┐
Service ──┴─ SvcInstall ─┬─ MCSvcInstall     (TLC)
   │                     └─ SvcInstallProofs (TLAPS)
   └─ ServiceProofs ────────┘                (TLAPS)
LinkCheck ─┬─ MCLinkCheck     (TLC)      Logger ─┬─ MCLogger     (TLC)
           └─ LinkCheckProofs (TLAPS)            └─ LoggerProofs (TLAPS)
```

**Windows** is the world: cable, server, the RAS table `conns`, the two events
and how they come to be set. Of the repository it holds only
`interface_changed`; the rest is the contract `ras.rs` and `link.rs` rely on
and is marked external in the map. A handle in the table is `none`, `calling`
(our `RasDialW` negotiates), `dialing` (another program does), `stale` (the
negotiation is over and nobody hung up, so the port is busy), `up` or `closing`
(hung up, not released). Every adverse event takes one unit of `trouble` and
belongs to a named kind; `Faults` chooses the kinds of a run and `MaxTrouble`
how many may happen in all.

**Ras** is `ras.rs` with its two threads. `pc` says where each is. Each RAS API
call is a step of its own, so the table may change between any two, with one
exception: the calls of one `enumerate()`, the list and a status query per
handle, are taken together. Little is lost by it. A connection that comes up
between the list and its query could as well have come up before both; what
`abort_stale_attempts` read is used arbitrarily later in any case; and a handle
that disappears in between has a query that fails, which the model has as the
fault `status` and counts as trouble. The snapshot of `abort_stale_attempts` is
`todo`, the handle `wait_for_release` polls is
`target`. Conversions: `enumerate` reads a failed status query as "not
connected"; `abort_stale_attempts` counts a handle whatever `RasHangUpW` said.
RAS itself answers a dial with success, an error of class `756`, `retry`
or `config`, or not at all. `entry` says whether the phone book has the entry.
`ensure_entry`, which the service and dial-once both call before anything else,
is `ProbeEntry` and `CreateEntry`; either may fail, which nobody minds at the
time. Without the entry a dial is answered by 623 at once and without a handle
(`EntryNotFound`). Users create and delete the entry (`PhoneBookEdited`), as long
as it has no connection.

**Dialer** is `run()`. The labels of `pc["worker"]` are the calls of the loop:

| Label | Code | Actions |
|---|---|---|
| `start` | events, registrations | `Start`, `StartFails` |
| `entry`, `create` | `prepare_entry` | `PrepareEntry` |
| `cable` | `link::check` | `CableIsDown`, `CableAllowsDialling` |
| `online` | `ras::is_connected` | `AlreadyOnline`, `NotOnline` |
| `dial` … `hang_up_wait` | `ras::dial` | `DialBegins` … `FailedDialReleased` |
| `dialled`, `failed` | its result | `DialSucceeded`, `DialFailed` |
| `abort_*`, `aborted` | the 756 branch | `Abort*`, `NothingAborted`, `SomeAborted` |
| `backoff` | `next_delay` | `BackOff` |
| `wait`, `debounce` | `Waiter::wait`, `wait_for_change` | `Wait*`, `Debounce*` |
| `leave`, `cancel`, `close` | the end of `run()` | `CancelNotification`, `CallbacksDrained`, `CloseEvents` |

`Crash` ends the process anywhere and SCM starts it again. Flags that only
choose a log line are left out, `blocked` counts only as far as it is read, and
the length of a delay is left to Backoff: here a back-off is any finite sleep.

**AbstractDialer** says what `run()` promises and not how: a cable, a
connection and a stop request that change at any time, and a worker that is
awake or asleep. It may fall asleep only on a verdict that is true at that
moment, and only a stop request makes it leave. Its `Progress` says that a
verdict that is no longer true ends the sleep and that being awake ends. There
are no events, threads or RAS calls in it, and nothing says how it is done.
**DialerRefinement** maps Dialer to it: the connection is up when a handle of the
entry is, `Phase` folds the labels of `pc["worker"]` into five, everything
between two waits being "awake", and the verdict is `waitFor`. A dial with its
watchdog, retries and hang-ups, or a burst of events with its debounce, is a
sequence of stutters.

**DialOnce** is `dial_once` on top of the same `Ras`, with the command as the
process "worker" and the service among the other programs of `Windows`, which
dial (`OtherDials`), give up (`OtherAbandons`) and clear the entry
(`OtherHangsUp`). Unlike the service the command gives up when the cable or the
connection cannot be queried, does not clear what owns the port, and has no
Ctrl+C handler (`Interrupted`).

**Backoff** is the arithmetic of `next_delay` and `millis32` with the integer
widths as constants. The random offset is any number below the span. Its
settings are those that `ValidDelays` of Config lets through.

**Config** is `config.rs` as functions. A file is a record of what decides
whether it loads (`exists`, `encoding`, `toml`) and of the fields it gives;
`from_toml_str` fills in the defaults, `validate` is the conjunction of one
predicate per section. Texts are trimmed and lower-cased already. `Loads` is
`Config::load` and `LoadOrDefault` what `main.rs` makes of it.

**LinkCheck** is `link::check` as an operator over a table of interfaces; a step
changes one interface and evaluates again. Adapters are reduced to the six
facts the decision looks at. The order of the rows is kept: the first match
decides.

**Logger** is the file sink. The log directory is the sequence of its file names
in the order of the last writes, which is all `prune` looks at: `files` begins
with the file written last. A thread's record is two steps, reading the clock
(`now`) and `write_file` under the lock (`Record`, `OpenFails`), so records
overtake each other at midnight. The service and a console command are processes
with a sink each and one directory; a file that one removes while the other has
it open stays open (`Removed`) and swallows what is written to it. The directory starts with files of earlier
settings whose names begin the same.

**Service** is `service.rs`. `report()` is two steps because it stores
`CURRENT_STATE` before it calls `SetServiceStatus`; the handler's branches and
the poll loop are modelled step by step. The worker appears as seen from
outside: it starts, it ends after the stop event, or it gives up with an error.

**SvcInstall** composes it with the consoles and with SCM. `at[c]` is the next
call of the command in console `c`:

| Label | Call | Actions |
|---|---|---|
| `create` | `CreateServiceW` | `CreateService`, `CreateFails` |
| `recovery` | `ChangeServiceConfig2W`, twice | `SetRecovery`, `RecoveryFails` |
| `source`, `summary` | `register_event_source`, the summary | `RegisterSource*`, `InstallEnds` |
| `open` | `open_service` | `OpenService`, `OpenFails` |
| `start`, `query` | `StartServiceW`, `QueryServiceStatusEx` | `StartService*`, `QueryService` |
| `control` | `ControlService(STOP)` | `ControlStop`, `ControlFails` |
| `poll` | `query_state` until the deadline | `StoppedOrLate`, `PollFails` |
| `delete`, `unregister` | `DeleteService`, `RegDeleteKeyW` | `Delete*`, `RemoveSource` |

`Begin` is the dispatch of `main.rs`: it reads the file (any of `Files`, a
different one each time) and refuses the command, or not. The same file is what
ServiceMain loads (`LoadConfig`). The rest is the contract with SCM and is
marked external: a service that is marked for deletion is removed once it has
stopped and no process has it open; a crash leads to a restart if the recovery
actions are set; a reboot starts it. `ControlService` returns in the model when
SCM has delivered the control, not when the handler has answered; the wait that
follows covers the difference.

Definitions whose comment begins with "Broken variant" are not used by any
specification: they are plausible bugs of the definition they precede, kept to
show that each property does depend on the code (`mutants` in `PROJECT.json`).

## 3. What is checked

### Passing runs

| Run | Instance | Properties |
|---|---|---|
| `dialer_safety` | two own handles (symmetric), one foreign, all 20 kinds of fault, two of them | `TypeOK`, `NoLostWakeup`, `WatchdogConfined`, `CallbackNeverDangles`, `Implements`, `OtherEntriesUntouched`, `TearsDownOnlyWhileDialling` |
| `dialer_live` | two own handles, all kinds, one fault at any moment | `StaysOnline` |
| `dialer_stop` | one own handle, two faults of the kinds that leave the watchdog able to work | `FailedDialLetGo`, `StopCompletes`, `KeepsPromises` |
| `backoff` | all settings out of seven values, 64-bit maximum 20, 32-bit maximum 11 | `TypeOK`, `FollowsSeries`, `DelayBounded`, `SleepMatchesDelay`, `StartsOver` |
| `service` | the service and two consoles, one with every command and one that may start it; files that load, are missing or are invalid; one failure of 17 kinds | `InstallTypeOK`, `StopSticks`, `StoppedMeansIdle`, `EndIsReported`, `SignalsOpenEvent`, `NoGhostDialler`, `OrderedUnlessFailed`, `CompleteInstall`, `StopEndsInStopped`, `RemovalTakesEffect`, `CommandsEnd` |
| `link_check` | every table of three rows over 14 kinds of adapter | `TypeOK`, `UpMeansCable`, `RealCardNotMasked`, `Monotone` |
| `dial_once` | two own handles, one foreign, all settings, two faults out of 13 kinds | `TypeOK`, `NothingLeftBehind`, `LeavesOthersAlone`, `Ends` |
| `logger` | a service with two threads (symmetric) and a console command with one, four days, at most three files, one failure, any number of restarts | `TypeOK`, `TodayKept`, `Bounded`, `OwnDay` |

*Bounds.* Two own handles are needed because RAS gives a new attempt a new
handle while the old one is being released. At most one connection of an
entry is up or dialling at a time, so a third handle would only lengthen a
snapshot. Two faults are enough for a fault during the recovery from another;
the proofs below lift the bound for all safety properties. In `dialer_live` one
fault suffices for the question asked (recovery after the *last* one) together
with initial states that already hold a half-open or foreign attempt, or no entry.
`AttemptsMax = 1` makes the counter saturate at once; its value matters only in
Backoff. In `backoff` products pass the 64-bit limit, milliseconds the 32-bit
limit, and the capped shift reaches the cap from some bases and not from others.
`link_check` needs three rows: a real card, a virtual one, and the one that
changes. `dial_once` leaves out the faults that disarm the watchdog, as
`dialer_stop` does, because `Ends` rests on it. In `logger` the limit equals the
number of threads of both processes, the least for which `TodayKept` holds: with two files and
three threads TLC finds today's file removed, since each late record brings an
older file back to the front. Four days let a file be pushed out by two others
and by today's.

`service` needs two consoles: uninstall waits for the service while somebody
else starts it. One failure is enough to cut any sequence of calls in two, to
crash the service at any moment or to restart the machine; the commands
themselves may follow each other without bound, so that an install meets what an
earlier one left half done. `CheckpointMax` is the smallest bound under which
the checkpoint is seen to count and to saturate. Two administrators who install
and uninstall at the same time are left to the proofs, which hold for every
`Allowed`, but for the one of `CompleteInstall`.

*Deadlock* is not checked in the runs of the dialler and of dial-once because
they do stop (`done`), and in those of SvcInstall because nobody has to
give another command.

### Fairness

Weak fairness only: threads are scheduled, timers expire, queued callbacks and
RAS notifications are delivered, RAS releases a port that was hung up and
returns from a call whose connection was hung up, and a reachable server answers
a dial. All of it is what the operating system or the network does unasked.
Nothing is assumed of an unreachable server, of users or of SCM, and no fault
is ever due: the fair actions are conjoined with `UNCHANGED trouble` wherever an
action has a failing branch. `StaysOnline` therefore reads "once the adverse
events are over". It has one excuse that lasts, `EntryMissing`: the code looks
for the phone book entry once per process (`worker.rs:173`), so one that could not
be created then, or was deleted since, stays missing, and every dial answers 623
until somebody repairs the phone book or starts the service again. The excuse
holds only when something did go wrong, or when the configuration forbids to
create the entry: a service that nothing disturbs creates it and gets online, and
so does, without a restart, one whose phone book is repaired.
`StopCompletes` holds with a server that stays silent for
ever, because the watchdog's time-out is a step of a scheduled thread. In
Service the worker's end after the stop event is assumed; it is what
`StopCompletes` shows of Dialer. In SvcInstall a command that was given is
carried on, call by call, and SCM removes or starts the service when that is due;
a call that fails is never due. `RemovalTakesEffect` has a premise, `OneConsole`:
SCM keeps a service that some process has open, so two consoles that take turns
in opening it could put off the removal for ever, which no code can prevent.

### Findings

Each is a run that TLC ends with a counterexample to a claim the repository makes.

| Run | Claim | What the code does |
|---|---|---|
| `online_hung_up` | "Only connections that are not online are touched, so a working broadband link is never dropped" (`ras.rs:348-350`) | The snapshot is old when `RasHangUpW` is called: an attempt that connects in between is hung up although online. `dial` then even reports success. The drop is noticed through the RAS event and dialled again (`StaysOnline` holds). |
| `stop_unguarded` | `dial_timeout_secs` bounds a stop (`pppoe.toml.example:95-99`, `docs/DESIGN.md:212`) | If the watchdog thread cannot be spawned the dial proceeds without a time-out. |
| `obstacle` | "the obstacle is gone afterwards" (`worker.rs:297-299`) | A failed hang-up counts as an abort, so the back-off is dropped with the port still busy. |
| `unremovable` | "Everything below must work even when the configuration file is broken, otherwise a bad file could make the service unremovable" (`main.rs:80-81`) | Only a file that does not load is replaced by the defaults. One that loads but names another service is refused by `service_name` (`svc_install.rs:58-67`), and `uninstall` ends before it opens the service. |

Lesser observations are stated in the modules and have no run:

- `StoppedIsFinal` (Service): the diagram of `service.rs:8-13` ends in STOPPED,
  yet when the worker gives up while a control is being handled, the handler
  reports STOP_PENDING or RUNNING after STOPPED.
- `UninstalledMeansStopped` (SvcInstall): `docs/DESIGN.md:734-736` and
  `README.md:304` say that uninstall stops the service before it deletes it; it
  deletes a service that is starting, that takes no control, or that is past the
  deadline just the same. `RemovalTakesEffect` and `NoGhostDialler` are what
  remains true.
- `WithinJitter` (Backoff): "capped, plus +/- jitter" (`worker.rs:129`), yet with
  a jitter above the delay the result exceeds delay + jitter.
- `RealCardDecides` (LinkCheck): real cards are preferred and `adapter_name` then
  chooses between them (`docs/DESIGN.md:926-929`), yet the filter comes first and
  can select a virtual adapter although there is a real card.
- `RetriesTakeOver` (DialerProperties): of a failure to verify the entry
  `worker.rs:432-434` says that the dial reports the error "and the retry logic
  takes over from there". It does retry, for ever, but no retry looks for the
  entry again: after one failed `ensure_entry` the service stays offline with a
  cable in and a server that answers.
- `BlockedInARow` (DialerProperties): `blocked_attempts` is called a count of
  consecutive blocked attempts, yet a failure of another kind does not end the
  series. Only a warning depends on it.

## 4. What is proved

Proved by TLAPS, for every value of the constants that meets the named
assumptions: `HandlesAssumption` (the own entry has a handle, own and foreign
handles are disjoint, the null handle is neither), `TroubleAssumption`,
`SettingsAssumption` (switches are Booleans, limits positive),
`BoundsAssumption` and `AllowedAssumption` (a bound on failures, one on the
checkpoint, a set of commands per console), `LoggerAssumption` (finitely many
processes and threads, each thread of one process) and, for the
back-off, `WidthAssumption` (positive widths, settings within them, a shift of
at most 16). In particular any number of handles, faults and failures.

**DialerProofs.** The safety properties are not inductive alone. `IInv` is
the conjunction of

- `TypeOK`;
- `Registration`: the worker holds the registration exactly between start-up and
  shutdown, callbacks exist only within it, and the events are open at least as
  long. Without it `CallbackNeverDangles` and `NoLostWakeup` do not survive a
  `SetEvent` on a closed event, which would be lost;
- `WatchdogConfined`;
- `OwnAttempt`: what the handle of the current dial may be. It is there to
  exclude that `HangUpFailedDial` hangs up a connection that is up: after a
  failed answer the handle is not up, and nobody else can have dialled on it;
- `LetGo`: from the hang-up of a failed attempt until the end of the back-off
  its handle is closing or gone. `FailedDialLetGo` speaks of the back-off only;
  to survive the steps on the way there (the wait for the release, the clearing
  of what is in the way) it has to hold from the hang-up on, and to say that the handle cannot come back:
  RAS gives the value to nobody else as long as the worker holds it;
- `ForeignNotClosing`: needed for `OtherEntriesUntouched`, which speaks of the
  next state;
- `NoLostWakeup`. Its argument: a worker falls asleep on "cable out" only after
  reading `cable` in the same step, so whatever changes it later queues a
  callback; the callback survives as queued, running or as the set event, until
  the worker consumes it by waking. The same holds of the connection and the
  RAS event.

Each conjunct has a lemma with one step per action (`TypeStep`,
`RegistrationStep`, `WatchdogConfinedStep`, `OwnAttemptStep`, `LetGoStep`,
`ForeignNotClosingStep`, `NoLostWakeupStep`); `IInvInductive` collects them,
`Invariance` is `Spec => []IInv`. From it follow `TypeCorrect`,
`WakeupNeverLost`, `WatchdogStaysConfined`, `CallbackSafe`, `PortLetGo` and the two action
properties `OthersUntouched` and `TearDownConfined`. The last one says where the
service may hang up a connection that is up, and admits the clearing of attempts:
that this does hit a working connection is what `online_hung_up` shows.

**RefinementProofs** proves `DialerImplements`, `Spec => Implements`: the
initial states map to initial states, and each action to an action of
AbstractDialer or a stutter. The steps of Windows map to `World`, which may
change cable and connection at will; what has to be shown is that they leave
`Phase` and the verdict alone, that the steps of `Ras` stay inside "awake",
and that the worker falls asleep only on a true verdict. It takes the type
invariant of DialerProofs and `VerdictOnlyAsleep` (a verdict is kept only during
the wait) and no more, because the verdict is formed in the step that reads it: `NoLostWakeup` is needed only for what happens later,
which the abstract dialler states as progress. For the same reason
`Implements` cannot notice a lost wake-up; `NoLostWakeup` and `KeepsPromises` do.

**ServiceProofs** proves that the process of the service keeps an invariant
whoever starts, stops or kills it. `IInv` is the conjunction of

- `TypeOK` and `NoProcess` (without a process everything is as at the start);
- `Routes`: where a report in progress returns to determines what it reports.
  `report()` is called in eight places, and this is what tells them apart
  between its two steps;
- `Progress`: how far ServiceMain has come in terms of the statics, the event
  and the worker, so that a stop always finds an event to set;
- `Finished`: STOPPED is only ever stored or reported near the end of ServiceMain;
- `Controls`: the handler is only ever entered after RUNNING was reported;
- `Order`: each report in progress ranks at least as high as what SCM knows,
  unless the worker gave up by itself.

It has a lemma per actor (`MainStep`, `HandlerStep`, `WorkerStep`,
`ControlStep`, `GoneStep`, `StartStep`).

**SvcInstallProofs** lifts it to the composition. A command moves the service
only by starting it or by sending it a control, and a failure of any call
only uses up `trouble`, so every step of a console or of SCM is a step of Service
or leaves it alone but for `trouble` (`FaultElsewhere`, `CommandStep`,
`ElsewhereStep`). `ServiceInvariance` is `InstallSpec => []IInv`; the six properties
of the service follow for the service *with* its consoles. `NeverAGhost`
adds `DismissedStays`, `StartedInstalled` and `RemovedStopped`: only an installed
service is started, and one is removed only when it has stopped, which is when
no worker is left.

**LinkCheckProofs** proves all four properties of the verdict for tables of any
length and adapters of any kind: `IInv` only says that the verdict is that of
the table, `MatchedRows` which rows count, `CheckUp` and `CheckUpIff` when the
verdict is "up". `AlwaysMonotone` compares two tables: a change of one interface
leaves the rows that count as they are (`SameRows`).

**BackoffProofs** proves `BackoffTypeCorrect` (nothing overflows),
`DelayAlwaysBounded`, `SleepAlwaysMatches` and `AlwaysStartsOver`, over lemmas
about the saturating operators and `Nominal`. `SeriesAlwaysFollowed` compares the
code, which shifts, with the series its comment promises, which is a recursive
function. The induction theorems of the library cannot be instantiated here, so
the proof goes another way: `NominalDoubles` shows that `Nominal` satisfies the
equation of the series, doubling from one number to the next while the shift
grows and staying at the cap when it no longer does; as something satisfies the
equation, the function that is defined by it does (`SeriesEquation`); and the
numbers where the two differ, if there were any, would have a least one, which the
equation contradicts (`SeriesIsNominal`). `FollowsNominal` is the property with
`Nominal` in place of the series, and is inductive together with the bounds.

**DialOnceProofs** proves the three safety properties of the command with the
invariant `IInv`: `OwnAttempt` says what the handle may be given the answer of
RAS, `ByAnswer` which answer leads where and that `--keep` never leads to a
hang-up, `LetGo` that what was hung up stays closing or gone. With them
`NothingLeftBehind` is inductive: every way to `done` passes a hang-up, keeps the
connection on purpose, or never had a handle. `OthersLeftAlone` needs the
invariant too: the handle hung up after a failed dial is not up and nobody else
dials on it.

**LoggerProofs** proves the four properties of the file sink for any number of
processes, threads and days. The directory is a sequence without repetition whose
first file is moved there by a write, and `RemoveProperties`, `FrontedProperties`
and their neighbours say what that and a clean-up do to the place of a name. `IInv`
holds beside the type

- `NotAhead`, `Emitting`, `OpenOfDay`: nothing is dated later than today, only
  running processes log, and an open file is that of its day;
- `TodayInFront`: the argument for `TodayKept`. A thread can hold one record that
  is late. Each such record pushes today's file back by at most one place when it
  is written, and is no longer on its way then. So the place of today's file and
  the number of late records never exceed the number of threads together, and a
  clean-up that keeps as many files spares it;
- `PaidFor`: the argument for `Bounded`. A process adds a file without a clean-up
  only when it opens its first one, or opens the file of its day again after
  another process cleaned it away. It then becomes one of the `Settled`
  processes, whose file is in the directory, and it leaves them only by a
  clean-up, which restores the limit, or a failure, which is counted.

**SvcInstallProofs**, last, proves `InstallIsComplete` from an invariant per console
(`Installing`: what an install has done by each of its calls unless it warned;
`Commanded`: which commands reach which calls). It has a hypothesis, `NoRivals`:
while one console may install, no *other* one may uninstall. An uninstall
between the calls of an install does undo them, and the code does not coordinate
consoles; an administrator who works alone meets the hypothesis, as does the
instance of `service`.

**Model-checked only.** The liveness properties (`StaysOnline`,
`StopCompletes`, `KeepsPromises`, `StopEndsInStopped`, `RemovalTakesEffect`,
`CommandsEnd`, `Ends`): the prover handles neither fairness nor ENABLED. Every
invariant and every action property of a passing run is the statement of a
theorem. `KeepsPromises` is the liveness half of the refinement, of which
`DialerImplements` is the safety half.

## 5. What is not modelled

- Of the command line: the parsing of arguments and of `--config`, the console
  mode (the same worker without a service around it), and the commands that
  only print.
- Of the configuration: the TOML parser, the path of the file, `summary`.
- Two administrators who install and uninstall at the same time, as far as model
  checking goes. A race between `DeleteService` and the removal of the event log
  source is thus not looked at.
- The logger's masking of secrets, levels, console and event log; a clock that is
  set back.
- The fields of a phone book entry and of the dial parameters, and edits of the
  phone book while the entry has a connection.
- The time at which a file system notes a modification. `prune` sorts by the time
  in the directory, which may lag behind the writes of a file that is still open;
  in the model the order is that of the writes.
- Log texts, formatting, `error.rs`, and the PowerShell scripts, which are pure
  I/O or hold no state.
- Time. Time-outs may fire at any moment; only Backoff deals in durations.

## 6. Plan

1. **Proofs**: an abstract file sink and an abstract service lifecycle, with
   refinements as for the dialler.
2. **Service + Dialer** composed: the handler's `SetEvent` is `RequestStop`, the
   end of the worker is `WorkerStops`; the assumption in Service's fairness
   becomes a property of the composition.
3. **The console mode** as a second process next to the service.
