# A verification of kbdlock in TLA+

kbdlock locks the keyboard of a Windows machine. A Go program (tray icon,
command line, safety timers) drives a small C++ process, the *sentinel*, which
installs a low-level keyboard hook and swallows every key while it is locked.
Its one promise is that the keyboard can always be unlocked again. This
directory holds TLA+ modules of the two processes and of their interaction,
TLC configurations that check them on small instances, and TLAPS proofs for
every instance.

Contents: [the system](#the-system) · [the modules](#the-modules) ·
[the runs](#the-runs) · [what the runs found](#what-the-runs-found) ·
[the proofs](#the-proofs) · [what is not modelled](#what-is-not-modelled) ·
[the plan](#the-plan)

## The system

| component | code | state | operations |
|---|---|---|---|
| controller | `internal/controller` | `c.locked`, `c.client`, under `c.mu` | LockCommand, UnlockCommand, syncUnlock, the 500 ms poller, HandleHotkey, SetClient, Stop |
| idle timeout | `internal/safety/idletimeout.go` | one `time.Timer` | Start (re-arms), Stop, the callback `c.Unlock` |
| mouse corner | `internal/safety/mousecorner.go` | a counter | polls the cursor, calls `c.Unlock` |
| tray | `internal/tray` | `activeTray`, two menu items | onReady, SetState, clicks |
| hotkey | `internal/hotkey` | a registered hotkey | calls `c.HandleHotkey` |
| control pipe | `internal/control` | one goroutine per connection | LOCK, UNLOCK, STOP, PID |
| sentinel manager | `internal/sentinel/manager.go` | `m.client`, `m.locked`, `m.cmd`, under `m.mu` | Start, Connect, watchdog (ping every 5 s), restart, SetDesiredLock, Stop |
| sentinel extraction | `internal/sentinel/extract.go` | executable and hash file | ExtractSentinel, cleanStale |
| IPC client | `internal/ipc` | one pipe connection, under the client's mutex | Connect, Close, Send with a deadline of 5 s |
| pipe server | `sentinel/pipe.cpp` | one pipe instance | LOCK, UNLOCK, PING, STATUS, SET_COMBO, QUIT |
| hook | `sentinel/hook.cpp` | `g_locked`, `s_keysDown`, the combo, the ESC hold | LowLevelKeyboardProc, DoUnlock, SetUnlockCombo |
| sentinel main | `sentinel/main.cpp` | `g_lastPingTime`, a global mutex | heartbeat timer, message loop |
| launch, instance | `internal/launch`, `internal/instance` | a status file, a named mutex | StartDetached, AcquireController |
| configuration | `internal/config`, `internal/cli` | `config.json` | Load, Save, config set / reset |
| output | `internal/logger`, `notify`, `appconsole` | none that matters | logging, toasts, console |

How they interact:

* Commands reach the controller from goroutines of their own: one per
  connection of the control pipe, one for the clicks of the tray, one for the
  hotkey, one each for the idle timer's callback and the mouse corner. Each runs
  LockCommand or UnlockCommand from beginning to end under `c.mu`, including the
  round trip to the sentinel.
* The poller and the watchdog talk to the sentinel outside `c.mu`. All of them
  share one pipe connection, serialised by the client's mutex; requests and
  answers carry no numbers.
* restart replaces the sentinel and the client and tells the controller with
  SetClient. It holds `m.mu` while it waits for the client's mutex; commands hold
  `c.mu`, wait for the client's mutex, and then for `m.mu` (SetDesiredLock).
* In the sentinel the hook and the heartbeat timer run on the main thread, the
  commands on the pipe thread. They share `g_locked` and `g_lastPingTime`
  (atomics) and the combo (plain memory).

The hard behaviours: a Send that times out although the sentinel goes on to
execute it; the sentinel dying, or unlocking itself, between any two steps; a
restart that fails half-way; the poller acting on an old answer; the idle
timer's callback racing the end of its lock; a controller that meets a sentinel
left over from an earlier one; the two threads of the sentinel; processes that
save the configuration at the same time; an extraction that ends half-way.
`PROJECT.json` lists each at its line, under `hazards`, with the properties that cover it.

## The modules

```
Ipc  <-  PipeServer  <-  Manager  <-  Controller  <-  Kbdlock  <-  KbdlockProofs
                                                    LockService  <--  Kbdlock
                              KbdlockProofs  <-  ServiceProofs  <-  RecoveryProofs
                                                          Lease  <--  Sentinel
Sentinel  <-  MCSentinel
Sentinel  <-  SentinelProofs
Lifecycle  <-  LifecycleProofs
Files  <-  ConfigStore  <-  MCConfigStore
           ConfigStore  <-  ConfigProofs
Files  <-  Extract  <-  ExtractProofs
```

(`A <- B`: B extends A. `A <-- B`: B instantiates A.) The first line is the
controller's view of the world. Each module adds the variables and actions of
one component; an action there says what it changes of its own module and of
those below, and `Kbdlock` adds the rest and puts them together as `runTrayApp`
does. The sentinel appears in it as it looks from the pipe. `Sentinel` is the
same process from the inside, at the grain of single stores.

**Ipc** (`internal/ipc/client.go`). Connections are numbered as they are dialled
(`dials`); `live` is the one that the sentinel's only pipe instance serves. A
client *is* its connection's number, so a stale client is one with an old
number. `req` and `resp` are the two directions of the pipe. Send is two steps,
the write and the read, between which `using[g]` says that goroutine `g` holds
the client's mutex. `Answered` is a read that returns the first line there is;
since every Send makes a `bufio.Reader` of its own, lines that the same read
returned after it are lost, which is why it may drop more than one. `Failed` is
the deadline or a broken pipe; after a deadline the request and its answer stay
in the pipe.

**PipeServer** (`sentinel/pipe.cpp`, and `hook.cpp`, `main.cpp` as far as the
pipe shows them). `Serve` is one turn of the read loop. `SelfUnlock` is every
unlock without a command (a combo, ESC, the heartbeat). `Crash` is the process
being killed, which takes the lock, the combo and the pipe with it. `Launch`
starts a process; if the old one is still there, its global mutex makes the new
one exit, so nothing changes.

**Manager** (`internal/sentinel/manager.go`). `dog` is the program counter of the
watchdog goroutine: from `rest` through `ping` and `pong` back, or into
restart: `close`, `start`, `dial`, `restore`, `relock`, `relocked`, and then
main.go's onRestart: `adopt`, `combo`, `confirm`. `desired` is `m.locked`.
`m.mu` is held across steps only in `close`; elsewhere its critical sections are
single steps.

**Controller** (`internal/controller`, `idletimeout.go`, `tray.go`). `pc[g]` and
`op[g]` say where goroutine `g` is in LockCommand, UnlockCommand or syncUnlock:
`enter` (before `c.mu`), `request`, `reply`, `commit` (`c.locked`), `desire`
(SetDesiredLock), `finish` (tray and timer, and `c.mu` is released). `mu` is the
owner of `c.mu`. The poller has the steps `query` and `status` before it.
`timer` is "fired" from the moment the callback is on its way until the timer is
set or stopped again. `shown` is which menu item is enabled, and `missed` that the
last SetState came before the tray had a menu. The mouse corner is not a goroutine of its own: all it does
to the rest is to send an unlock, as one of `Callers` may at any time. The hotkey
may be pressed also while the keyboard is locked, when the hook would in fact
swallow it: the model allows more than the system there.

**Kbdlock** (`main.go`). `Init` is the state in which runTrayApp starts its
goroutines; with `Orphan` the sentinel it is connected to may be an older one
that is locked, and with `TrayUp` the menu exists from the start. The start's own
SetCombo may have timed out, which is only logged (`main.go:223-225`): then its
request may still be unread. The module states the properties.

**LockService** is the abstract specification of all this: a keyboard (`kbd`), the
record of its state (`record`), and at most one command (`call`), which acts on
the keyboard (`Act`, `done`), then on the record (`Answer`), in that order. The
record changes without a command only when somebody has `seen` the keyboard
unlocked (`Correct`: syncUnlock). `Fail` and `Restore` are possible only after a
fault: `crashed`, or `lossy`, when a Send has timed out and its command may still
be executed, or its answer read by another (`Late`); it may have done so before the
first step. `Kbdlock` instantiates it as
`Service`. The record is `c.locked`; the command is that of the owner of `c.mu`,
from `request` to `commit`; it is done when its "OK" is the next answer in the
pipe or has been read; the poller has seen the keyboard unlocked when "UNLOCKED"
is. What is left out are the goroutines, the pipe, the watchdog and the mutexes:
`ImplementsLockService` says that none of them shows.

**Sentinel** (`hook.cpp`, `main.cpp`, `pipe.cpp`). One action is one key event's
way through the hook up to the look at the unlock combo. IsUnlockComboPressed
goes on load by load (the count, which the build may load again, then one key after
the other); DoUnlock, the timer's two loads and its store, the two stores of
LOCK, and those of SET_COMBO, key by key and the count last, are actions of their
own, so that the two threads interleave between them. (The compiler cannot put
the count first: the loop before it may return.) A combo is a sequence of codes, of
which HandleSetCombo takes the first `MaxComboKeys` and refuses fewer than two.
Another controller that connects may be configured with another of `Combos`, and
its SET_COMBO overwrites the one in force. `inForce` (the last combo set) and `met`
(the combos that were in force or being written since the hook began to look) are
history. Time advances by one period of
the heartbeat timer; stamps are kept as ages. `held` and `repeating` are the
user's hands and the keyboard's auto-repeat. `Code` is what Windows gives a hook:
the code of the left or right modifier, never the neutral one.

**Lease** is what `Sentinel` promises, without hook, stamps and threads: the
keyboard is locked on a lease. A connected controller takes it (`Lock`, until
`Locked`) or renews it (`Renew`), each of its words is good for `Term` periods of the
heartbeat timer, anything may end it early (`Unlock`), and no period begins with a
locked keyboard whose lease has run out (`BeginPeriod`). `Sentinel` instantiates it
as `OnLease`. `Term` is the heartbeat timeout and one period, since the timer looks
only once per period and asks for more than the timeout. What is left of a lease is
`Term` less the age of the stamp; a LOCK that is being executed has set `g_locked`
and not yet the stamp (`pipe = "locking"`), and counts as a new lease from its first
store. A period has begun and not ended while the timer message is due.
`ImplementsLease` says that the two stores of LOCK, the two loads of the timer and
DoUnlock may interleave as they will.

**Lifecycle** (`main.go`, `internal/launch`, `internal/instance`,
`internal/control`, and the Start, Connect, restart and Stop of `manager.go`).
Here several kbdlock processes come and go, and the lock itself is left out.
`pc[t]` is where runTrayApp of process `t` is: `acquire`, `loser` (another
instance has the mutex), `start`, `connect`, `listen`, `serve` (the control pipe
is open, the tray has no window yet), `run`, `failing` (mgr.Stop after an error),
`exit`. `handles` is the named mutex: it exists as long as a process has a handle
on it, and CreateMutex gives one to whoever asks, also to the loser and to the
probe of another command (`"cli"`). `stop[t]` is the shutdown, which runs beside
the main goroutine: `asked`, `closed` (the control pipe), `quit` (Manager.Stop has
its copies and has cancelled the context), `wait`, `done`, and `posted` or `lost`
for the WM_CLOSE of tray.Quit. A Quit before tray.Run has a window is lost, and one
before systray has its callbacks panics (`QuitPanics`). Of the sentinel it keeps what matters here: that
one runs (`sent`), whom it serves (`conn`), and which of the manager's process
handles stand for it (`cmd`, `taken`), for a process that is launched while
another sentinel runs exits at once. `dog` is the watchdog again, reduced to what
competes with Stop. `cli` is `kbdlock stop`, and the failing connection of
`lock` and `unlock`; `launcher` and `file` are StartDetached and its status file.
A wait with a time limit is a step that may take either outcome at any time: 3 s
here and 3 s there do not order anything.

**ConfigStore** (`internal/config`, and the config commands of `internal/cli`). Any
number of processes run `config show`, `set`, `reset`, or the tray's start, which is
a Load like `show`. `pc[p]` follows one of them through Load (`load`, `read`, and,
since Load creates a missing file, Save) and Save (`open`, `write`, `rename`, and
`remove` after a failed rename). `config` and `temp` are the two files, whose
content is a configuration, or `Empty`, `Torn` or `Absent` (module **Files**). A
configuration gives each of `Keys` a value: its default, another one, or one that
validate refuses, which only the `Checked` keys have. What a process writes over a
file that is not empty may leave the end of the longer content: `Overwritten`. A
step may fail or be the last of its process wherever there is a system call.
`mixed` and `overtaken` are history: whether the last to open `config.json.tmp` found another
Save in progress, and who goes on with a configuration that has been replaced.

**Extract** (`internal/sentinel/extract.go`, and the calls of it in `manager.go`).
`exe`, `old`, `part` and `hash` are the four files, with the number of the build
they are of; `step` is how far ExtractSentinel has got, of a tray process of build
`build`, started (`Start`) or restarting its sentinel (`Restart`). `image` is the file
of the sentinel that runs, which survives its tray process. Each file operation
may fail, and each may be the last of its process, which leaves a part of what it
was writing. The instance mutex of `Lifecycle` makes the process that extracts the
only one.

Definitions named after a mistake (`FailedKeepsMutex`, `LockWithoutStamp` ...)
stand before the definition they distort. No specification uses them: the
`mutants` of `PROJECT.json` put them in the place of the real one, to see that
each property notices.

## The runs

Every passing run explores its instance completely.

| run | bounds | shows |
|---|---|---|
| `Kbdlock_Safety` | 1 connection, tray, toggling hotkey, idle timer, poller, watchdog; 1 timeout, 1 crash, 1 failed restart; orphan or not | TypeOK, StateAgrees, ClientIsCurrent, RepliesMatchRequests, AnswersOwed, LockHasCombo, NoWaitCycle, LockHasTimeLimit, WatchdogKeepsClient, RestartExcludesCommands, ImplementsLockService |
| `Kbdlock_LiveCrash` | tray, which appears late, hotkey, 1 crash | TrayShowsLock, CallsReturn, PhantomLockHeals, WatchdogRevives |
| `Kbdlock_LiveTimeout` | tray, which appears late, 1 timeout | CallsReturn, PhantomLockHeals, StaleAnswersDrain, IdleTimeoutUnlocks |
| `Sentinel` | 2 keys; combos of 2 and of 4 codes, of which 3 fit; a heartbeat timeout of 2 ticks, a hold of 1; the controller may return once, with either combo | TypeOK, HeartbeatBound, BitmapSound, UnlockIntended, FailOpen, EscHoldUnlocks, ImplementsLease |
| `Lifecycle` | 2 tray processes, 1 kill or ping that times out; failing calls without a bound | TypeOK, OneController, KillHitsStopped, FailedStartEnds, StopEndsOwnSentinel, StopEnds, CliStopEnds |
| `ConfigStore` | 3 processes (symmetric), 2 settings, one of them checked | TypeOK, SaveInstallsItsOwn, OnlyResetForgets |
| `Extract` | 3 builds | TypeOK, LaunchedIsEmbedded, UpgradeNotBlocked |

Why the bounds are enough. Goroutines of the same kind run the same code, so a
second connection adds only a second waiter on `c.mu`; together the tray, the
hotkey, the connection, the timer and the poller already give five goroutines
that contend for it. One timeout puts the pipe one answer out of step; a second
makes it two, which `AnswersOwed` shows for every number by proof. One crash can
fall between any two steps, and a crash during a restart, or a second one, is
what `Kbdlock_SecondCrash` needs. A heartbeat timeout of two ticks leaves
room for "not yet", "exactly" and "past"; a hold of ESC only for "not yet" and
"long enough", which is what the code tells apart. Of the two combos one is longer than
the other and than `MaxComboKeys`, and they have their keys in different places, so that
each can be written over the other, with its beginning or its end left of the other;
either may also be written over itself. CTRL and ESC are in both, and ESC is also the key
that is held; more keys are a matter of the proofs. The hotkey that locks
before the menu is there, which `TrayShowsLock` is about, is in `Kbdlock_LiveCrash`;
`Kbdlock_Safety` has the menu from the start to stay small. Two tray processes can be rivals, or one can be the
heir of the other's sentinel, mutex and control pipe; the proofs of `Lifecycle` take
any number. A failing call there ends its process or its restart, and needs no
bound; kills and timeouts (`MaxFaults`) can be repeated.

Three processes are what it takes for one to be overtaken by a second while a
third holds the file open; two settings, one that validate looks at and one that
it does not, tell "changed one" from "lost the other". Three builds allow an
upgrade, a downgrade and a build between them. Nothing is counted in these two
modules: commands, failures and kills can be repeated for ever, and their proofs
take any number of processes, settings and builds.

The bounds are named constants: `MaxTimeouts`, `MaxCrashes`, `MaxFailures`
(guards of `Failed`, `Crash`, `DogLaunchFails`, `DogDialFails`), `MaxReturns`
(`ControllerReturns`). `dials` needs none: each restart but the last costs a
crash, a failure or a timeout. The proofs take the bounds as arbitrary numbers.

Fairness. `FairSpec` of `Kbdlock` says that each goroutine keeps running (strong
fairness), that the sentinel's thread does, and that a timer that is set
expires. Strong rather than weak, because most steps wait for a mutex that
others take again and again: Go's `sync.Mutex` hands itself to a goroutine that
has waited for a millisecond, so nobody is passed over for ever. No fairness is
assumed of a user, of a caller, of a failure, of the hook unlocking or of the
tray becoming ready. `FairSpec` of `Sentinel` says that time passes, that the
message loop and a started command go on and that a key that is held repeats.
It assumes too that the main thread dispatches one timer message before the next
is due, which Windows demands of a thread with a low-level hook anyway.
`FairSpec` of `Lifecycle` says that runTrayApp and the shutdown go on once begun and
that the wait of `kbdlock stop` ends: weak fairness is enough, because no step
of theirs waits for a contended resource in the model. That shutdown gets `c.mu`
and `m.mu` in the code is what `CallsReturn` shows of their holders. Nobody has
to start, stop, kill or probe anything.

`ConfigStore` and `Extract` assume no fairness and claim no liveness: a command may
be killed at any point and nobody has to run another.

No run turns deadlock checking off: a user can always act, and in `Lifecycle`,
`ConfigStore` and `Extract`, where processes do end, another command can always be
tried.

## What the runs found

Each of these runs checks one property that the repository claims and expects TLC
to refute it. `PROJECT.json` quotes the claims, under `findings`.

| run | what happens |
|---|---|
| `Kbdlock_SyncRace` | The poller asks, then an UNLOCK and a LOCK go by, then it acts on "UNLOCKED": the controller forgets a lock that stands. |
| `Kbdlock_GhostLock` | LOCK times out, is executed after all; UNLOCK returns OK without asking. |
| `Kbdlock_SecondCrash` | The sentinel dies before restart has dialled: the client stays nil and no tick tries again. |
| `Sentinel_Emergency` | The emergency combo is looked for under codes that the hook never gets. |
| `Lifecycle_StopSentinel` | `kbdlock stop` kills a controller that waits for its sentinel; the next one inherits it and, on its shutdown, waits for the wrong process. |

The models reach some more behaviour that a maintainer may want to look at. No
run is kept for these; each shows up after the change in parentheses.

* A controller that connects to the locked sentinel of a dead one starts with
  `locked = false`: its UNLOCK does nothing and its pings keep the lock alive
  (`Kbdlock_GhostLock` with `Orphan = TRUE` and `MaxTimeouts = 0`).
* The idle timer's unlock meets a sentinel that has just died, fails, and is not
  repeated; the watchdog restores the lock (`IdleTimeoutUnlocks` without its two
  excuses, with `MaxCrashes = 1`).
* A callback of the idle timer waits for `c.mu` until a new lock has begun, and
  ends that one (`pc["idler"]` goes from "enter" to "request" while `timer` is not
  "fired").
* A LOCK by the hotkey or the control pipe before onReady has built the menu finds no
  tray to tell; onReady then disables Unlock whatever the state is, and the menu of a locked
  keyboard offers Lock only (`TrayShowsLock` without `missed`).
* A controller that has inherited the sentinel writes its combo over another, key by key
  and while the hook reads it: keys of the one and of the other unlock together, though
  neither combo is pressed, and the comment at `sentinel/hook.cpp:29` says "Check if the
  configurable unlock combo is fully pressed" (`UnlockIntended` with one `c` of `met` for all
  keys).
* A combo of more than eight keys is accepted by config and cut to its first eight
  by the sentinel (`sentinel/pipe.cpp:25`); those eight unlock (`Sentinel`, where
  `U` is never needed).
* `CTRL` and `LCTRL` have one code (`internal/config/vkcodes.go:11`), so that a combo of
  these two has its two keys and is pressed with one (one of the
  combos of `Sentinel` has both).
* Another key pressed while ESC is held ends ESC's repeats, and with them the
  check of the hold (`EscHoldUnlocks` with `"ESC" \in held` for `repeating = "ESC"`).
* QUIT's WM_QUIT goes to the pipe thread, and the main loop never ends (`running`
  never becomes false). Every orderly shutdown therefore lasts 3 s, as long as
  `kbdlock stop` waits before it kills.
* After a ping that timed out, restart launches a process that exits at once, and
  Stop no longer ends the sentinel (`Lifecycle_StopSentinel` with one process and
  `MaxFaults = 1`). So does a Stop between restart's look at the context and
  its Start.
* A tray process may be kept out by the probe of `kbdlock lock` alone
  (`pc[t] = "loser"` while nobody is in `Guarded`).
* `kbdlock start` reports success if it meets a controller that is failing or
  shutting down, and nothing runs afterwards (`launcher[t] = "ok"` and
  `pc[t] = "exit"` while the other process is in "failing").
* A status written after StartDetached gave up creates a file that stays
  (`launcher[t] = "late"` and `file[t] = "started"`).
* Two Saves that overlap can install a torn `config.json`, which every later Load
  refuses, although the comment at `internal/config/config.go:82` says "Save writes
  config to disk atomically": one opens and truncates the shared temporary file
  while the other has it open (`ConfigStore` with the invariant `config # Torn`).
  The longer of the two contents, written first, keeps its end. One of them may
  also report success for the other's content (`SaveInstallsItsOwn` without
  `mixed`).
* Two `config set` at the same time lose one of the changes, and a `config show`
  that meets no file puts the defaults over what was set since it looked
  (`OnlyResetForgets` without `overtaken`).
* `config set idle_timeout_min 0` succeeds, although the usage text at
  `internal/cli/cli.go:222` says "minimum 1", and then nothing but `config reset`
  works, `config set idle_timeout_min 1` included: configSet starts with a Load
  (`ConfigStore` with an invariant that `config` is `Valid` unless `mixed`).
* An extraction that ends between the rename and the hash file leaves a hash file
  that speaks of the build before. If that build is started again, ExtractSentinel
  takes the newer executable for its own (`LaunchedIsEmbedded` without its excuse).
* An upgrade does not end the sentinel that runs. If its tray process was killed,
  the new controller goes on with the old one, whatever it has extracted
  (`image = "old"` in "up").
* Ctrl-C before the tray has a window: the shutdown is done, and the process goes
  on with a tray that does nothing (`stop[t] = "lost"`, `pc[t] = "run"`); if systray
  has not registered its callbacks yet, the process panics instead (`QuitPanics`).

## The proofs

`KbdlockProofs` and `RecoveryProofs` (`NoWaitCycle`, `LockHasTimeLimit`,
`WatchdogKeepsClient`, `RestartExcludesCommands`) prove the type invariant and
every other property of `Kbdlock_Safety` but the refinement, which is
`ServiceProofs`', for any set of connections and any number
of timeouts, crashes and failed restarts, from the assumptions on the constants
alone, and `TrayShowsLock`, whether the menu is there from the start or not.

The argument, in layers, each inductive relative to those before it:

1. `TypeOK`, from lemmas about the IPC primitives (`SendTyped`, `AnsweredTyped`
   ...) that every action is built of.
2. `MutexDiscipline`: who holds `c.mu` is inside a command, and only there; who
   runs which command.
3. `StateRecorded`: how far the holder of `c.mu` has got. `StateAgrees` alone is
   not inductive, since it says nothing of a held `c.mu`; this says that between
   `commit` and `desire` the two records may differ and that between `commit` and
   `finish` the timer and the tray may lag, and nowhere else. `StateAgrees` and
   `TrayShowsLock` follow, the latter with the case of a SetState that found no menu
   (`missed`): a menu that is wrong is wrong only that way, and only by offering
   Lock for a locked keyboard.
4. `DogHasClient` with `ClientIsCurrent`: the watchdog never uses a nil client.
5. `SendersKnown`: the goroutines in a Send are those whose program counter says
   so.
6. `PipeDiscipline`: a client serves one Send at a time, and a connection nobody
   waits on is empty unless a Send has timed out. With these,
   `RepliesMatchRequests` and `AnswersOwed` are inductive: each Send adds one
   request, `Serve` turns it into one answer, and only a timeout leaves with its
   answer unread.
7. `ComboComing`: a sentinel without a combo is unconnected and unlocked, or a
   restart holds the connection to it and has yet to send the combo, or the
   request is in the pipe. `LockHasCombo` is the case of a watchdog at rest.

`ServiceProofs` proves `ImplementsLockService`: `Init` maps to the initial states
of `LockService`, and every step of the program to one of its steps or to none.
The invariant is the one above (`PipeInv`) and `Quiet`: as long as nothing has died
or timed out, the connection is the first one and the watchdog never leaves its
pings, so nothing is restored and no call fails. There is a lemma per step of
`LockService` (`Asks`, `Acts`, `Answers` ...), which says when a step of the program
is that one, and one per goroutine (`AgentSimulated`, `PollerSimulated`,
`DogSimulated`, `SentinelSimulated`) that goes through its steps. What makes it work
is that a command's "OK" cannot be another's: `RepliesMatchRequests` while nothing
has timed out, and `Late` from then on.

`RecoveryProofs` proves what the mutexes, the idle timer and the restart owe each
other, from `ServiceInv` (`PipeInv` and `Quiet`) and what each adds to it:

* `NoWaitCycle`. Take any set of waiting goroutines. If one of them is in a Send, it
  holds a client's mutex and waits for nobody. If none is and the watchdog is among
  them, it waits for nobody in the set unless it waits for `c.mu`, in `adopt`, where
  it holds nothing. Otherwise all wait for the holder of `c.mu`, who has got past
  `enter`. So the order client's mutex, `m.mu`, `c.mu` is never closed to a circle,
  although restart holds `m.mu` while it waits for a client and commands hold `c.mu`
  while they wait for `m.mu`. The invariants behind it are `MutexDiscipline` and
  `SendersKnown`.
* `LockHasTimeLimit`. `StateRecorded` knows that a lock that has just been recorded
  has its timer or is about to. That it keeps one needs `TimerPending`: a timer
  that has fired has its callback on the way, with an UNLOCK (`IdlerUnlocks`), and a
  callback that ends without having unlocked has lost its Send, which cannot be as
  long as nothing has gone wrong (lemma `QuietHears`).
* `WatchdogKeepsClient`. The watchdog's client becomes nil only in a restart, and
  the restart ends without one only if its launch or its dial fails: neither does
  by itself while `failures = 0`, and with one crash at most the process that was
  launched lives until it is dialled (`LaunchedLives`). `Quiet` is the case without
  a fault. The second crash is a finding (`Kbdlock_SecondCrash`), so the premise
  of the property cannot be dropped.
* `RestartExcludesCommands`. While a restart is between closing the old client and
  handing the new one to the controller, `c.client` is not the connection that is
  live (`RestartIsolates`), and a command that is in a Send is so with `c.client`
  (`CommandsUseClient`), so no answer can reach it.

`SentinelProofs` proves the type invariant and, for every set of keys, every set of
combos of any length and every timeout, `HeartbeatBound` (with the types it needs),
`BitmapSound` (with `RepeatsHeld`: the key that repeats is held) and `UnlockIntended`.
Of two combos that are written over one another no more can be said than this: each
key that counts is, in its place, a key of a combo that the hook has met, and there are
as many as one of these has (not always the same one, see above).
If no SET_COMBO meets the look, it is the combo in force. The invariant is
`ComboWritten` (the count and the keys are those of the combo in force, but for the
keys that SET_COMBO has written so far) and `Looking` (what the hook has found
pressed, and what it may yet read, is, place by place, of the combos in `met`), and
`NoEmergency`: no key has the code "SHIFT", so the emergency combo never explains
an unlock.
It proves also `ImplementsLease`, step by step. The step that matters is a new
period: `HeartbeatBound`'s invariant says that a locked keyboard has a stamp within
the timeout once the main loop has dealt with the last timer message, so that what
is left is above zero; LOCK's second store then changes nothing of the lease, because
its first has counted already.

`ConfigProofs` proves all three properties of `ConfigStore`, for any processes and
settings, from `Shape` (where a process is says what it has in hand; a file that is
being read is not replaced), `Basis` (who has not been overtaken saves what
`config.json` is, but for one change) and `TempOwned` (a Save that meets no other has
the temporary file for itself).

`ExtractProofs` proves all three properties of `Extract`, for any number of builds,
from `Progress` (what each step has made sure of), `HashTrue` (without an
interruption the hash file tells the truth), `HashBehind` (without a downgrade it
is at most behind) and `ImageKept` (the running program's file is moved aside in
time).

All theorems are about the specifications that TLC checks and rest on the
assumptions on the constants alone; steps that change nothing are covered. Only
model-checked are the liveness properties (CallsReturn, PhantomLockHeals,
WatchdogRevives, StaleAnswersDrain, IdleTimeoutUnlocks, FailOpen, EscHoldUnlocks,
StopEnds, CliStopEnds), which need fairness and ENABLED and are out of the prover's
reach. `NoWaitCycle` is the part of `CallsReturn` that is a matter of safety.

`LifecycleProofs` proves the type invariant, `OneController`, `KillHitsStopped` and
`FailedStartEnds`, and `StopEndsOwnSentinel`, for any number of processes and faults.
The invariant:

1. `MutexInv`: whoever is past AcquireController has a handle (`Held`), so the
   next one finds the mutex; the listener is between Listen and its end
   (`Serving`); clients and watchdogs belong to a holder (`Linked`).
2. `CliInv`: the PID that `kbdlock stop` goes on with is that of a process that
   listened (`TargetKnown`). When STOP goes to another one, both had the mutex,
   so the first has exited: `KillHitsStopped` rests on `OneController`.
3. `FileInv`: "failed" is written only on the way out (`FileTold`).
4. `OwnInv`: without a kill from outside and without a ping that times out
   (`faults = 0`) the watchdog never leaves its rest but to see the cancelled
   context, and a client that is in use is the one that the sentinel serves. So
   nothing replaces `m.cmd` between the copy that Manager.Stop makes and the Kill
   after its wait, and what is killed is what was launched. The premise is needed:
   with a fault, `m.cmd` may stand for a process that has exited at once
   (`Lifecycle_StopSentinel`).

## What is not modelled

* What the running goroutines do during a shutdown: `Kbdlock` ends where
  `Lifecycle` begins to stop. PIDs that Windows gives out anew; a window closed
  by somebody else than tray.Quit; a `kbdlock` command that is interrupted.
* Files: that Go opens a file so that Windows neither removes it nor renames over it
  meanwhile, that a rename is one step, and that a running program's file can be
  renamed but not removed, is taken from the systems, not from this code. There is
  no loss of power. The texts of the settings, their parsing and the codes of their
  keys are the value "refused" or none.
* The mouse corner's counter, the hotkey's window, the five retries of Connect:
  sequential code between one decision and the next; they are single steps. What
  the mouse corner does to the rest is an UNLOCK of one of `Callers`.
* The wait of the pipe thread for a client (`ConnectNamedPipe`): whether its event is
  signalled when the client was there first is decided by Windows, for a handle that
  was opened without the flag that an OVERLAPPED calls for. The model's pipe always
  accepts the next client. `StopPipeServer`, which only ends this wait and the
  thread: it runs when the sentinel's process ends, which closes the pipe as well.
* `esc_hold` and `mouse_corner` switched off: the sentinel has no command for the first,
  so the hold of ESC is always on (`README.md:115` says otherwise), and the mouse corner
  is one of `Callers`, who need not call.
* The time that a connection of the control pipe has left when a command is slow:
  the command runs to its end either way, only its answer is lost.
* Logger, notifications, console, packaging, vendored code: nothing of the
  program's state depends on them.

## The plan

Done: the running program (`Ipc`, `PipeServer`, `Manager`, `Controller`,
`Kbdlock`) and what it implements (`LockService`), the inside of the sentinel
(`Sentinel`) and what that implements (`Lease`), start-up and shutdown (`Lifecycle`), the configuration (`ConfigStore`),
the extraction (`Extract`), and the proofs of all their safety properties.

What could follow:

1. The pipe thread's wait for a client, as a refinement of `Dial`, once it is known
   what Windows does.
2. `MouseCorner`, as a refinement of `Callers`.
3. The end of `Kbdlock`: the running goroutines during the shutdown of `Lifecycle`.
4. `Sentinel` as an implementation of `PipeServer`'s view of it: `Lease` has its lock
   and its heartbeat, the combo and the keys are missing.
5. `OwnInv` with faults: which sentinel a Stop ends when the handle has been replaced.
6. The lock that the timer undoes because it looked before LOCK's stamp, as a property
   of `Sentinel` (`PhantomLockHeals` covers only what the controller does about it).
