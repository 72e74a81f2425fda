---------------------------- MODULE Lifecycle ----------------------------
(***************************************************************************)
(* Start-up and shutdown of kbdlock processes: `kbdlock start` and its      *)
(* status file, the named mutex of the controllers, the sentinel that one   *)
(* controller launches and another may inherit, `kbdlock stop` with its     *)
(* kill, and Manager.Stop against the restart in flight (main.go,           *)
(* internal/launch, internal/instance, internal/control, manager.go).       *)
(***************************************************************************)
EXTENDS Naturals

CONSTANTS
  Trays,      \* tray processes that may be started, one after another or at once
  MaxFaults   \* bound: pings that time out, processes killed from outside

ASSUME TraysAssumption  == "cli" \notin Trays /\ "none" \notin Trays
ASSUME FaultsAssumption == MaxFaults \in Nat

VARIABLES
  pc,        \* where runTrayApp is, by tray process
  stop,      \* how far the shutdown of a tray process has got
  taken,     \* the cmd and the client that Manager.Stop has copied
  dog,       \* the watchdog goroutine of a tray process
  client,    \* m.client is not nil
  cmd,       \* the process that m.cmd stands for is the sentinel that runs
  handles,   \* the processes with a handle on the controllers' named mutex
  control,   \* the tray process that listens on the control pipe
  sent,      \* a sentinel runs
  conn,      \* the tray process that the sentinel's only pipe instance serves
  launcher,  \* `kbdlock start`, by the tray process that it has started
  file,      \* its status file
  cli,       \* where another kbdlock command is that uses the control pipe
  target,    \* the process whose PID `kbdlock stop` was told
  faults

trayVars     == <<pc, stop, taken, dog, client, cmd>>
sentinelVars == <<sent, conn>>
startVars    == <<launcher, file>>
cliVars      == <<cli, target>>
vars == <<trayVars, handles, control, sentinelVars, startVars, cliVars, faults>>

\* The mutex is held, and what runs under it.
Guarded == {"start", "connect", "listen", "serve", "run", "failing"}
PCs     == Guarded \cup {"off", "acquire", "loser", "exit"}
\* Before QUIT, the shutdown waits for nothing and has ended nothing.
Stops   == {"no", "asked", "closed", "quit", "wait", "done", "posted", "lost"}
Dogs    == {"off", "rest", "sleep", "start", "dial"}
Reports == {"started", "already_running", "failed"}
Nothing == [cmd |-> FALSE, client |-> FALSE]

Init ==
  /\ pc = [t \in Trays |-> "off"]
  /\ stop = [t \in Trays |-> "no"]
  /\ taken = [t \in Trays |-> Nothing]
  /\ dog = [t \in Trays |-> "off"]
  /\ client = [t \in Trays |-> FALSE]
  /\ cmd = [t \in Trays |-> FALSE]
  /\ handles = {} /\ control = "none"
  /\ sent = FALSE /\ conn = "none"
  /\ launcher = [t \in Trays |-> "none"]
  /\ file = [t \in Trays |-> "absent"]
  /\ cli = "idle" /\ target = "none"
  /\ faults = 0

-----------------------------------------------------------------------------
(* What several handlers do. *)

Fault == faults < MaxFaults /\ faults' = faults + 1

GoTo(t, step) == pc' = [pc EXCEPT ![t] = step]

\* A mistake of Report: a failure is written without the prefix that marks it.
ReportUnprefixed(t, status) ==
  /\ file' = [file EXCEPT ![t] = CASE launcher[t] = "none" -> @
                                  [] status = "failed"     -> "message"
                                  [] OTHER                 -> status]
  /\ UNCHANGED launcher

\* Reporter.report writes the file, and creates it anew if it is gone.
Report(t, status) ==
  /\ file' = [file EXCEPT ![t] = IF launcher[t] = "none" THEN @ ELSE status]
  /\ UNCHANGED launcher

\* The process is gone with its memory, and Windows closes what it had open.
Gone(t) ==
  /\ pc' = [pc EXCEPT ![t] = "exit"]
  /\ stop' = [stop EXCEPT ![t] = "no"]
  /\ dog' = [dog EXCEPT ![t] = "off"]
  /\ taken' = [taken EXCEPT ![t] = Nothing]
  /\ client' = [client EXCEPT ![t] = FALSE]
  /\ cmd' = [cmd EXCEPT ![t] = FALSE]
  /\ handles' = handles \ {t}
  /\ control' = IF control = t THEN "none" ELSE control
  /\ conn' = IF conn = t THEN "none" ELSE conn
  /\ UNCHANGED sent

\* The sentinel is gone: its process is nobody's any more.
SentinelEnds ==
  /\ sent' = FALSE /\ conn' = "none"
  /\ cmd' = [t \in Trays |-> FALSE]
  /\ taken' = [t \in Trays |-> [cmd |-> FALSE, client |-> taken[t].client]]

\* Manager.Start.  A sentinel that finds another one exits at once.
Launch(t) ==
  /\ cmd' = [cmd EXCEPT ![t] = ~sent]
  /\ sent' = TRUE
  /\ UNCHANGED conn

\* Manager.Connect, with its five dials, which may all fail.
Dial(t) ==
  /\ sent /\ conn = "none"
  /\ conn' = t
  /\ client' = [client EXCEPT ![t] = TRUE]
  /\ UNCHANGED sent

-----------------------------------------------------------------------------
(* kbdlock start, and runTrayApp. *)

\* A tray process begins: launched by StartDetached, which gives it a new status
\* file, or without a terminal, when it has none.
StartDetached(t) ==
  /\ pc[t] = "off"
  /\ GoTo(t, "acquire")
  /\ launcher' = [launcher EXCEPT ![t] = "waiting"]
  /\ file' = [file EXCEPT ![t] = "empty"]
  /\ UNCHANGED <<stop, taken, dog, client, cmd, handles, control, sentinelVars, cliVars, faults>>

RunTrayApp(t) ==
  /\ pc[t] = "off"
  /\ GoTo(t, "acquire")
  /\ UNCHANGED <<stop, taken, dog, client, cmd, handles, control, sentinelVars,
                 startVars, cliVars, faults>>

\* StartDetached reads a status or gives up, and removes the file.
Hears(t) ==
  /\ launcher[t] = "waiting"
  /\ launcher' = [launcher EXCEPT ![t] =
                    CASE file[t] = "empty"  -> "late"
                      [] file[t] = "failed" -> "failed"
                      [] OTHER              -> "ok"]
  /\ file' = [file EXCEPT ![t] = "absent"]
  /\ UNCHANGED <<trayVars, handles, control, sentinelVars, cliVars, faults>>

\* A mistake of AcquireController: whoever gets a handle goes on.
AcquireAlways(t) ==
  /\ pc[t] = "acquire"
  /\ handles' = handles \cup {t}
  /\ GoTo(t, "start")
  /\ UNCHANGED <<stop, taken, dog, client, cmd, control, sentinelVars, startVars, cliVars, faults>>

\* CreateMutex gives a handle in any case, and says whether there was one before.
AcquireController(t) ==
  /\ pc[t] = "acquire"
  /\ handles' = handles \cup {t}
  /\ GoTo(t, IF handles = {} THEN "start" ELSE "loser")
  /\ UNCHANGED <<stop, taken, dog, client, cmd, control, sentinelVars, startVars, cliVars, faults>>

AlreadyRunning(t) ==
  /\ pc[t] = "loser"
  /\ Report(t, "already_running")
  /\ Gone(t)
  /\ UNCHANGED <<cliVars, faults>>

\* Logger, configuration, combo, extraction or the start of the process fails.
StartFails(t) ==
  /\ pc[t] = "start"
  /\ Report(t, "failed")
  /\ Gone(t)
  /\ UNCHANGED <<cliVars, faults>>

StartSentinel(t) ==
  /\ pc[t] = "start"
  /\ Launch(t)
  /\ GoTo(t, "connect")
  /\ UNCHANGED <<stop, taken, dog, client, handles, control, startVars, cliVars, faults>>

\* The client is there, and so is the watchdog from now on.
Connected(t) ==
  /\ pc[t] = "connect"
  /\ Dial(t)
  /\ dog' = [dog EXCEPT ![t] = "rest"]
  /\ GoTo(t, "listen")
  /\ UNCHANGED <<stop, taken, cmd, handles, control, startVars, cliVars, faults>>

\* What is left to do is Manager.Stop.
GiveUp(t) ==
  /\ Report(t, "failed")
  /\ GoTo(t, "failing")
  /\ stop' = [stop EXCEPT ![t] = "closed"]

ConnectFails(t) ==
  /\ pc[t] = "connect"
  /\ GiveUp(t)
  /\ UNCHANGED <<taken, dog, client, cmd, handles, control, sentinelVars, cliVars, faults>>

\* control.Listen takes the first instance of the pipe's name, or fails.
Listen(t) ==
  /\ pc[t] = "listen" /\ control = "none"
  /\ control' = t
  /\ GoTo(t, "serve")
  /\ UNCHANGED <<stop, taken, dog, client, cmd, handles, sentinelVars, startVars, cliVars, faults>>

\* A mistake of ListenFails: the failure is reported, but not acted on.
ListenFailsGoesOn(t) ==
  /\ pc[t] = "listen"
  /\ Report(t, "failed")
  /\ GoTo(t, "serve")
  /\ UNCHANGED <<stop, taken, dog, client, cmd, handles, control, sentinelVars, cliVars, faults>>

ListenFails(t) ==
  /\ pc[t] = "listen"
  /\ GiveUp(t)
  /\ UNCHANGED <<taken, dog, client, cmd, handles, control, sentinelVars, cliVars, faults>>

\* tray.Run has its window; onReady reports.
OnReady(t) ==
  /\ pc[t] = "serve"
  /\ Report(t, "started")
  /\ GoTo(t, "run")
  /\ UNCHANGED <<stop, taken, dog, client, cmd, handles, control, sentinelVars, cliVars, faults>>

\* tray.Run returns after tray.Quit, or Manager.Stop after a failure.
Exit(t) ==
  /\ \/ pc[t] \in {"serve", "run"} /\ stop[t] = "posted"
     \/ pc[t] = "failing" /\ stop[t] = "done"
  /\ Gone(t)
  /\ UNCHANGED <<startVars, cliVars, faults>>

\* The process is killed, by the task manager or the console.
Killed(t) ==
  /\ pc[t] \in Guarded /\ Fault
  /\ Gone(t)
  /\ UNCHANGED <<startVars, cliVars>>

-----------------------------------------------------------------------------
(* The watchdog, as far as it starts processes and replaces the client. *)

Watching(t) == pc[t] \in Guarded

\* The context that Manager.Stop cancels, first of all.
Cancelled(t) == stop[t] \in {"quit", "wait", "done", "posted", "lost"}

Watch(t, step) == dog' = [dog EXCEPT ![t] = step]

DogEnds(t) ==
  /\ dog[t] \in {"rest", "sleep"} /\ Cancelled(t)
  /\ Watch(t, "off")
  /\ UNCHANGED <<pc, stop, taken, client, cmd, handles, control, sentinelVars,
                 startVars, cliVars, faults>>

\* A ping fails, because the sentinel is gone or does not answer: restart closes
\* the client, which the shutdown may have copied.
DogCloses(t) ==
  /\ dog[t] = "rest" /\ client[t]
  /\ IF conn = t THEN Fault ELSE UNCHANGED faults
  /\ Watch(t, "sleep")
  /\ client' = [client EXCEPT ![t] = FALSE]
  /\ taken' = [taken EXCEPT ![t] = [cmd |-> taken[t].cmd, client |-> FALSE]]
  /\ conn' = IF conn = t THEN "none" ELSE conn
  /\ UNCHANGED <<pc, stop, cmd, handles, control, sent, startVars, cliVars>>

\* ctx.Err() is nil after the delay, and is not looked at again.
DogGoesOn(t) ==
  /\ dog[t] = "sleep" /\ ~Cancelled(t)
  /\ Watch(t, "start")
  /\ UNCHANGED <<pc, stop, taken, client, cmd, handles, control, sentinelVars,
                 startVars, cliVars, faults>>

DogStarts(t) ==
  /\ dog[t] = "start"
  /\ Launch(t)
  /\ Watch(t, "dial")
  /\ UNCHANGED <<pc, stop, taken, client, handles, control, startVars, cliVars, faults>>

\* The extraction fails, or the process does, when m.cmd is already set.
DogStartFails(t) ==
  /\ dog[t] = "start"
  /\ cmd' \in {cmd, [cmd EXCEPT ![t] = FALSE]}
  /\ Watch(t, "rest")
  /\ UNCHANGED <<pc, stop, taken, client, handles, control, sentinelVars, startVars,
                 cliVars, faults>>

DogDials(t) ==
  /\ dog[t] = "dial"
  /\ Dial(t) \/ UNCHANGED <<client, sentinelVars>>
  /\ Watch(t, "rest")
  /\ UNCHANGED <<pc, stop, taken, cmd, handles, control, startVars, cliVars, faults>>

\* The sentinel is killed or fails.
SentinelDies ==
  /\ sent /\ Fault
  /\ SentinelEnds
  /\ UNCHANGED <<pc, stop, dog, client, handles, control, startVars, cliVars>>

-----------------------------------------------------------------------------
(* shutdown, which runs once whoever asks for it. *)

Proceed(t, step) == stop' = [stop EXCEPT ![t] = step]

\* STOP, Quit in the tray menu, or Ctrl-C.
AskStop(t) ==
  Proceed(t, IF stop[t] = "no" THEN "asked" ELSE stop[t])

Quit(t) ==
  /\ pc[t] \in {"serve", "run"} /\ stop[t] = "no"
  /\ AskStop(t)
  /\ UNCHANGED <<pc, taken, dog, client, cmd, handles, control, sentinelVars,
                 startVars, cliVars, faults>>

\* controlSrv.Close; Controller.Stop cancels what touches nothing here.
CloseControl(t) ==
  /\ Watching(t) /\ stop[t] = "asked"
  /\ control' = IF control = t THEN "none" ELSE control
  /\ Proceed(t, "closed")
  /\ UNCHANGED <<pc, taken, dog, client, cmd, handles, sentinelVars, startVars, cliVars, faults>>

\* Manager.Stop copies, then cancels the watchdog's context.
StopCopies(t) ==
  /\ Watching(t) /\ stop[t] = "closed"
  /\ taken' = [taken EXCEPT ![t] = [cmd |-> cmd[t], client |-> client[t]]]
  /\ Proceed(t, "quit")
  /\ UNCHANGED <<pc, dog, client, cmd, handles, control, sentinelVars, startVars, cliVars, faults>>

\* QUIT and Close.  The sentinel drops the connection and goes on: its WM_QUIT
\* reaches the thread of the pipe, not the message loop.
StopQuits(t) ==
  /\ Watching(t) /\ stop[t] = "quit"
  /\ conn' = IF taken[t].client /\ conn = t THEN "none" ELSE conn
  /\ Proceed(t, "wait")
  /\ UNCHANGED <<pc, taken, dog, client, cmd, handles, control, sent, startVars,
                 cliVars, faults>>

\* A mistake of StopWaits: there is no time limit, and no kill.
StopWaitsForExit(t) ==
  /\ Watching(t) /\ stop[t] = "wait"
  /\ ~taken[t].cmd
  /\ Proceed(t, "done")
  /\ UNCHANGED <<pc, taken, dog, client, cmd, handles, control, sentinelVars,
                 startVars, cliVars, faults>>

\* Another one: the time limit is there, the kill is not.
StopWaitsOnly(t) ==
  /\ Watching(t) /\ stop[t] = "wait"
  /\ Proceed(t, "done")
  /\ UNCHANGED <<pc, taken, dog, client, cmd, handles, control, sentinelVars,
                 startVars, cliVars, faults>>

\* The copied process has exited, or is killed after three seconds.
StopWaits(t) ==
  /\ Watching(t) /\ stop[t] = "wait"
  /\ IF taken[t].cmd THEN SentinelEnds ELSE UNCHANGED <<sentinelVars, cmd, taken>>
  /\ Proceed(t, "done")
  /\ UNCHANGED <<pc, dog, client, handles, control, startVars, cliVars, faults>>

\* tray.Quit closes the window, which is there some time before onReady runs.
\* Without one it does nothing, nor does it later: systray's Quit works once.
QuitTray(t) ==
  /\ pc[t] \in {"serve", "run"} /\ stop[t] = "done"
  /\ \/ Proceed(t, "posted")
     \/ pc[t] = "serve" /\ Proceed(t, "lost")
  /\ UNCHANGED <<pc, taken, dog, client, cmd, handles, control, sentinelVars,
                 startVars, cliVars, faults>>

\* Before tray.Run has registered its callbacks, systray's Quit calls the one for
\* the exit, which is nil: the process dies of it.
QuitPanics(t) ==
  /\ pc[t] = "serve" /\ stop[t] = "done"
  /\ Gone(t)
  /\ UNCHANGED <<startVars, cliVars, faults>>

-----------------------------------------------------------------------------
(* kbdlock stop, and what kbdlock lock and unlock do if nobody listens. *)

\* The first connection asks for the PID.
CliPID ==
  /\ cli = "idle" /\ control # "none"
  /\ target' = control
  /\ cli' = "stop"
  /\ UNCHANGED <<trayVars, handles, control, sentinelVars, startVars, faults>>

\* A mistake of CliStop: STOP is answered, and nothing done about it.
CliStopUnheard ==
  /\ cli = "stop" /\ control # "none"
  /\ cli' = "wait"
  /\ UNCHANGED <<trayVars, handles, control, sentinelVars, startVars, target, faults>>

\* The second one stops whoever listens now.
CliStop ==
  /\ cli = "stop" /\ control # "none"
  /\ AskStop(control)
  /\ cli' = "wait"
  /\ UNCHANGED <<pc, taken, dog, client, cmd, handles, control, sentinelVars, startVars,
                 target, faults>>

\* A connection fails: IsControllerRunning tries to create the mutex ...
CliProbe ==
  /\ cli \in {"idle", "stop"} /\ control = "none"
  /\ handles' = handles \cup {"cli"}
  /\ cli' = "probe" /\ target' = "none"
  /\ UNCHANGED <<trayVars, control, sentinelVars, startVars, faults>>

\* ... and closes its handle, whatever it found.
CliProbed ==
  /\ cli = "probe"
  /\ handles' = handles \ {"cli"}
  /\ cli' = "idle"
  /\ UNCHANGED <<trayVars, control, sentinelVars, startVars, target, faults>>

Return == cli' = "idle" /\ target' = "none"

\* WaitForExitOrKill: the process of that PID has exited, or is killed after
\* three seconds.
CliWaited ==
  /\ cli = "wait" /\ pc[target] = "exit"
  /\ Return
  /\ UNCHANGED <<trayVars, handles, control, sentinelVars, startVars, faults>>

\* A mistake of CliKill: the command returns without the kill.
CliGivesUp ==
  /\ cli = "wait" /\ pc[target] # "exit"
  /\ Return
  /\ UNCHANGED <<trayVars, handles, control, sentinelVars, startVars, faults>>

CliKill ==
  /\ cli = "wait" /\ pc[target] # "exit"
  /\ Return
  /\ Gone(target)
  /\ UNCHANGED <<startVars, faults>>

-----------------------------------------------------------------------------

Begin(t) == StartDetached(t) \/ RunTrayApp(t)

MainStep(t) ==
  \/ AcquireController(t) \/ AlreadyRunning(t)
  \/ StartFails(t) \/ StartSentinel(t)
  \/ Connected(t) \/ ConnectFails(t)
  \/ Listen(t) \/ ListenFails(t)
  \/ OnReady(t) \/ Exit(t)

StopStep(t) ==
  \/ CloseControl(t) \/ StopCopies(t) \/ StopQuits(t) \/ StopWaits(t) \/ QuitTray(t)

Dies(t) == Killed(t) \/ QuitPanics(t)

DogStep(t) ==
  \/ DogEnds(t) \/ DogCloses(t) \/ DogGoesOn(t) \/ DogStarts(t) \/ DogStartFails(t)
  \/ DogDials(t)

CliAsks  == CliPID \/ CliStop \/ CliProbe \/ CliProbed
CliWaits == CliWaited \/ CliKill

Next ==
  \/ \E t \in Trays : \/ Begin(t) \/ MainStep(t) \/ StopStep(t) \/ DogStep(t)
                      \/ Hears(t) \/ Quit(t) \/ Dies(t)
  \/ SentinelDies
  \/ CliAsks \/ CliWaits

\* The main goroutine and the one that shuts down keep running, and the waits of
\* the shutdown and of `kbdlock stop` have time limits.  (That shutdown gets the
\* mutexes it needs on the way is Kbdlock's CallsReturn.)
Fairness ==
  /\ \A t \in Trays : WF_vars(MainStep(t)) /\ WF_vars(StopStep(t))
  /\ WF_vars(CliWaits)

Spec     == Init /\ [][Next]_vars
FairSpec == Spec /\ Fairness

-----------------------------------------------------------------------------
(* What must hold of processes that come and go. *)

TypeOK ==
  /\ pc \in [Trays -> PCs] /\ stop \in [Trays -> Stops] /\ dog \in [Trays -> Dogs]
  /\ taken \in [Trays -> [cmd : BOOLEAN, client : BOOLEAN]]
  /\ client \in [Trays -> BOOLEAN] /\ cmd \in [Trays -> BOOLEAN]
  /\ handles \subseteq Trays \cup {"cli"}
  /\ control \in Trays \cup {"none"} /\ conn \in Trays \cup {"none"}
  /\ sent \in BOOLEAN
  /\ launcher \in [Trays -> {"none", "waiting", "late", "failed", "ok"}]
  /\ file \in [Trays -> Reports \cup {"absent", "empty"}]
  /\ cli \in {"idle", "stop", "wait", "probe"} /\ target \in Trays \cup {"none"}
  /\ faults \in 0..MaxFaults

\* There is one controller at a time, however starts, exits, kills and the probes
\* of other commands interleave: one tray process at most is past
\* AcquireController, and only that one listens on the control pipe or is
\* connected to the sentinel.
OneController ==
  /\ \A t, u \in Trays : pc[t] \in Guarded /\ pc[u] \in Guarded => t = u
  /\ \A t \in Trays : control = t \/ conn = t => pc[t] \in Guarded

\* `kbdlock stop`, which learns the PID from one connection and says STOP on
\* another, kills no process that was not told to stop, although the controller
\* may have been replaced in between.
KillHitsStopped ==
  cli = "wait" /\ pc[target] # "exit" => stop[target] # "no"

\* A start reported as failed has left nothing that goes on to run.
FailedStartEnds ==
  \A t \in Trays :
    launcher[t] = "failed" => pc[t] \in {"failing", "exit"} /\ control # t

\* A shutdown of a controller with a tray comes to its end: the process exits.
StopEnds ==
  \A t \in Trays :
    pc[t] = "run" /\ stop[t] \notin {"no", "lost"} ~> pc[t] = "exit"

\* And `kbdlock stop` comes back with the process gone, even one whose tray.Quit
\* was lost.
CliStopEnds ==
  \A t \in Trays : cli = "wait" /\ target = t ~> pc[t] = "exit"

\* Once Manager.Stop has returned and the tray is told to quit, the sentinel is
\* shut down (manager.go: "Stop shuts down the sentinel gracefully").
StopEndsSentinel ==
  \A t \in Trays : stop[t] = "posted" => ~sent

\* As long as no ping times out and nothing is killed from outside, the copy that
\* Manager.Stop makes of m.cmd does not get old: when Stop has returned, the
\* sentinel that this process has launched is gone, although QUIT does not end it
\* and the watchdog goes on until it sees the cancelled context.
StopEndsOwnSentinel ==
  faults = 0 =>
    \A t \in Trays : stop[t] \in {"done", "posted", "lost"} => ~cmd[t]
=============================================================================
