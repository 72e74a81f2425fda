----------------------------- MODULE Kbdlock -----------------------------
(***************************************************************************)
(* The running program: the controller, the manager's watchdog and the     *)
(* sentinel, wired together as runTrayApp does (main.go), from the moment  *)
(* the tray is about to run until the program is asked to stop.            *)
(***************************************************************************)
EXTENDS Controller

CONSTANTS
  Orphan,   \* start-up may connect to a sentinel an earlier controller left
  TrayUp    \* the tray menu exists before the first command arrives

ASSUME OrphanAssumption == Orphan \in BOOLEAN
ASSUME TrayUpAssumption == TrayUp \in BOOLEAN

vars == <<ipcVars, serverVars, managerVars, controllerVars>>

\* mgr.Start and mgr.Connect have succeeded, and so has SetCombo unless it has
\* timed out, which is only logged.  A sentinel that was still running keeps the
\* lock it had, and the combo.
Init ==
  /\ IpcInit /\ ManagerInit /\ ControllerInit
  /\ alive = TRUE /\ crashes = 0
  /\ combo \in (IF timeouts = 0 THEN {TRUE} ELSE {FALSE, Orphan})
  /\ kbd \in (IF Orphan THEN BOOLEAN ELSE {FALSE})
  /\ ready = TrayUp

-----------------------------------------------------------------------------

\* The steps of the goroutines that enter LockCommand, UnlockCommand and
\* syncUnlock.
Arrive ==
  /\ \/ Click \/ HandleHotkey
     \/ \E g \in Callers, o \in {"LOCK", "UNLOCK"} : Command(g, o)
  /\ UNCHANGED <<ipcVars, serverVars, managerVars>>

TimerFires == IdleFires /\ UNCHANGED <<ipcVars, serverVars, managerVars>>

GetIn(g)   == (NoOp(g) \/ Enter(g)) /\ UNCHANGED <<ipcVars, serverVars, managerVars>>
Ask(g)     == Request(g) /\ UNCHANGED <<serverVars, managerVars>>
Hear(g)    == Reply(g) /\ UNCHANGED <<serverVars, managerVars>>
Record(g)  == Commit(g) /\ UNCHANGED <<ipcVars, serverVars, managerVars>>
Tell(g)    == Desire(g) /\ UNCHANGED <<ipcVars, serverVars>>
Release(g) == Finish(g) /\ UNCHANGED <<ipcVars, serverVars, managerVars>>

AgentStep(g) ==
  GetIn(g) \/ Ask(g) \/ Hear(g) \/ Record(g) \/ Tell(g) \/ Release(g)

\* The poller's own steps.
StartPoll == Poll /\ UNCHANGED <<ipcVars, serverVars, managerVars>>
AskStatus == Query /\ UNCHANGED <<serverVars, managerVars>>
HearStatus == Status /\ UNCHANGED <<serverVars, managerVars>>

SyncStep == StartPoll \/ AskStatus \/ HearStatus \/ AgentStep("sync")

\* The watchdog's steps.  DogAdopt is the controller's half of onRestart; a
\* mistake of it forgets the unlock combo of the new sentinel.
DogAdoptNoCombo ==
  /\ dog = "adopt"
  /\ SetClient(mClient)
  /\ GoTo("rest")
  /\ UNCHANGED <<mClient, ipcVars, serverVars>>

DogAdopt ==
  /\ dog = "adopt"
  /\ SetClient(mClient)
  /\ GoTo("combo")
  /\ UNCHANGED <<mClient, ipcVars, serverVars>>

DogWorks ==
  /\ \/ DogPing \/ DogPong \/ DogClose \/ DogLaunch \/ DogLaunchFails
     \/ DogDial \/ DogDialFails \/ DogRestore \/ DogRelock \/ DogRelocked
     \/ DogCombo \/ DogConfirm
  /\ UNCHANGED controllerVars

Tick == DogTick /\ UNCHANGED controllerVars

DogStep == Tick \/ DogWorks \/ DogAdopt

\* The sentinel's steps, and what befalls it.
SentinelWorks ==
  /\ Serve \/ SeesHangup
  /\ UNCHANGED <<managerVars, controllerVars>>

SentinelFate ==
  /\ SelfUnlock \/ Crash
  /\ UNCHANGED <<managerVars, controllerVars>>

TrayReady == OnReady /\ UNCHANGED <<ipcVars, serverVars, managerVars>>

Next ==
  \/ Arrive \/ TimerFires
  \/ \E g \in Users : AgentStep(g)
  \/ SyncStep
  \/ DogStep
  \/ SentinelWorks \/ SentinelFate
  \/ TrayReady

\* Every goroutine keeps running, and so do the tickers, the started timer and
\* the sentinel's thread.  Fairness of a goroutine is strong because sync.Mutex
\* hands itself to whoever has waited for a millisecond: a step that needs a
\* contended mutex is not passed over for ever.  Nobody has to press a key or
\* to send a command, and nothing has to fail.
Fairness ==
  /\ \A g \in Users : SF_vars(AgentStep(g))
  /\ SF_vars(SyncStep)
  /\ SF_vars(DogStep)
  /\ WF_vars(SentinelWorks)
  /\ WF_vars(TimerFires)

Spec     == Init /\ [][Next]_vars
FairSpec == Spec /\ Fairness

-----------------------------------------------------------------------------
(* What must hold of the running program. *)

\* Every variable has its type.
TypeOK == IpcTypeOK /\ ServerTypeOK /\ ManagerTypeOK /\ ControllerTypeOK

\* Whenever c.mu is free, the two records of the lock state (c.locked and the
\* manager's m.locked, under different mutexes) agree, and the idle timer is set
\* exactly while the keyboard is recorded as locked: no early return or failed
\* call leaves the timer behind or the restart with a stale wish.
StateAgrees ==
  mu = "none" => desired = locked /\ (locked <=> timer # "off")

\* Whenever c.mu is free, an existing tray menu offers Unlock exactly while the
\* keyboard is recorded as locked, whether a command or syncUnlock changed the
\* record.  One thing excuses it: the last SetState came before onReady had built
\* the menu (the hotkey and the control pipe are served before tray.Run).  Then the
\* menu offers Lock for a locked keyboard, never Unlock for an unlocked one.
TrayShowsLock ==
  ready /\ mu = "none" => (shown <=> locked) \/ (missed /\ locked)

\* The controller uses the client the watchdog pings, except while a restart is
\* between its Connect and SetClient: no step leaves the controller for good
\* with a closed client.
ClientIsCurrent ==
  mClient # 0 /\ dog \notin {"restore", "relock", "relocked", "adopt"}
    => client = mClient

Waiting == {g \in Goroutines : using[g] # 0 /\ using[g] = live}

\* The request a waiting goroutine has sent, and the answers that fit it.
Asked(g) ==
  CASE g \in Users -> op[g]
    [] g = "sync"  -> "STATUS"
    [] g = "dog"   -> (CASE dog = "pong"     -> "PING"
                         [] dog = "relocked" -> "LOCK"
                         [] OTHER            -> "SET_COMBO")

Fits(cmd) ==
  CASE cmd = "STATUS" -> {"LOCKED", "UNLOCKED"}
    [] cmd = "PING"   -> {"PONG"}
    [] OTHER          -> {"OK"}

\* As long as no Send has timed out, four goroutines that share one pipe never
\* read each other's answer: the pipe holds the waiting goroutine's request or an
\* answer to it, and nothing else.
RepliesMatchRequests ==
  timeouts = 0 =>
    \A g \in Waiting :
      \/ req = <<Asked(g)>> /\ resp = <<>>
      \/ req = <<>> /\ \E r \in Fits(Asked(g)) : resp = <<r>>

\* Each timeout leaves at most one answer too many in the pipe, and a goroutine
\* that waits always has one coming, so no Send waits for nothing.
AnswersOwed ==
  LET owed == Len(req) + Len(resp)
      w    == IF Waiting = {} THEN 0 ELSE 1
  IN  w <= owed /\ owed <= w + timeouts

\* Every command, every poll and every restart comes to an end: the three
\* mutexes (c.mu, m.mu, the client's) never block one another for ever, although
\* restart holds m.mu while it waits for the client's and the commands hold c.mu
\* while they wait for both.
CallsReturn ==
  /\ \A g \in Agents : pc[g] # "rest" ~> pc[g] = "rest"
  /\ dog # "rest" ~> dog = "rest"

\* The pipe holds more than the waiting goroutine is owed.
OutOfStep == Len(req) + Len(resp) > (IF Waiting = {} THEN 0 ELSE 1)

\* Answers out of step with their requests do not stay so: a PING that reads
\* the wrong one replaces the connection (manager.go watchdog).
StaleAnswersDrain == OutOfStep ~> ~OutOfStep

\* A lock recorded by the controller but gone from the keyboard (the hook or the
\* heartbeat cleared it, or the sentinel died) is noticed by the poller or put
\* back by the watchdog.
PhantomLockHeals == (locked /\ ~kbd) ~> (~locked \/ kbd)

\* The watchdog replaces a sentinel that has died.
WatchdogRevives == ~alive ~> alive

\* An idle timer that has fired ends its lock, unless a call of the sentinel has
\* failed: the callback asks once and nothing starts the timer again.
IdleTimeoutUnlocks ==
  timer = "fired" ~> (timer # "fired" \/ timeouts > 0 \/ crashes > 0)

\* syncUnlock records an unlock only when the sentinel has unlocked itself.
SyncUnlockSound ==
  [][pc["sync"] = "commit" /\ pc'["sync"] # "commit" => ~kbd]_vars

\* An UnlockCommand that returns nil without asking the sentinel leaves no
\* locked keyboard behind.
UnlockDisengages ==
  [][\A g \in Users :
       op[g] = "UNLOCK" /\ pc[g] = "enter" /\ pc'[g] = "rest" => ~kbd]_vars

\* A lock that a restart has restored has its configured unlock combo once the
\* restart is over, as long as no Send has timed out (restart locks first and
\* sets the combo last, and a failure of either is only logged).
LockHasCombo == timeouts = 0 /\ kbd /\ dog = "rest" => combo

\* The client whose mutex the next step of g takes, 0 if it takes none.
NextClient(g) ==
  CASE g \in Users -> IF pc[g] = "request" THEN client ELSE 0
    [] g = "sync"  -> IF pc[g] = "query" THEN polled ELSE 0
    [] g = "dog"   -> IF dog \in {"ping", "close", "relock", "combo"} THEN mClient ELSE 0

\* The next step of g takes a mutex that h holds: c.mu, m.mu or a client's.
WaitsFor(g, h) ==
  \/ h = mu /\ (IF g = "dog" THEN dog = "adopt" ELSE pc[g] = "enter")
  \/ h = "dog" /\ ~ManagerFree /\ g # "dog" /\ pc[g] = "desire"
  \/ using[h] # 0 /\ using[h] = NextClient(g)

Blocked == {g \in Goroutines : \E h \in Goroutines : WaitsFor(g, h)}

\* No goroutines wait for one another in a circle: restart holds m.mu while it
\* waits for the client's mutex, commands hold c.mu while they wait for either,
\* and onRestart waits for c.mu (manager.go restart, controller.go LockCommand,
\* main.go onRestart).
NoWaitCycle ==
  \A S \in SUBSET Blocked : S # {} => \E g \in S : \A h \in S : ~WaitsFor(g, h)

\* While nothing has gone wrong, every recorded lock has its time limit: the idle
\* timer runs, or its callback is on the way, which asks for the unlock of whatever
\* lock it finds.  Neither a callback that was late nor the order of Start and
\* Stop leaves a lock without either (idletimeout.go, UnlockCommand).
LockHasTimeLimit ==
  mu = "none" /\ locked =>
    \/ timer = "armed"
    \/ pc["idler"] # "rest"
    \/ crashes > 0 \/ timeouts > 0

\* A single crash, or timeouts without one, never leave the watchdog without a
\* client to ping, which it would be for good, unless a launch or a Connect fails
\* of itself (manager.go watchdog, restart).
WatchdogKeepsClient ==
  failures = 0 /\ (crashes = 0 \/ (crashes = 1 /\ timeouts = 0))
    => mClient # 0 \/ dog \in {"start", "dial"}

Restarting == {"start", "dial", "restore", "relock", "relocked", "adopt"}

\* No command succeeds between the moment restart closes the client and the moment
\* the controller has the new one, so the desired state that restart reads and
\* uses later can only be older than commands that were answered before the
\* restart and are still on their way to SetDesiredLock.
RestartExcludesCommands ==
  [][\A g \in Users :
       pc[g] = "reply" /\ pc'[g] = "commit" => dog \notin Restarting]_vars

-----------------------------------------------------------------------------
(* The program implements LockService. *)

\* The command that holds c.mu and may still change the keyboard; and whether it
\* has: its OK is the next answer in the pipe, or has been read.
Calling == mu \in Users /\ pc[mu] \in {"request", "reply", "commit"}

Heard(g, r) == using[g] = live /\ resp # <<>> /\ Head(resp) = r

Effective ==
  /\ Calling
  /\ \/ pc[mu] = "commit"
     \/ pc[mu] = "reply" /\ Heard(mu, "OK")

\* The poller has the sentinel's "UNLOCKED", or is about to.
SeenUnlocked ==
  \/ pc["sync"] = "status" /\ Heard("sync", "UNLOCKED")
  \/ op["sync"] = "SYNC" /\ pc["sync"] \in {"enter", "commit"}

Service == INSTANCE LockService WITH
  record  <- locked,
  call    <- IF Calling THEN op[mu] ELSE "none",
  done    <- Effective,
  seen    <- SeenUnlocked,
  crashed <- crashes > 0,
  lossy   <- timeouts > 0

\* However the goroutines, the pipe, the watchdog and the sentinel interleave, a
\* command acts and is recorded in that order and apart from every other command
\* (c.mu); it never fails, and nothing locks the keyboard without a command,
\* unless the sentinel has died or a Send has timed out; and the record is
\* corrected without a command only after the keyboard was found unlocked.
ImplementsLockService == Service!Spec

-----------------------------------------------------------------------------
(* The strengthenings that make the invariants inductive. *)

Holding == {"request", "reply", "commit", "desire", "finish"}

\* A goroutine holds c.mu exactly while it is inside a command that changes the
\* lock state, it has a command exactly while it runs one, and only the poller
\* runs syncUnlock and asks for the state.
MutexDiscipline ==
  \A g \in Agents :
    /\ mu = g <=> pc[g] \in Holding
    /\ op[g] = "none" <=> pc[g] \in {"rest", "query", "status"}
    /\ op[g] = "SYNC" => g = "sync"
    /\ op[g] \in {"LOCK", "UNLOCK"} => g # "sync"
    /\ pc[g] \in {"query", "status"} => g = "sync"
    /\ pc[g] \in {"request", "reply"} => g # "sync"

\* How far the holder of c.mu has got in recording the new state.
StateRecorded ==
  /\ \A g \in Agents : pc[g] \in {"desire", "finish"} => locked = Wants(g)
  /\ (\A g \in Agents : pc[g] # "desire") => desired = locked
  /\ (\A g \in Agents : pc[g] \notin {"desire", "finish"}) =>
        /\ locked <=> timer # "off"
        /\ (shown <=> locked) \/ (missed /\ locked)
  /\ shown => ready

\* The watchdog has a client wherever it uses one.
DogHasClient == dog \notin {"rest", "start", "dial"} => mClient # 0

\* Who is in a Send.
SendersKnown ==
  /\ \A g \in Agents : using[g] # 0 <=> pc[g] \in {"reply", "status"}
  /\ using["dog"] # 0 <=> dog \in {"pong", "relocked", "confirm"}

\* A client serves one Send at a time, and an idle or absent connection is empty.
PipeDiscipline ==
  /\ \A g, h \in Goroutines : using[g] # 0 /\ using[g] = using[h] => g = h
  /\ hungup => live # 0 /\ Waiting = {}
  /\ live = 0 => req = <<>> /\ resp = <<>>
  /\ timeouts = 0 /\ Waiting = {} => req = <<>> /\ resp = <<>>

\* A sentinel without a combo is not connected, and not locked; or it is in the
\* hands of a restart that will set the combo; or has the request for it.
ComboComing ==
  timeouts = 0 /\ ~combo =>
    \/ live = 0 /\ ~kbd
    \/ /\ dog \in {"restore", "relock", "relocked", "adopt", "combo"}
       /\ mClient = live /\ ~hungup
    \/ dog = "confirm" /\ using["dog"] = live /\ req # <<>>

\* As long as nothing has failed, a callback of the idle timer ends with the unlock
\* that stops the timer.
TimerPending ==
  timer = "fired" /\ crashes = 0 /\ timeouts = 0 => pc["idler"] # "rest"

\* The callback of the idle timer runs UnlockCommand and nothing else.
IdlerUnlocks == op["idler"] \in {"none", "UNLOCK"}

\* A restart finds the sentinel it has launched, unless that one has died as well.
LaunchedLives ==
  /\ crashes = 0 => alive
  /\ crashes = 1 /\ timeouts = 0 /\ dog = "dial" => alive

\* What the controller uses is cut off from the moment restart closes it.
RestartIsolates ==
  /\ live \in {0, dials} /\ mClient \in {0, dials}
  /\ dog \in {"start", "dial"} => live = 0 \/ hungup
  /\ dog \in {"restore", "relock", "relocked", "adopt"} => client # live

\* A command that waits for its answer waits for it on the controller's client.
CommandsUseClient == \A g \in Users : pc[g] = "reply" => using[g] = client
=============================================================================
