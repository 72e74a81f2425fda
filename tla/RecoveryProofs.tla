--------------------------- MODULE RecoveryProofs ---------------------------
(***************************************************************************)
(* Theorems about the running program's mutexes, its idle timer and the    *)
(* restart of the sentinel: that nobody waits in a circle, that a lock has *)
(* its time limit, and what a restart keeps and excludes.                  *)
(***************************************************************************)
EXTENDS ServiceProofs

-----------------------------------------------------------------------------
(* Nobody waits in a circle. *)

\* Goroutines in a Send wait for nobody, the watchdog waits only for them unless
\* it waits for c.mu, and whoever holds c.mu waits for one of the two.
LEMMA WaitsEnd ==
  ASSUME Typed, SendersKnown
  PROVE  NoWaitCycle
<1>1. SUFFICES ASSUME NEW S \in SUBSET Goroutines, S # {}
               PROVE  \E g \in S : \A h \in S : ~WaitsFor(g, h)
  BY DEF NoWaitCycle, Blocked
<1>2. /\ Goroutines = Agents \cup {"dog"} /\ "dog" \notin Agents
      /\ Agents = Users \cup {"sync"} /\ "sync" \notin Users
  BY CallersAssumption DEF Goroutines, Agents, Users
<1>3. CASE \E g \in S : using[g] # 0
  <2>1. PICK g \in S : using[g] # 0  BY <1>3
  <2>2. CASE g = "dog"
    <3>1. dog \in {"pong", "relocked", "confirm"}  BY <2>1, <2>2 DEF SendersKnown
    <3>2. NextClient(g) = 0  BY <1>2, <2>2, <3>1 DEF NextClient
    <3>3. QED  BY <2>2, <3>1, <3>2 DEF WaitsFor
  <2>3. CASE g \in Agents
    <3>1. pc[g] \in {"reply", "status"}  BY <2>1, <2>3 DEF SendersKnown
    <3>2. NextClient(g) = 0  BY <1>2, <2>3, <3>1 DEF NextClient
    <3>3. QED  BY <1>2, <2>3, <3>1, <3>2 DEF WaitsFor
  <2>4. QED  BY <1>2, <2>2, <2>3
<1>4. CASE (\A g \in S : using[g] = 0) /\ "dog" \in S /\ dog # "adopt"
  BY <1>4 DEF WaitsFor
<1>5. CASE (\A g \in S : using[g] = 0) /\ ("dog" \in S => dog = "adopt")
  <2>1. \A g \in S : ~WaitsFor(g, "dog") \/ "dog" \notin S
    BY <1>2, <1>5 DEF WaitsFor, ManagerFree, Typed, TypeOK, ControllerTypeOK
  <2>2. \A g, h \in S : WaitsFor(g, h) => h = mu
    BY <1>5, <2>1 DEF WaitsFor
  <2>3. CASE mu \in S
    <3>1. mu \in Agents /\ mu # "dog"
      BY <1>2, <2>3, CallersAssumption
         DEF Typed, TypeOK, ControllerTypeOK, Goroutines, Agents, Users
    <3>2. pc[mu] # "enter"  BY <3>1 DEF Typed, MutexDiscipline, Holding
    <3>3. using[mu] = 0  BY <1>5, <2>3
    <3>4. ~WaitsFor(mu, mu)  BY <3>1, <3>2, <3>3 DEF WaitsFor
    <3>5. QED  BY <2>2, <2>3, <3>4
  <2>4. CASE mu \notin S  BY <1>1, <2>2, <2>4
  <2>5. QED  BY <2>3, <2>4
<1>6. QED  BY <1>3, <1>4, <1>5

\* However many commands arrive, in whatever order they meet a restart of the
\* sentinel: the goroutines that wait for c.mu, m.mu and the client's mutex never
\* wait for one another in a circle (manager.go, controller.go, client.go).
THEOREM NeverWaitsInCircle == Spec => []NoWaitCycle
<1>1. PipeInv => NoWaitCycle  BY WaitsEnd DEF PipeInv
<1>2. QED  BY <1>1, PipeInvInit, PipeInvStep, PTL DEF Spec

-----------------------------------------------------------------------------
(* The time limit of a lock. *)

\* As long as nothing has gone wrong, a command that has asked hears its OK.
LEMMA QuietHears ==
  ASSUME ServiceInv, crashes = 0, timeouts' = 0, NEW g \in Users, Ask(g) \/ Hear(g)
  PROVE  ~Done(g)
<1>a. /\ Typed /\ SendersKnown /\ Channel /\ Quiet /\ g \in Agents
      /\ Agents \subseteq Goroutines
  BY DEF ServiceInv, PipeInv, Agents, Goroutines
<1>b. timeouts = 0
  <2>1. timeouts \in Nat  BY <1>a, TimeoutsAssumption DEF Typed, TypeOK, IpcTypeOK
  <2>2. timeouts' \in {timeouts, timeouts + 1}
    BY DEF Ask, Request, Send, Refused, Hear, Reply, Answered, Failed, ipcVars
  <2>3. QED  BY <2>1, <2>2
<1>c. live = 1 /\ dials = 1 /\ ~hungup  BY <1>a, <1>b DEF Quiet
<1>d. pc \in [Agents -> Steps]  BY <1>a DEF Typed, TypeOK, ControllerTypeOK
<1>1. CASE Ask(g)
  <2>1. client = live  BY <1>a, <1>c DEF Typed, TypeOK, ControllerTypeOK
  <2>2. ~Refused(client)  BY <1>c, <2>1 DEF Refused, Connected
  <2>3. At(g, "reply")  BY <1>1, <2>2 DEF Ask, Request
  <2>4. QED  BY <1>a, <1>d, <2>3 DEF At, Done
<1>2. CASE Hear(g)
  <2>1. pc[g] = "reply"  BY <1>2 DEF Hear, Reply
  <2>2. using[g] = live
    BY <1>a, <1>c, <2>1 DEF SendersKnown, Typed, TypeOK, IpcTypeOK
  <2>3. ~Failed(g)  BY <1>b, <2>2, TimeoutsAssumption DEF Failed
  <2>4. g \in Waiting  BY <1>a, <1>c, <2>2 DEF Waiting
  <2>5. Fits(Asked(g)) = {"OK"}
    <3>1. op[g] \in Ops \ {"none", "SYNC"}
      BY <1>a, <2>1, CallersAssumption
         DEF Typed, MutexDiscipline, TypeOK, ControllerTypeOK, Agents, Users
    <3>2. Asked(g) = op[g]  BY CallersAssumption DEF Asked, Users
    <3>3. QED  BY <3>1, <3>2 DEF Fits, Ops
  <2>6. \A r : Answered(g, r) => r = "OK"
    BY <1>a, <1>b, <2>4, <2>5 DEF Channel, RepliesMatchRequests, Answered
  <2>7. At(g, "commit")  BY <1>2, <2>3, <2>6 DEF Hear, Reply
  <2>8. QED  BY <1>a, <1>d, <2>7 DEF At, Done
<1>3. QED  BY <1>1, <1>2

\* The idle timer's callback is UnlockCommand.
LEMMA IdlerStep ==
  ASSUME Typed, IdlerUnlocks, [Next]_vars
  PROVE  IdlerUnlocks'
<1>a. /\ "idler" \in Users /\ "idler" \in Agents /\ "idler" \notin Callers
      /\ op \in [Agents -> Ops]
  BY CallersAssumption DEF Typed, TypeOK, ControllerTypeOK, Users, Agents
<1>1. CASE op'["idler"] = op["idler"]  BY <1>1 DEF IdlerUnlocks
<1>2. CASE TimerFires
  BY <1>2, <1>a DEF TimerFires, IdleFires, Begin, IdlerUnlocks
<1>3. CASE Arrive
  BY <1>1, <1>3, <1>a DEF Arrive, Click, HandleHotkey, Command, Begin
<1>4. ASSUME NEW g \in Agents, AgentStep(g)
      PROVE  IdlerUnlocks'
  BY <1>4, <1>a
     DEF AgentStep, GetIn, NoOp, Enter, Ask, Request, GiveUp, Hear, Reply, Record,
         Commit, Tell, Desire, Release, Finish, At, Done, IdlerUnlocks
<1>5. CASE StartPoll \/ AskStatus \/ HearStatus
  BY <1>1, <1>5, <1>a
     DEF StartPoll, Poll, AskStatus, Query, HearStatus, Status, At, Begin
<1>6. CASE DogStep
  BY <1>1, <1>6 DEF DogStep, Tick, DogWorks, DogAdopt, SetClient, controllerVars
<1>7. CASE SentinelWorks \/ SentinelFate \/ TrayReady \/ UNCHANGED vars
  BY <1>1, <1>7
     DEF SentinelWorks, SentinelFate, TrayReady, OnReady, vars, controllerVars
<1>8. QED
  BY <1>2, <1>3, <1>4, <1>5, <1>6, <1>7 DEF Next, SyncStep, Agents

\* The callback returns only after an unlock that has stopped the timer, its own
\* or one that came before it.
LEMMA TimerStep ==
  ASSUME ServiceInv, StateAgrees, IdlerUnlocks, TimerPending, [Next]_vars
  PROVE  TimerPending'
<1>1. SUFFICES ASSUME timer' = "fired", crashes' = 0, timeouts' = 0
               PROVE  pc'["idler"] # "rest"
  BY DEF TimerPending
<1>a. /\ Typed /\ crashes = 0 /\ timeouts = 0
      /\ "idler" \in Users /\ "idler" \in Agents
      /\ pc \in [Agents -> Steps] /\ op \in [Agents -> Ops]
  BY <1>1, FaultsStay
     DEF ServiceInv, PipeInv, Typed, TypeOK, ControllerTypeOK, Users, Agents
<1>2. CASE timer' = timer /\ pc'["idler"] = pc["idler"]
  BY <1>1, <1>2, <1>a DEF TimerPending
<1>3. CASE TimerFires
  BY <1>3, <1>a DEF TimerFires, IdleFires, Begin
<1>4. CASE Arrive
  <2>1. timer' = timer  BY <1>4 DEF Arrive, Click, HandleHotkey, Command
  <2>2. pc'["idler"] = pc["idler"]
    BY <1>4, <1>a, CallersAssumption
       DEF Arrive, Click, HandleHotkey, Command, Begin
  <2>3. QED  BY <1>2, <2>1, <2>2
<1>5. ASSUME NEW g \in Agents, AgentStep(g)
      PROVE  pc'["idler"] # "rest"
  <2>1. CASE Release(g)
    BY <1>1, <2>1 DEF Release, Finish
  <2>2. CASE g # "idler" /\ ~Release(g)
    <3>1. timer' = timer
      BY <1>5, <2>2
         DEF AgentStep, GetIn, NoOp, Enter, Ask, Request, GiveUp, Hear, Reply, Record,
             Commit, Tell, Desire
    <3>2. pc'["idler"] = pc["idler"]
      BY <1>5, <1>a, <2>2
         DEF AgentStep, GetIn, NoOp, Enter, Ask, Request, GiveUp, Hear, Reply, Record,
             Commit, Tell, Desire, At, Done
    <3>3. QED  BY <1>2, <1>1, <1>a, <3>1, <3>2 DEF TimerPending
  <2>3. CASE g = "idler" /\ GetIn(g)
    <3>1. timer = "fired"  BY <1>1, <2>3 DEF GetIn, NoOp, Enter
    <3>2. ~(mu = "none" /\ locked = FALSE)
      BY <3>1, <1>a DEF StateAgrees, Typed, TypeOK, ControllerTypeOK
    <3>3. CASE NoOp(g)
      <4>1. locked = TRUE /\ mu = "none"
        BY <3>2, <3>3, <1>a DEF NoOp, Typed, TypeOK, ControllerTypeOK
      <4>2. op[g] = "LOCK"  BY <3>3, <4>1 DEF NoOp, Wants
      <4>3. QED  BY <2>3, <4>2 DEF IdlerUnlocks
    <3>4. CASE Enter(g)
      BY <3>4, <2>3, <1>a DEF Enter, At
    <3>5. QED  BY <2>3, <3>3, <3>4 DEF GetIn
  <2>4. CASE g = "idler" /\ (Ask(g) \/ Hear(g))
    <3>1. ~Done(g)  BY <1>1, <1>a, <2>4, QuietHears
    <3>2. \E step \in {"reply", "commit"} : At(g, step)
      BY <2>4, <3>1 DEF Ask, Request, Hear, Reply, GiveUp
    <3>3. QED  BY <2>4, <3>2, <1>a DEF At
  <2>5. CASE g = "idler" /\ (Record(g) \/ Tell(g))
    BY <2>5, <1>a DEF Record, Commit, Tell, Desire, At
  <2>6. QED  BY <1>5, <2>1, <2>2, <2>3, <2>4, <2>5 DEF AgentStep
<1>6. CASE StartPoll \/ AskStatus \/ HearStatus
  <2>1. timer' = timer
    BY <1>6 DEF StartPoll, Poll, AskStatus, Query, HearStatus, Status
  <2>2. pc'["idler"] = pc["idler"]
    BY <1>6, <1>a
       DEF StartPoll, Poll, AskStatus, Query, HearStatus, Status, At, Begin
  <2>3. QED  BY <1>2, <2>1, <2>2
<1>7. CASE DogStep
  BY <1>2, <1>7
     DEF DogStep, Tick, DogWorks, DogAdopt, SetClient, controllerVars
<1>8. CASE SentinelWorks \/ SentinelFate \/ TrayReady \/ UNCHANGED vars
  BY <1>2, <1>8
     DEF SentinelWorks, SentinelFate, TrayReady, OnReady, vars, controllerVars
<1>9. QED
  BY <1>3, <1>4, <1>5, <1>6, <1>7, <1>8 DEF Next, SyncStep, Agents

LimitInv == ServiceInv /\ StateRecorded /\ IdlerUnlocks /\ TimerPending

LEMMA LimitInit == Init => LimitInv
<1>1. SUFFICES ASSUME Init PROVE LimitInv  OBVIOUS
<1>2. "idler" \in Agents  BY DEF Agents, Users
<1>3. IdlerUnlocks /\ TimerPending
  BY <1>1, <1>2 DEF Init, ControllerInit, IdlerUnlocks, TimerPending
<1>4. QED
  BY <1>1, <1>3, PipeInvInit, QuietInit, RecordedInit DEF LimitInv, ServiceInv

LEMMA LimitStep == LimitInv /\ [Next]_vars => LimitInv'
<1>1. SUFFICES ASSUME LimitInv, [Next]_vars PROVE LimitInv'  OBVIOUS
<1>2. Typed /\ StateAgrees
  BY <1>1, RecordedAgrees DEF LimitInv, ServiceInv, PipeInv
<1>3. ServiceInv'
  BY <1>1, PipeInvStep, QuietStep DEF LimitInv, ServiceInv
<1>4. QED
  BY <1>1, <1>2, <1>3, RecordedStep, IdlerStep, TimerStep DEF LimitInv

\* Until something goes wrong with the sentinel, no lock is without its time limit:
\* the timer runs, or its callback does, whichever commands, hotkeys and late
\* callbacks come between (idletimeout.go, controller.go).
THEOREM LockAlwaysHasTimeLimit == Spec => []LockHasTimeLimit
<1>1. LimitInv => LockHasTimeLimit
  <2>1. SUFFICES ASSUME LimitInv, mu = "none", locked, crashes = 0, timeouts = 0
                 PROVE  timer = "armed" \/ pc["idler"] # "rest"
    <3>1. ASSUME LimitInv
          PROVE  /\ crashes > 0 \/ crashes = 0
                 /\ timeouts > 0 \/ timeouts = 0
      <4>1. Typed  BY <3>1 DEF LimitInv, ServiceInv, PipeInv
      <4>2. QED
        BY <4>1, CrashesAssumption, TimeoutsAssumption
           DEF Typed, TypeOK, IpcTypeOK, ServerTypeOK
    <3>2. QED  BY <3>1 DEF LockHasTimeLimit
  <2>2. Typed /\ StateAgrees
    BY <2>1, RecordedAgrees DEF LimitInv, ServiceInv, PipeInv
  <2>3. timer \in {"armed", "fired"}
    BY <2>1, <2>2 DEF StateAgrees, Typed, TypeOK, ControllerTypeOK
  <2>4. QED  BY <2>1, <2>3 DEF LimitInv, TimerPending
<1>2. QED  BY <1>1, LimitInit, LimitStep, PTL DEF Spec

-----------------------------------------------------------------------------
(* What a restart keeps. *)

\* Nothing but the watchdog's own steps changes its client, and nothing but a crash
\* ends the sentinel.
LEMMA OthersKeepClient ==
  ASSUME [Next]_vars, ~DogStep, ~SentinelFate
  PROVE  UNCHANGED <<dog, mClient, alive, crashes, failures>>
<1>1. ASSUME NEW g \in Agents, AgentStep(g)
      PROVE  UNCHANGED <<dog, mClient, alive, crashes, failures>>
  BY <1>1
     DEF AgentStep, GetIn, Ask, Hear, Record, Tell, Desire, SetDesiredLock, Release,
         managerVars, serverVars
<1>2. CASE Arrive \/ TimerFires \/ StartPoll \/ AskStatus \/ HearStatus \/ TrayReady
           \/ UNCHANGED vars
  BY <1>2
     DEF Arrive, TimerFires, StartPoll, AskStatus, HearStatus, TrayReady, vars,
         managerVars, serverVars
<1>3. CASE SentinelWorks
  BY <1>3 DEF SentinelWorks, Serve, SeesHangup, managerVars, serverVars
<1>4. QED  BY <1>1, <1>2, <1>3 DEF Next, SyncStep, Agents

LEMMA WatchdogStep ==
  ASSUME ServiceInv, LaunchedLives, WatchdogKeepsClient, [Next]_vars
  PROVE  LaunchedLives' /\ WatchdogKeepsClient'
<1>a. /\ Typed /\ Quiet
      /\ crashes \in Nat /\ timeouts \in Nat /\ failures \in Nat
      /\ timeouts' = 0 => timeouts = 0
  <2>1. Typed /\ Quiet /\ [Next]_vars  BY DEF ServiceInv, PipeInv
  <2>2. crashes \in Nat /\ timeouts \in Nat /\ failures \in Nat
    BY <2>1, CrashesAssumption, TimeoutsAssumption, FailuresAssumption
       DEF Typed, TypeOK, IpcTypeOK, ServerTypeOK, ManagerTypeOK
  <2>3. timeouts' \in Nat
    <3>1. Typed'  BY <2>1, TypedStep
    <3>2. QED  BY <3>1, TimeoutsAssumption DEF Typed, TypeOK, IpcTypeOK
  <2>4. timeouts > 0 => timeouts' > 0  BY <2>1, FaultsStay
  <2>5. QED  BY <2>1, <2>2, <2>3, <2>4
<1>1. CASE ~DogStep /\ ~SentinelFate
  BY <1>1, <1>a, OthersKeepClient DEF LaunchedLives, WatchdogKeepsClient
<1>2. CASE SelfUnlock /\ SentinelFate
  BY <1>2, <1>a
     DEF SentinelFate, SelfUnlock, managerVars, LaunchedLives, WatchdogKeepsClient
<1>3. CASE Crash /\ SentinelFate
  <2>1. crashes' = crashes + 1 /\ UNCHANGED <<dog, mClient, failures, timeouts>>
    BY <1>3 DEF SentinelFate, Crash, managerVars
  <2>2. crashes' = 1 /\ timeouts' = 0 => dog \in {"rest", "ping", "pong"} /\ mClient = 1
    BY <1>a, <2>1 DEF Quiet
  <2>3. QED  BY <1>a, <2>1, <2>2 DEF LaunchedLives, WatchdogKeepsClient
<1>4. CASE DogStep
  <2>1. crashes' = crashes /\ alive' \in {alive, TRUE}
    BY <1>4
       DEF DogStep, Tick, DogTick, DogWorks, DogAdopt, DogPing, DogPong, DogClose,
           DogLaunch, Launch, DogLaunchFails, DogDial, DogDialFails, DogRestore,
           DogRelock, DogRelocked, DogCombo, DogConfirm, DogSends, DogHears, serverVars
  <2>2. CASE Tick \/ DogAdopt \/ DogPing \/ DogPong \/ DogRestore \/ DogRelock
             \/ DogRelocked \/ DogCombo \/ DogConfirm
    <3>1. UNCHANGED <<mClient, alive, failures>> /\ dog' # "dial"
          /\ dog \notin {"start", "dial"}
      BY <2>2
         DEF Tick, DogTick, DogAdopt, DogPing, DogPong, DogRestore, DogRelock,
             DogRelocked, DogCombo, DogConfirm, DogSends, DogHears, GoTo, serverVars
    <3>2. QED  BY <1>a, <2>1, <3>1 DEF LaunchedLives, WatchdogKeepsClient
  <2>3. CASE DogClose
    BY <1>a, <2>1, <2>3
       DEF DogClose, GoTo, LaunchedLives, WatchdogKeepsClient, serverVars
  <2>4. CASE DogLaunch
    BY <1>a, <2>1, <2>4
       DEF DogLaunch, Launch, GoTo, LaunchedLives, WatchdogKeepsClient
  <2>5. CASE DogLaunchFails
    BY <1>a, <2>1, <2>5
       DEF DogLaunchFails, LaunchedLives, WatchdogKeepsClient, serverVars
  <2>6. CASE DogDial
    <3>1. mClient' # 0
      BY <1>a, <2>6 DEF DogDial, Dial, Typed, TypeOK, IpcTypeOK
    <3>2. alive' = alive /\ dog' = "restore"  BY <2>6 DEF DogDial, GoTo, serverVars
    <3>3. QED  BY <1>a, <2>1, <3>1, <3>2 DEF LaunchedLives, WatchdogKeepsClient
  <2>7. CASE DogDialFails
    BY <1>a, <2>1, <2>7
       DEF DogDialFails, LaunchedLives, WatchdogKeepsClient, serverVars
  <2>8. QED
    BY <1>4, <2>2, <2>3, <2>4, <2>5, <2>6, <2>7 DEF DogStep, DogWorks
<1>5. QED  BY <1>1, <1>2, <1>3, <1>4 DEF SentinelFate

\* One crash, or timeouts alone, never leave the watchdog without a client, which
\* it would be for good (manager.go watchdog): every restart finds the sentinel it
\* has launched, unless a launch or a Connect fails of itself.
THEOREM WatchdogAlwaysKeepsClient == Spec => []WatchdogKeepsClient
<1>1. Init => ServiceInv /\ LaunchedLives /\ WatchdogKeepsClient
  <2>1. Init => LaunchedLives /\ WatchdogKeepsClient
    BY DEF Init, ManagerInit, LaunchedLives, WatchdogKeepsClient
  <2>2. QED  BY <2>1, PipeInvInit, QuietInit DEF ServiceInv
<1>2. ServiceInv /\ LaunchedLives /\ WatchdogKeepsClient /\ [Next]_vars
        => ServiceInv' /\ LaunchedLives' /\ WatchdogKeepsClient'
  BY PipeInvStep, QuietStep, WatchdogStep DEF ServiceInv
<1>3. QED  BY <1>1, <1>2, PTL DEF Spec

-----------------------------------------------------------------------------
(* What a restart excludes. *)

LEMMA IsolatesStep ==
  ASSUME Typed, RestartIsolates, [Next]_vars
  PROVE  RestartIsolates'
<1>a. /\ client \in 1..dials /\ dials \in Nat /\ mClient \in 0..dials /\ live \in Nat
  BY DEF Typed, TypeOK, ControllerTypeOK, ManagerTypeOK, IpcTypeOK
<1>1. ASSUME UNCHANGED <<live, dials, hungup, mClient, dog, client>>
      PROVE  RestartIsolates'
  BY <1>1 DEF RestartIsolates
<1>2. ASSUME NEW g \in Agents, AgentStep(g)
      PROVE  RestartIsolates'
  BY <1>1, <1>2
     DEF AgentStep, GetIn, NoOp, Enter, Ask, Request, Send, Refused, GiveUp, Hear,
         Reply, Answered, Failed, Record, Commit, Tell, Desire, SetDesiredLock,
         Release, Finish, ipcVars, managerVars
<1>3. CASE Arrive \/ TimerFires \/ StartPoll \/ TrayReady
  BY <1>1, <1>3
     DEF Arrive, Click, HandleHotkey, Command, TimerFires, IdleFires, StartPoll, Poll,
         TrayReady, OnReady, ipcVars, managerVars
<1>4. CASE AskStatus \/ HearStatus
  BY <1>1, <1>4
     DEF AskStatus, Query, Send, Refused, HearStatus, Status, Answered, Failed,
         ipcVars, managerVars
<1>5. CASE DogAdopt
  BY <1>5 DEF DogAdopt, GoTo, ipcVars, RestartIsolates
<1>6. CASE Tick
  BY <1>6 DEF Tick, DogTick, GoTo, ipcVars, controllerVars, RestartIsolates
<1>7. CASE DogWorks
  <2>1. client' = client  BY <1>7 DEF DogWorks, controllerVars
  <2>2. CASE DogPing \/ DogRelock \/ DogCombo
    BY <2>1, <2>2
       DEF DogPing, DogRelock, DogCombo, DogSends, Send, Refused, GoTo, ipcVars,
           RestartIsolates
  <2>3. CASE DogPong \/ DogRelocked \/ DogConfirm
    BY <2>1, <2>3
       DEF DogPong, DogRelocked, DogConfirm, DogHears, Answered, Failed, GoTo,
           RestartIsolates
  <2>4. CASE DogClose
    <3>1. mClient = dials  BY <2>4 DEF DogClose, Typed, DogHasClient, RestartIsolates
    <3>2. QED
      BY <2>1, <2>4, <3>1 DEF DogClose, Close, GoTo, RestartIsolates
  <2>5. CASE DogLaunch \/ DogLaunchFails \/ DogDialFails
    BY <2>1, <2>5
       DEF DogLaunch, Launch, DogLaunchFails, DogDialFails, GoTo, ipcVars,
           RestartIsolates
  <2>6. CASE DogDial
    BY <1>a, <2>1, <2>6 DEF DogDial, Dial, GoTo, RestartIsolates
  <2>7. CASE DogRestore
    BY <2>1, <2>7 DEF DogRestore, GoTo, ipcVars, RestartIsolates
  <2>8. QED
    BY <1>7, <2>2, <2>3, <2>4, <2>5, <2>6, <2>7 DEF DogWorks
<1>8. CASE SentinelWorks \/ SentinelFate
  BY <1>8, <1>a
     DEF SentinelWorks, Serve, SeesHangup, SentinelFate, SelfUnlock, Crash, ipcVars,
         managerVars, controllerVars, RestartIsolates
<1>9. CASE UNCHANGED vars
  BY <1>1, <1>9 DEF vars, ipcVars, managerVars, controllerVars
<1>10. QED
  BY <1>2, <1>3, <1>4, <1>5, <1>6, <1>7, <1>8, <1>9
     DEF Next, SyncStep, DogStep, Agents

\* SetClient has to wait for c.mu, which a command holds while it waits.
LEMMA CommandsStep ==
  ASSUME Typed, CommandsUseClient, [Next]_vars
  PROVE  CommandsUseClient'
<1>a. /\ "dog" \notin Users /\ "sync" \notin Users /\ Users \subseteq Goroutines
      /\ Users \subseteq Agents /\ "dog" \notin Agents
      /\ pc \in [Agents -> Steps] /\ using \in [Goroutines -> 0..dials]
      /\ "none" \notin Agents
      /\ "tray" \in Users /\ "hotkey" \in Users /\ "idler" \in Users
      /\ Callers \subseteq Users
  BY CallersAssumption
     DEF Typed, TypeOK, ControllerTypeOK, IpcTypeOK, Users, Agents, Goroutines
<1>1. ASSUME UNCHANGED client,
             \A g \in Users : pc'[g] = "reply" => pc[g] = "reply" /\ using'[g] = using[g]
      PROVE  CommandsUseClient'
  BY <1>1 DEF CommandsUseClient
<1>2. ASSUME NEW g \in Agents, UNCHANGED client, NEW s \in Steps \ {"reply"}, NEW o,
             At(g, s) \/ Done(g) \/ Begin(g, o),
             \A h \in Users \ {g} : using'[h] = using[h]
      PROVE  CommandsUseClient'
  BY <1>1, <1>2, <1>a DEF At, Done, Begin
<1>3. ASSUME NEW g \in Agents, AgentStep(g)
      PROVE  CommandsUseClient'
  <2>1. client' = client
    BY <1>3
       DEF AgentStep, GetIn, NoOp, Enter, Ask, Request, GiveUp, Hear, Reply, Record,
           Commit, Tell, Desire, Release, Finish
  <2>2. CASE Send(g, client, op[g]) /\ At(g, "reply")
    BY <1>a, <2>1, <2>2 DEF Send, At, CommandsUseClient
  <2>3. CASE ~(Send(g, client, op[g]) /\ At(g, "reply"))
    <3>1. \E s \in Steps \ {"reply"} : At(g, s) \/ Done(g)
      BY <1>3, <2>3
         DEF AgentStep, GetIn, NoOp, Enter, Ask, Request, GiveUp, Hear, Reply, Record,
             Commit, Tell, Desire, Release, Finish, Steps
    <3>2. \A h \in Users \ {g} : using'[h] = using[h]
      BY <1>3, <2>3, <1>a
         DEF AgentStep, GetIn, Ask, Request, Refused, Hear, Reply, Answered, Failed,
             Record, Tell, Release, ipcVars
    <3>3. QED  BY <1>2, <2>1, <3>1, <3>2
  <2>4. QED  BY <2>2, <2>3
<1>4. CASE Arrive \/ TimerFires
  BY <1>4, <1>a, <1>1
     DEF Arrive, Click, HandleHotkey, Command, TimerFires, IdleFires, Begin, ipcVars
<1>5. CASE StartPoll \/ AskStatus \/ HearStatus
  <2>1. client' = client
    BY <1>5 DEF StartPoll, Poll, AskStatus, Query, HearStatus, Status
  <2>2. \A h \in Users : pc'[h] = pc[h] /\ using'[h] = using[h]
    BY <1>5, <1>a
       DEF StartPoll, Poll, AskStatus, Query, Send, Refused, HearStatus, Status,
           Answered, Failed, At, Begin, ipcVars
  <2>3. QED  BY <1>1, <2>1, <2>2
<1>6. CASE DogAdopt
  BY <1>6, <1>a
     DEF DogAdopt, SetClient, Typed, MutexDiscipline, Holding, CommandsUseClient
<1>7. CASE Tick \/ DogWorks
  <2>1. UNCHANGED <<pc, client>>  BY <1>7 DEF Tick, DogWorks, controllerVars
  <2>2. \A h \in Users : using'[h] = using[h]
    BY <1>7, <1>a
       DEF Tick, DogTick, DogWorks, DogPing, DogPong, DogClose, Close, DogLaunch,
           Launch, DogLaunchFails, DogDial, Dial, DogDialFails, DogRestore, DogRelock,
           DogRelocked, DogCombo, DogConfirm, DogSends, DogHears, Send, Refused,
           Answered, Failed, ipcVars
  <2>3. QED  BY <1>1, <2>1, <2>2
<1>8. CASE SentinelWorks \/ SentinelFate \/ TrayReady \/ UNCHANGED vars
  <2>1. UNCHANGED <<pc, client, using>>
    BY <1>8
       DEF SentinelWorks, Serve, SeesHangup, SentinelFate, SelfUnlock, Crash,
           TrayReady, OnReady, vars, ipcVars, controllerVars
  <2>2. QED  BY <1>1, <2>1
<1>9. QED
  BY <1>3, <1>4, <1>5, <1>6, <1>7, <1>8 DEF Next, SyncStep, DogStep, Agents

\* Only its own reply takes a command from "reply" to "commit".
LEMMA CommandHears ==
  ASSUME Typed, [Next]_vars, NEW g \in Users, pc[g] = "reply", pc'[g] = "commit"
  PROVE  Hear(g)
<1>a. /\ g \in Agents /\ g # "sync" /\ pc \in [Agents -> Steps]
      /\ "sync" \in Agents /\ "tray" \in Agents /\ "hotkey" \in Agents
      /\ "idler" \in Agents /\ Callers \subseteq Agents
  BY CallersAssumption DEF Typed, TypeOK, ControllerTypeOK, Users, Agents
<1>1. ASSUME NEW h \in Agents, AgentStep(h)
      PROVE  Hear(g)
  <2>1. CASE h = g
    BY <1>1, <1>a, <2>1
       DEF AgentStep, GetIn, NoOp, Enter, Ask, Request, Record, Commit, Tell, Desire,
           Release, Finish
  <2>2. CASE h # g
    BY <1>1, <1>a, <2>2
       DEF AgentStep, GetIn, NoOp, Enter, Ask, Request, GiveUp, Hear, Reply, Record,
           Commit, Tell, Desire, Release, Finish, At, Done
  <2>3. QED  BY <2>1, <2>2
<1>2. CASE Arrive \/ TimerFires
  BY <1>2, <1>a
     DEF Arrive, Click, HandleHotkey, Command, TimerFires, IdleFires, Begin
<1>3. CASE StartPoll \/ AskStatus \/ HearStatus
  BY <1>3, <1>a
     DEF StartPoll, Poll, AskStatus, Query, HearStatus, Status, At, Begin
<1>4. CASE DogStep \/ SentinelWorks \/ SentinelFate \/ TrayReady \/ UNCHANGED vars
  BY <1>4
     DEF DogStep, Tick, DogWorks, DogAdopt, SetClient, SentinelWorks, SentinelFate,
         TrayReady, OnReady, vars, controllerVars
<1>5. QED  BY <1>1, <1>2, <1>3, <1>4 DEF Next, SyncStep, Agents

\* The answer of a command arrives on the controller's client, which restart has
\* either just hung up or not replaced yet.
LEMMA RestartShuts ==
  ASSUME PipeInv, RestartIsolates, CommandsUseClient, NEW g \in Users, Hear(g),
         pc'[g] = "commit"
  PROVE  dog \notin Restarting
<1>a. /\ Typed /\ PipeDiscipline /\ g \in Agents /\ g \in Goroutines
      /\ pc \in [Agents -> Steps]
  BY DEF PipeInv, Channel, Typed, TypeOK, ControllerTypeOK, Users, Agents, Goroutines
<1>1. pc[g] = "reply" /\ Answered(g, "OK")
  BY <1>a DEF Hear, Reply, GiveUp, Done
<1>2. using[g] # 0 /\ using[g] = live /\ client = live
  BY <1>1 DEF Answered, CommandsUseClient
<1>3. g \in Waiting  BY <1>a, <1>2 DEF Waiting
<1>4. ~hungup  BY <1>a, <1>3 DEF PipeDiscipline
<1>5. QED  BY <1>2, <1>4 DEF RestartIsolates, Restarting

\* From the moment restart closes the client to the moment the controller has the
\* new one, no command succeeds (manager.go restart, controller.go SetClient).
THEOREM RestartNeverMeetsCommands == Spec => RestartExcludesCommands
<1>1. Init => PipeInv /\ RestartIsolates /\ CommandsUseClient
  <2>1. Init => RestartIsolates
    BY DEF Init, IpcInit, ManagerInit, ControllerInit, RestartIsolates
  <2>2. Init => CommandsUseClient
    BY DEF Init, ControllerInit, CommandsUseClient, Agents
  <2>3. QED  BY <2>1, <2>2, PipeInvInit
<1>2. PipeInv /\ RestartIsolates /\ CommandsUseClient /\ [Next]_vars
        => PipeInv' /\ RestartIsolates' /\ CommandsUseClient'
  BY PipeInvStep, IsolatesStep, CommandsStep DEF PipeInv
<1>3. PipeInv /\ RestartIsolates /\ CommandsUseClient /\ [Next]_vars
        => [\A g \in Users :
              pc[g] = "reply" /\ pc'[g] = "commit" => dog \notin Restarting]_vars
  BY CommandHears, RestartShuts DEF PipeInv
<1>4. QED  BY <1>1, <1>2, <1>3, PTL DEF Spec, RestartExcludesCommands
=============================================================================
